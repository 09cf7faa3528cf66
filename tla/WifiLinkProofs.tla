--------------------------- MODULE WifiLinkProofs ---------------------------
(***************************************************************************)
(* The wireless hop for packets of every size, any thresholds and limits,  *)
(* any number of packets and any pattern of losses.  The argument follows  *)
(* the packet being sent: Now is its number, kept while its frame is still *)
(* on the air, and the receiver has either heard nothing of it, or all     *)
(* fragments before the current one, or that one too, or can take no more: *)
(* it is stuck with an earlier packet or has exhausted the fragment        *)
(* numbers of this one.  What the ends know of each other lasts until a    *)
(* number is reused; the rest of the invariant does not need it.           *)
(***************************************************************************)
EXTENDS WifiLink, SequenceTheorems, FiniteSetTheorems, TLAPS

(* the values of the variables *)
LEMMA Values ==
  ASSUME TypeOK
  PROVE  /\ size \in Seq(Sizes) /\ Len(size) \in Nat /\ DOMAIN size = 1 .. Len(size)
         /\ sent \in Nat /\ sent <= Len(size) /\ current \in Nat /\ current <= sent
         /\ seq \in Nat /\ seq < SeqSpace /\ sequence \in Nat /\ sequence < SeqSpace
         /\ SeqSpace \in Nat \ {0} /\ FragSpace \in Nat \ {0}
         /\ frag \in Nat /\ frag < 16 * FragSpace /\ retry \in BOOLEAN
         /\ last \in [seq: 0 .. SeqSpace - 1, frag: 0 .. FragSpace - 1]
         /\ last.seq \in Nat /\ last.seq < SeqSpace /\ last.frag \in Nat /\ last.frag < FragSpace
<1>1. SeqSpace \in Nat \ {0} /\ FragSpace \in Nat \ {0}
  BY LimitAssumption
<1>2. size \in Seq(Sizes) /\ Len(size) \in Nat /\ DOMAIN size = 1 .. Len(size)
  BY LenProperties DEF TypeOK
<1>3. /\ sent \in Nat /\ sent <= Len(size) /\ current \in Nat /\ current <= sent
      /\ seq \in Nat /\ seq < SeqSpace /\ sequence \in Nat /\ sequence < SeqSpace
      /\ retry \in BOOLEAN
  BY <1>1, <1>2 DEF TypeOK
<1>4. frag \in Nat /\ frag < 16 * FragSpace
  BY <1>1 DEF TypeOK
<1>5. /\ last \in [seq: 0 .. SeqSpace - 1, frag: 0 .. FragSpace - 1]
      /\ last.seq \in Nat /\ last.seq < SeqSpace /\ last.frag \in Nat /\ last.frag < FragSpace
  BY <1>1 DEF TypeOK
<1> QED BY <1>1, <1>2, <1>3, <1>4, <1>5

(* a division that leaves nothing *)
LEMMA SmallDivision ==
  ASSUME NEW n \in Nat, NEW b \in Nat \ {0}, n < b
  PROVE  n \div b = 0 /\ n % b = n
OBVIOUS

LEMMA Remainder ==
  ASSUME NEW n \in Int, NEW b \in Nat \ {0}
  PROVE  n % b \in 0 .. b - 1
OBVIOUS

(* bits that are all zero change nothing *)
LEMMA OrNothing ==
  ASSUME NEW s \in Nat
  PROVE  Or(s, 0) = s
BY DEF Or, OrBit, Bit

LEMMA OrType ==
  ASSUME NEW s \in Nat, NEW n \in Nat
  PROVE  Or(s, n) \in Nat
<1>1. \A w \in Nat : OrBit(s, n, w) \in Nat
  BY DEF OrBit
<1> QED BY <1>1 DEF Or

(* the field of the header is read as it was written while the fragment     *)
(* number fits its four bits                                                *)
LEMMA ControlFacts ==
  ASSUME NEW s \in 0 .. SeqSpace - 1, NEW n \in Nat
  PROVE  /\ SeqControl(s, n) \in [seq: 0 .. SeqSpace - 1, frag: 0 .. FragSpace - 1]
         /\ SeqControl(s, n).frag = n % FragSpace
         /\ n < FragSpace => SeqControl(s, n) = [seq |-> s, frag |-> n]
<1>1. SeqSpace \in Nat \ {0} /\ FragSpace \in Nat \ {0} /\ s \in Nat /\ s < SeqSpace
  BY LimitAssumption
<1>2. n \div FragSpace \in Nat
  BY <1>1
<1>3. PICK m \in Nat : m = Or(s, n \div FragSpace)
  BY <1>1, <1>2, OrType
<1>4. m % SeqSpace \in 0 .. SeqSpace - 1 /\ n % FragSpace \in 0 .. FragSpace - 1
  BY <1>1, Remainder
<1>5. ASSUME n < FragSpace PROVE SeqControl(s, n) = [seq |-> s, frag |-> n]
  <2>1. n \div FragSpace = 0 /\ n % FragSpace = n
    BY <1>1, <1>5, SmallDivision
  <2>2. m = s
    BY <1>1, <1>3, <2>1, OrNothing
  <2>3. s % SeqSpace = s
    BY <1>1, SmallDivision
  <2> QED BY <1>3, <2>1, <2>2, <2>3 DEF SeqControl
<1> QED BY <1>3, <1>4, <1>5 DEF SeqControl

(* fragments and frames depend on the packet's size only *)
LEMMA SameSize ==
  ASSUME size' = size
  PROVE  /\ \A p : NeedFragmentation(p)' <=> NeedFragmentation(p)
         /\ \A p : GetNFragments(p)' = GetNFragments(p)
         /\ \A p : FragmentCount(p)' = FragmentCount(p)
         /\ \A p : TooLong(p)' <=> TooLong(p)
         /\ \A p, n : Piece(p, n)' = Piece(p, n)
         /\ \A p, s : NumbersOnAir(p, s)' = NumbersOnAir(p, s)
         /\ \A ps, p, n : Fragments(ps, p, n)' <=> Fragments(ps, p, n)
         /\ \A p, s, n, b : DataFrame(p, s, n, b)' = DataFrame(p, s, n, b)
<1>1. \A p : NeedFragmentation(p)' <=> NeedFragmentation(p)
  BY DEF NeedFragmentation
<1>2. \A p : GetNFragments(p)' = GetNFragments(p)
  BY DEF GetNFragments
<1>3. \A p : FragmentCount(p)' = FragmentCount(p)
  BY <1>1, <1>2 DEF FragmentCount
<1>4. \A p, n : Piece(p, n)' = Piece(p, n)
  BY <1>1, <1>2 DEF Piece, Whole, GetFragmentOffset, GetFragmentSize
<1>5. \A ps, p, n : Fragments(ps, p, n)' <=> Fragments(ps, p, n)
  BY <1>4 DEF Fragments
<1>6. \A p, s, n, b : DataFrame(p, s, n, b)' = DataFrame(p, s, n, b)
  BY <1>1, <1>2, <1>4 DEF DataFrame, IsLastFragment
<1>7. \A p, s : NumbersOnAir(p, s)' = NumbersOnAir(p, s)
  BY <1>3 DEF NumbersOnAir
<1>8. \A p : TooLong(p)' <=> TooLong(p)
  BY <1>3 DEF TooLong
<1> QED BY <1>1, <1>2, <1>3, <1>4, <1>5, <1>6, <1>7, <1>8

LEMMA FramePrimed ==
  ASSUME size' = size, NEW p, NEW s, s = seq', NEW n, n = frag', NEW b, b = retry'
  PROVE  DataFrame(p, seq, frag, retry)' = DataFrame(p, s, n, b)
BY DEF DataFrame, IsLastFragment, NeedFragmentation, GetNFragments, Piece, Whole,
       GetFragmentOffset, GetFragmentSize

LEMMA FrameFacts ==
  \A p, s, n, b : /\ DataFrame(p, s, n, b).kind = "data" /\ ~DataFrame(p, s, n, b).group
                  /\ DataFrame(p, s, n, b).piece = Piece(p, n)
                  /\ Piece(p, n).packet = p
<1>1. \A p, n : Piece(p, n).packet = p
  BY DEF Piece, Whole
<1> QED BY <1>1 DEF DataFrame

LEMMA GroupFacts ==
  /\ \A s : GroupFrame(s)' = GroupFrame(s)
  /\ \A s : GroupFrame(s).kind = "data" /\ GroupFrame(s).group
BY DEF GroupFrame, Whole, Group

(* every packet has at least one fragment *)
LEMMA Counts ==
  ASSUME TypeOK
  PROVE  \A p \in 1 .. Len(size) : /\ size[p] \in Nat
                                   /\ GetNFragments(p) \in Nat \ {0}
                                   /\ FragmentCount(p) \in Nat \ {0}
<1>1. Threshold \in Nat \ {0} /\ Sizes \subseteq Nat
  BY SizeAssumption
<1> SUFFICES ASSUME NEW p \in 1 .. Len(size)
             PROVE  size[p] \in Nat /\ GetNFragments(p) \in Nat \ {0} /\ FragmentCount(p) \in Nat \ {0}
  OBVIOUS
<1>2. size[p] \in Nat
  BY <1>1, Values, ElementOfSeq
<1>3. size[p] \div Threshold \in Nat
  BY <1>1, <1>2
<1>4. GetNFragments(p) \in Nat \ {0}
  BY <1>3 DEF GetNFragments
<1> QED BY <1>2, <1>4 DEF FragmentCount

-----------------------------------------------------------------------------
(* The invariant comes in two parts: one that always holds, and what the     *)
(* ends know of each other while no number has been reused.                  *)

LEMMA Assembled ==
  ASSUME TypeOK', FrameInv', TriesInv', reused' \/ KnownInv'
  PROVE  IInv'
BY DEF IInv

(* what the receiver knows stays true when the sender goes on or gives up *)
LEMMA ReceiverKept ==
  ASSUME TypeOK, KnownInv, UNCHANGED <<size, Receiver, seq>>, sent' \in Nat, sent <= sent',
         Now' \in {0, Now}
  PROVE  /\ FragmentInv' /\ DeliveredInv' /\ Delivered' = Delivered
         /\ Stuck' = Stuck /\ Exhausted' = Exhausted /\ (acked' = acked => AckedInv')
<1>1. FragmentInv /\ DeliveredInv /\ AckedInv
  BY DEF KnownInv
<1>2. UNCHANGED <<last, defragmenting, fragments, delivered>>
  BY DEF Receiver
<1>3. Delivered' = Delivered /\ Exhausted' = Exhausted /\ Numbers' = Numbers
  BY <1>2 DEF Delivered, Exhausted, Numbers
<1>4. Stuck' = Stuck
  BY <1>2, <1>3 DEF Stuck
<1>5. sent \in Nat /\ acked \subseteq Packets
  BY Values DEF TypeOK
<1>6. FragmentInv'
  BY <1>1, <1>2, <1>5, SameSize DEF FragmentInv
<1>7. DeliveredInv'
  BY <1>1, <1>2, <1>3, <1>5, SameSize DEF DeliveredInv
<1>8. ASSUME acked' = acked PROVE AckedInv'
  <2> SUFFICES ASSUME NEW p \in acked
               PROVE  /\ p <= sent' /\ (Now' # 0 => p < Now')
                      /\ \/ p \in Delivered'
                         \/ \E q \in 1 .. p : HalfReceived(q)' /\ (q = p => TooLong(p)')
    BY <1>8 DEF AckedInv
  <2>1. p \in Nat
    BY <1>5, Values DEF Packets
  <2>2. \A q : HalfReceived(q)' = HalfReceived(q)
    BY <1>2 DEF HalfReceived
  <2>3. p <= sent /\ (Now # 0 => p < Now)
    BY <1>1 DEF AckedInv
  <2>4. p \in Delivered \/ \E q \in 1 .. p : HalfReceived(q) /\ (q = p => TooLong(p))
    BY <1>1 DEF AckedInv
  <2> QED BY <2>1, <2>2, <2>3, <2>4, <1>3, <1>5, SameSize
<1> QED BY <1>3, <1>4, <1>6, <1>7, <1>8

(* what is on the air, by its kind *)
LEMMA AirFacts ==
  ASSUME IInv
  PROVE  /\ air.kind # "data" => Now = current /\ ~InAir
         /\ current # 0 => Now = current
         /\ InAir => /\ Now \in 1 .. sent /\ Now # 0 /\ current \in {0, Now}
                     /\ air = DataFrame(Now, seq, frag, retry)
                     /\ waiting = "ack" \/ current = 0
         /\ ~InAir => Now = current
<1>1. FrameInv /\ TypeOK
  BY DEF IInv
<1>2. air.kind # "data" => ~InAir
  BY DEF InAir
<1>3. ~InAir => Now = current
  BY DEF Now
<1>4. current # 0 => Now = current
  BY DEF Now
<1>5. ASSUME InAir
      PROVE  /\ Now \in 1 .. sent /\ Now # 0 /\ current \in {0, Now}
             /\ air = DataFrame(Now, seq, frag, retry)
  <2>1. PICK p \in 1 .. sent : air = DataFrame(p, seq, frag, retry) /\ current \in {0, p}
    BY <1>1, <1>5 DEF FrameInv
  <2>2. air.piece.packet = p
    BY <2>1, FrameFacts
  <2>3. Now = p
    BY <2>1, <2>2, <1>5 DEF Now
  <2>4. sent \in Nat
    BY <1>1, Values
  <2> QED BY <2>1, <2>3, <2>4
<1> QED BY <1>1, <1>2, <1>3, <1>4, <1>5 DEF FrameInv

-----------------------------------------------------------------------------
(* Steps of the channel and of the sender *)

(* the frame is lost, or an RTS answered *)
LEMMA SilenceKeeps ==
  ASSUME IInv, air # Silence, air' = Silence \/ (air.kind = "rts" /\ air' = Control("cts")),
         UNCHANGED <<Sender, waiting, Receiver, Bounds>>
  PROVE  IInv'
<1>1. TypeOK /\ FrameInv /\ TriesInv
  BY DEF IInv
<1>2. UNCHANGED <<size, sent, current, seq, retry, frag, ssrc, slrc, sequence, acked, failed,
                  dropped, reused, tries, rtsTries, last, defragmenting, fragments, delivered,
                  beacons, broadcasts, switches, waiting>>
  BY DEF Sender, Receiver, Bounds, Header, Fates, Tries
<1>3. /\ air' = Silence \/ air' = Control("cts")
      /\ air'.kind \in {"none", "cts"} /\ (air'.kind = "cts" => air.kind = "rts")
      /\ (air'.kind = "none" <=> air' = Silence)
  BY DEF Silence, Control
<1>4. Now' = current /\ ~InAir'
  BY <1>2, <1>3 DEF Now, InAir
<1>5. Now' \in {0, Now} /\ (Now' # 0 => Now' = Now)
  BY <1>4, AirFacts
<1>6. TypeOK'
  BY <1>1, <1>2, <1>3 DEF TypeOK, Packets, Pieces
<1>7. sent' \in Nat /\ sent <= sent'
  BY <1>1, <1>2, Values
<1>8. FrameInv'
  <2>1. waiting # "sifs"
    BY <1>1 DEF FrameInv
  <2>2. Now' # 0 => frag' < FragmentCount(Now)'
    BY <1>1, <1>2, <1>5, SameSize DEF FrameInv
  <2> QED BY <2>1, <2>2, <1>1, <1>2, <1>3, <1>4 DEF FrameInv
<1>9. TriesInv'
  BY <1>1, <1>2 DEF TriesInv
<1>10. ASSUME ~reused PROVE KnownInv'
  <2>1. KnownInv /\ ProgressInv
    BY <1>10 DEF IInv, KnownInv
  <2>2. /\ FragmentInv' /\ DeliveredInv' /\ Delivered' = Delivered
        /\ Stuck' = Stuck /\ Exhausted' = Exhausted /\ AckedInv'
    BY <2>1, <1>1, <1>2, <1>5, <1>7, ReceiverKept
  <2>3. ProgressInv'
    BY <2>1, <2>2, <1>2, <1>3, <1>5, SameSize DEF ProgressInv, Recorded
  <2> QED BY <2>2, <2>3 DEF KnownInv
<1> QED BY <1>2, <1>6, <1>8, <1>9, <1>10, Assembled

(* a frame that the sender puts on the air *)
LEMMA SendsFrame ==
  ASSUME size' = size, NEW p, NEW q, p \in 1 .. q, q = sent', current' = p,
         air' = DataFrame(p, seq', frag', retry')
  PROVE  /\ air'.kind = "data" /\ InAir' /\ Now' = p /\ air' # Silence
         /\ \E r \in 1 .. sent' : air' = DataFrame(r, seq, frag, retry)' /\ current' \in {0, r}
<1>1. PICK n : n = frag'
  OBVIOUS
<1>2. PICK t : t = seq'
  OBVIOUS
<1>3. PICK b : b = retry'
  OBVIOUS
<1>4. air' = DataFrame(p, t, n, b)
  BY <1>1, <1>2, <1>3
<1>5. air'.kind = "data" /\ InAir' /\ air' # Silence
  BY <1>4, FrameFacts DEF InAir, Silence
<1>6. air' = DataFrame(p, seq, frag, retry)'
  BY <1>1, <1>2, <1>3, <1>4, FramePrimed
<1>7. Now' = p
  BY <1>4, <1>5, FrameFacts DEF Now
<1> QED BY <1>5, <1>6, <1>7

LEMMA GotCtsKeeps ==
  ASSUME IInv, GotCts
  PROVE  IInv'
<1>1. TypeOK /\ FrameInv /\ TriesInv
  BY DEF IInv
<1>2. /\ air.kind = "cts" /\ waiting = "cts" /\ waiting' = "ack"
      /\ ssrc' = 0 /\ rtsTries' = 0 /\ tries' = Another(tries, MaxSlrc)
      /\ air' = DataFrame(current, seq, frag, retry)
      /\ UNCHANGED <<size, sent, current, seq, retry, frag, slrc, sequence, last, defragmenting,
                     fragments, delivered, beacons, broadcasts, switches, acked, failed, dropped,
                     reused>>
  BY DEF GotCts, Receiver, Bounds, Header, Fates
<1>3. current # 0 /\ Now = current /\ current \in 1 .. sent
  BY <1>1, <1>2, AirFacts, Values DEF FrameInv
<1>4. PICK p, q : p = current /\ q = sent
  OBVIOUS
<1>5. /\ air'.kind = "data" /\ InAir' /\ Now' = current
      /\ \E r \in 1 .. sent' : air' = DataFrame(r, seq, frag, retry)' /\ current' \in {0, r}
  BY <1>2, <1>3, <1>4, SendsFrame
<1>6. TypeOK'
  BY <1>1, <1>2, <1>5, LimitAssumption DEF TypeOK, Packets, Pieces, Another
<1>7. FrameInv'
  <2>1. Now' # 0 => frag' < FragmentCount(Now)'
    BY <1>1, <1>2, <1>3, <1>5, SameSize DEF FrameInv
  <2> QED BY <2>1, <1>2, <1>3, <1>5 DEF FrameInv
<1>8. TriesInv'
  BY <1>1, <1>2, <1>3, LimitAssumption DEF TriesInv, Another, TypeOK
<1>9. ASSUME ~reused PROVE KnownInv'
  <2>1. KnownInv /\ ProgressInv
    BY <1>9 DEF IInv, KnownInv
  <2>2. /\ FragmentInv' /\ DeliveredInv' /\ Delivered' = Delivered
        /\ Stuck' = Stuck /\ Exhausted' = Exhausted /\ AckedInv'
    BY <2>1, <1>1, <1>2, <1>3, <1>5, Values, ReceiverKept DEF Receiver
  <2>3. ProgressInv'
    BY <2>1, <2>2, <1>2, <1>3, <1>5, SameSize DEF ProgressInv, Recorded
  <2> QED BY <2>2, <2>3 DEF KnownInv
<1> QED BY <1>2, <1>6, <1>7, <1>8, <1>9, Assembled

LEMMA QuietTries ==
  ASSUME waiting' = "none", tries' <= slrc', rtsTries' <= ssrc', slrc' < MaxSlrc, ssrc' < MaxSsrc,
         tries' \in Nat, rtsTries' \in Nat, slrc' \in Nat, ssrc' \in Nat
  PROVE  TriesInv'
<1>1. tries' <= MaxSlrc /\ rtsTries' <= MaxSsrc
  BY LimitAssumption
<1>2. waiting' # "ack" /\ waiting' # "cts" /\ waiting' # "sifs"
  OBVIOUS
<1>3. (IF waiting' = "ack" THEN 1 ELSE 0) = 0 /\ (IF waiting' = "cts" THEN 1 ELSE 0) = 0
  BY <1>2
<1>4. \A n, m \in Nat : n <= m => n <= m + 0
  OBVIOUS
<1>5. tries' <= slrc' + 0 /\ rtsTries' <= ssrc' + 0
  BY <1>4
<1> QED BY <1>1, <1>2, <1>3, <1>5 DEF TriesInv

(* a transmission that is not answered, and repeated or given up *)
LEMMA MissedKeeps ==
  ASSUME IInv, waiting \in {"cts", "ack"}, air = Silence, waiting' = "none",
         UNCHANGED <<size, sent, seq, frag, sequence, air, Receiver, Bounds, acked, dropped,
                     reused>>,
         ssrc' \in 0 .. MaxSsrc - 1, slrc' \in 0 .. MaxSlrc - 1, retry' \in BOOLEAN,
         \/ /\ current' = current /\ failed' = failed /\ UNCHANGED Tries
            /\ tries <= slrc' /\ rtsTries <= ssrc'
         \/ current' = 0 /\ failed' = failed \cup {current} /\ NoTries,
         current' # 0 => IF waiting = "ack" THEN retry' ELSE retry' = retry
  PROVE  IInv'
<1>1. TypeOK /\ FrameInv /\ TriesInv
  BY DEF IInv
<1>2. UNCHANGED <<last, defragmenting, fragments, delivered, beacons, broadcasts, switches>>
  BY DEF Receiver, Bounds
<1>3. /\ current # 0 /\ Now = current /\ current \in 1 .. sent /\ current \in Packets
      /\ ~InAir' /\ air.kind = "none" /\ air' = air
  BY <1>1, AirFacts, Values DEF FrameInv, Packets, InAir, Silence
<1>4. Now' = current' /\ current' \in {0, current}
  BY <1>3 DEF Now
<1>5. /\ tries' \in Nat /\ rtsTries' \in Nat /\ tries' <= slrc' /\ rtsTries' <= ssrc'
      /\ ssrc' \in Nat /\ slrc' \in Nat /\ slrc' < MaxSlrc /\ ssrc' < MaxSsrc
  BY <1>1, LimitAssumption DEF TypeOK, Tries, NoTries
<1>6. TypeOK'
  <2>1. Packets' = Packets /\ Pieces' = Pieces
    BY DEF Packets, Pieces
  <2>2. current' \in 0 .. sent' /\ failed' \subseteq Packets'
    <3>1. sent \in Nat
      BY <1>1, Values
    <3>2. current' \in 0 .. sent'
      BY <3>1, <1>3, <1>4
    <3>3. failed \subseteq Packets
      BY <1>1 DEF TypeOK
    <3>4. failed' \subseteq Packets'
      BY <3>3, <2>1, <1>3
    <3> QED BY <3>2, <3>4
  <2>3. /\ UNCHANGED <<size, sent, seq, frag, sequence, air, acked, dropped, reused>>
        /\ waiting' = "none" /\ slrc' \in 0 .. MaxSlrc - 1 /\ ssrc' \in 0 .. MaxSsrc - 1
        /\ retry' \in BOOLEAN
    OBVIOUS
  <2> QED BY <2>1, <2>2, <2>3, <1>1, <1>2, <1>5 DEF TypeOK
<1>7. FrameInv'
  <2>1. Now' # 0 => frag' < FragmentCount(Now)'
    BY <1>1, <1>3, <1>4, SameSize DEF FrameInv
  <2> QED BY <2>1, <1>3 DEF FrameInv
<1>8. TriesInv'
  <2>1. waiting' = "none"
    OBVIOUS
  <2> QED BY <2>1, <1>5, QuietTries
<1>9. ASSUME ~reused PROVE KnownInv'
  <2>1. KnownInv /\ ProgressInv
    BY <1>9 DEF IInv, KnownInv
  <2>2. sent \in Nat /\ acked' = acked /\ UNCHANGED <<size, Receiver, seq, sent, frag>>
    BY <1>1, Values
  <2>3. /\ FragmentInv' /\ DeliveredInv' /\ Delivered' = Delivered
        /\ Stuck' = Stuck /\ Exhausted' = Exhausted /\ AckedInv'
    BY <2>1, <2>2, <1>1, <1>3, <1>4, ReceiverKept
  <2>4. ProgressInv'
    <3> SUFFICES ASSUME Now' # 0 PROVE ProgressInv'
      BY DEF ProgressInv
    <3>1. Now' = Now /\ Now # 0 /\ Recorded' = Recorded
      BY <1>2, <1>3, <1>4, <2>2 DEF Recorded
    <3>2. Recorded => retry' \/ Exhausted
      BY <3>1, <2>1, <1>3, <1>4 DEF ProgressInv
    <3>3. waiting' = "none"
      OBVIOUS
    <3> QED BY <3>1, <3>2, <3>3, <2>1, <2>2, <2>3, <1>2, SameSize DEF ProgressInv
  <2> QED BY <2>3, <2>4 DEF KnownInv
<1>10. reused' = reused
  OBVIOUS
<1> QED BY <1>6, <1>7, <1>8, <1>9, <1>10, Assembled

LEMMA MissedCtsKeeps ==
  ASSUME IInv, MissedCts
  PROVE  IInv'
<1>1. TypeOK /\ TriesInv
  BY DEF IInv
<1>2. /\ MaxSsrc \in Nat \ {0} /\ ssrc \in 0 .. MaxSsrc - 1 /\ slrc \in 0 .. MaxSlrc - 1
      /\ retry \in BOOLEAN /\ tries \in Nat /\ rtsTries \in Nat
      /\ waiting = "cts" /\ tries <= slrc /\ rtsTries <= ssrc + 1
  BY <1>1, LimitAssumption DEF TypeOK, TriesInv, MissedCts
<1>3. /\ waiting \in {"cts", "ack"} /\ air = Silence /\ waiting' = "none"
      /\ UNCHANGED <<size, sent, seq, frag, sequence, air, Receiver, Bounds, acked, dropped,
                     reused>>
      /\ slrc' = slrc /\ retry' = retry
  BY DEF MissedCts, Header
<1>4. /\ ssrc' \in 0 .. MaxSsrc - 1
      /\ \/ /\ current' = current /\ failed' = failed /\ UNCHANGED Tries
            /\ tries <= slrc' /\ rtsTries <= ssrc'
         \/ current' = 0 /\ failed' = failed \cup {current} /\ NoTries
  BY <1>2, <1>3 DEF MissedCts, NeedRtsRetransmission
<1> QED BY <1>2, <1>3, <1>4, MissedKeeps

LEMMA MissedAckKeeps ==
  ASSUME IInv, MissedAck
  PROVE  IInv'
<1>1. TypeOK /\ TriesInv
  BY DEF IInv
<1>2. /\ MaxSlrc \in Nat \ {0} /\ ssrc \in 0 .. MaxSsrc - 1 /\ slrc \in 0 .. MaxSlrc - 1
      /\ retry \in BOOLEAN /\ tries \in Nat /\ rtsTries \in Nat
      /\ waiting = "ack" /\ tries <= slrc + 1 /\ rtsTries = 0
  BY <1>1, LimitAssumption DEF TypeOK, TriesInv, MissedAck
<1>3. /\ waiting \in {"cts", "ack"} /\ air = Silence /\ waiting' = "none"
      /\ UNCHANGED <<size, sent, seq, frag, sequence, air, Receiver, Bounds, acked, dropped,
                     reused>>
      /\ ssrc' = ssrc /\ retry' \in {retry, TRUE}
  BY DEF MissedAck
<1>4. slrc' \in 0 .. MaxSlrc - 1
  BY <1>2 DEF MissedAck, NeedDataRetransmission
<1>5. CASE NeedDataRetransmission(slrc + 1)
  <2>1. slrc' = slrc + 1 /\ retry' = TRUE /\ UNCHANGED <<current, failed, Tries>>
    BY <1>5 DEF MissedAck
  <2>2. tries <= slrc' /\ rtsTries <= ssrc'
    BY <2>1, <1>2, <1>3
  <2>3. retry' \in BOOLEAN
    BY <2>1
  <2> QED BY <2>1, <2>2, <2>3, <1>2, <1>3, <1>4, MissedKeeps
<1>6. CASE ~NeedDataRetransmission(slrc + 1)
  <2>1. current' = 0 /\ failed' = failed \cup {current} /\ NoTries /\ retry' = retry
    BY <1>6 DEF MissedAck
  <2>2. retry' \in BOOLEAN /\ ssrc' \in 0 .. MaxSsrc - 1
    BY <2>1, <1>2, <1>3
  <2> QED BY <2>1, <2>2, <1>3, <1>4, MissedKeeps
<1> QED BY <1>5, <1>6

LEMMA SwitchChannelKeeps ==
  ASSUME IInv, SwitchChannel
  PROVE  IInv'
<1>1. TypeOK /\ FrameInv /\ TriesInv
  BY DEF IInv
<1>2. /\ switches < MaxSwitches /\ switches' = switches + 1 /\ waiting' = "none"
      /\ ssrc' = 0 /\ slrc' = 0 /\ current' = 0 /\ sent' = Len(size)
      /\ dropped' = dropped \cup (sent + 1 .. Len(size)) \cup ({current} \ {0})
      /\ tries' = 0 /\ rtsTries' = 0
      /\ UNCHANGED <<size, seq, retry, frag, sequence, air, last, defragmenting,
                     fragments, delivered, beacons, broadcasts, acked, failed, reused>>
  BY DEF SwitchChannel, Receiver, Header, NoTries
<1>3. sent \in Nat /\ sent' \in Nat /\ sent <= sent' /\ sent' <= Len(size) /\ Len(size) \in Nat
      /\ current \in Nat /\ current <= sent
  BY <1>1, <1>2, Values
<1>4. (InAir' <=> InAir) /\ (InAir => Now' = Now) /\ (~InAir => Now' = 0)
  <2>1. InAir' <=> InAir
    BY <1>2 DEF InAir
  <2>2. InAir => Now = air.piece.packet
    BY AirFacts, FrameFacts
  <2> QED BY <2>1, <2>2, <1>2 DEF Now
<1>5. TypeOK'
  <2>1. Packets' = Packets /\ Pieces' = Pieces
    BY <1>2 DEF Packets, Pieces
  <2>2. dropped' \subseteq Packets'
    <3>1. sent + 1 .. Len(size) \subseteq Packets /\ {current} \ {0} \subseteq Packets
      BY <1>3 DEF Packets
    <3>2. dropped \subseteq Packets
      BY <1>1 DEF TypeOK
    <3> QED BY <3>1, <3>2, <2>1, <1>2
  <2>3. /\ sent' \in 0 .. Len(size') /\ current' \in 0 .. sent' /\ switches' \in 0 .. MaxSwitches
        /\ ssrc' \in 0 .. MaxSsrc - 1 /\ slrc' \in 0 .. MaxSlrc - 1
    BY <1>1, <1>2, <1>3, LimitAssumption DEF TypeOK
  <2> QED BY <2>1, <2>2, <2>3, <1>1, <1>2 DEF TypeOK
<1>6. FrameInv'
  <2>1. Now' # 0 => frag' < FragmentCount(Now)'
    BY <1>1, <1>2, <1>4, SameSize DEF FrameInv
  <2>2. ASSUME InAir'
        PROVE  \E r \in 1 .. sent' : air' = DataFrame(r, seq, frag, retry)' /\ current' \in {0, r}
    <3>1. PICK p \in 1 .. sent : air = DataFrame(p, seq, frag, retry)
      BY <2>2, <1>1, <1>4 DEF FrameInv
    <3>2. p \in 1 .. sent'
      BY <1>3
    <3>3. air' = DataFrame(p, seq, frag, retry)'
      BY <3>1, <1>2, SameSize
    <3> QED BY <3>2, <3>3, <1>2
  <2>3. air'.kind = "data" => InAir' \/ \E s \in 0 .. SeqSpace - 1 : air' = GroupFrame(s)'
    BY <1>1, <1>2, <1>4, GroupFacts DEF FrameInv
  <2> QED BY <2>1, <2>2, <2>3, <1>2 DEF FrameInv
<1>7. TriesInv'
  BY <1>2, LimitAssumption DEF TriesInv
<1>8. ASSUME ~reused PROVE KnownInv'
  <2>1. KnownInv /\ ProgressInv
    BY <1>8 DEF IInv, KnownInv
  <2>2. /\ FragmentInv' /\ DeliveredInv' /\ Delivered' = Delivered
        /\ Stuck' = Stuck /\ Exhausted' = Exhausted /\ AckedInv'
    BY <2>1, <1>1, <1>2, <1>3, <1>4, ReceiverKept DEF Receiver
  <2>3. ProgressInv'
    <3> SUFFICES ASSUME Now' # 0 PROVE ProgressInv'
      BY DEF ProgressInv
    <3>1. InAir /\ Now' = Now /\ Now # 0 /\ air.kind = "data"
      BY <1>4 DEF InAir
    <3>2. Recorded' = Recorded
      BY <1>2 DEF Recorded
    <3>3. waiting = "ack" \/ waiting = "none"
      BY <3>1, <1>1, AirFacts DEF FrameInv, TypeOK
    <3> QED BY <3>1, <3>2, <3>3, <2>1, <2>2, <1>2, SameSize DEF ProgressInv
  <2> QED BY <2>2, <2>3 DEF KnownInv
<1> QED BY <1>2, <1>5, <1>6, <1>7, <1>8, Assembled

(* a packet whose last fragment is recorded is no longer being received *)
LEMMA LastRecorded ==
  ASSUME TypeOK, FragmentInv, Now # 0, Recorded, defragmenting
  PROVE  frag + 1 < FragmentCount(Now)
<1>1. PICK q \in 1 .. sent : /\ NeedFragmentation(q) /\ last.frag + 1 < GetNFragments(q)
                             /\ IF last.seq = seq THEN q = Now ELSE q < Now
  BY DEF FragmentInv
<1>2. q = Now /\ last.frag = frag
  BY <1>1 DEF Recorded
<1> QED BY <1>1, <1>2 DEF FragmentCount

(* a receiver that takes no more holds fragments of an earlier packet, or of *)
(* this one and its fragments are too many                                   *)
LEMMA StuckBehind ==
  ASSUME TypeOK, FragmentInv, Now # 0, Now \in 1 .. sent, Stuck
  PROVE  \E q \in 1 .. Now : HalfReceived(q) /\ (q = Now => TooLong(q))
<1>1. defragmenting
  BY DEF Stuck, Exhausted
<1>2. PICK q \in 1 .. sent : /\ NeedFragmentation(q) /\ last.frag + 1 < GetNFragments(q)
                             /\ Fragments(fragments, q, last.frag + 1)
                             /\ IF last.seq = seq THEN q = Now ELSE q < Now
  BY <1>1 DEF FragmentInv
<1>3. last.frag \in Nat /\ sent \in Nat
  BY Values
<1>4. fragments[1] = Piece(q, 1 - 1)
  BY <1>2, <1>3 DEF Fragments
<1>5. HalfReceived(q)
  BY <1>1, <1>4, FrameFacts DEF HalfReceived
<1>6. ASSUME q = Now PROVE TooLong(q)
  <2>1. last.seq = seq
    BY <1>2, <1>3, <1>6
  <2>2. last.frag + 1 = FragSpace
    BY <2>1 DEF Stuck, Exhausted
  <2>3. FragmentCount(q) = GetNFragments(q)
    BY <1>2 DEF FragmentCount
  <2>4. q \in 1 .. Len(size)
    BY Values
  <2>5. GetNFragments(q) \in Nat /\ FragSpace \in Nat
    BY <2>4, Counts, Values
  <2> QED BY <1>2, <2>2, <2>3, <2>5 DEF TooLong
<1>7. q \in 1 .. Now
  BY <1>2, <1>3
<1> QED BY <1>5, <1>6, <1>7

LEMMA GotAckKeeps ==
  ASSUME IInv, GotAck
  PROVE  IInv'
<1>1. TypeOK /\ FrameInv /\ TriesInv
  BY DEF IInv
<1>2. /\ air.kind = "ack" /\ waiting = "ack" /\ air' = Silence /\ slrc' = 0
      /\ tries' = 0 /\ rtsTries' = 0
      /\ UNCHANGED <<size, sent, seq, retry, frag, ssrc, sequence, last, defragmenting, fragments,
                     delivered, beacons, broadcasts, switches, failed, dropped, reused>>
  BY DEF GotAck, Receiver, Bounds, Header, NoTries
<1>3. \/ /\ ~NeedFragmentation(current) \/ IsLastFragment(current, frag)
         /\ acked' = acked \cup {current} /\ current' = 0 /\ waiting' = "none"
      \/ /\ NeedFragmentation(current) /\ ~IsLastFragment(current, frag)
         /\ waiting' = "sifs" /\ acked' = acked /\ current' = current
  BY DEF GotAck
<1>4. current # 0 /\ Now = current /\ ~InAir /\ ~InAir' /\ air'.kind = "none"
  BY <1>1, <1>2, AirFacts DEF FrameInv, InAir, Silence
<1>5. Now' = current' /\ current' \in {0, current}
  BY <1>3, <1>4 DEF Now
<1>6. sent \in Nat /\ Len(size) \in Nat /\ sent <= Len(size) /\ frag \in Nat
      /\ current \in 1 .. sent /\ current \in Packets
  <2>1. sent \in Nat /\ Len(size) \in Nat /\ sent <= Len(size) /\ frag \in Nat
        /\ current \in Nat /\ current <= sent
    BY <1>1, Values
  <2> QED BY <2>1, <1>4 DEF Packets
<1>7. frag < FragmentCount(current) /\ GetNFragments(current) \in Nat \ {0}
  BY <1>1, <1>4, <1>6, Counts DEF FrameInv, Packets
<1>8. waiting' = "sifs" => frag + 1 < FragmentCount(current)
  BY <1>3, <1>6, <1>7 DEF IsLastFragment, FragmentCount
<1>9. waiting' = "none" => frag + 1 = FragmentCount(current)
  BY <1>3, <1>6, <1>7 DEF IsLastFragment, FragmentCount
<1>10. TypeOK'
  <2>1. Packets' = Packets /\ Pieces' = Pieces
    BY <1>2 DEF Packets, Pieces
  <2>2. current' \in 0 .. sent'
    BY <1>2, <1>5, <1>6
  <2>3. acked \subseteq Packets
    BY <1>1 DEF TypeOK
  <2>4. acked' \subseteq Packets'
    BY <2>1, <2>3, <1>3, <1>6
  <2>5. slrc' \in 0 .. MaxSlrc - 1
    BY <1>2, LimitAssumption
  <2>6. waiting' \in {"none", "cts", "ack", "sifs"}
    BY <1>3
  <2> QED BY <2>1, <2>2, <2>4, <2>5, <2>6, <1>1, <1>2, <1>4 DEF TypeOK
<1>11. FrameInv'
  <2>1. Now' # 0 => frag' < FragmentCount(Now)'
    BY <1>2, <1>5, <1>7, SameSize
  <2>2. waiting' = "sifs" => frag' + 1 < FragmentCount(current)'
    BY <1>2, <1>3, <1>8, SameSize
  <2>3. waiting' \in {"none", "sifs"} /\ (waiting' # "none" => current' # 0)
    BY <1>3, <1>4
  <2> QED BY <2>1, <2>2, <2>3, <1>2, <1>4 DEF FrameInv
<1>12. TriesInv'
  BY <1>1, <1>2, <1>3, LimitAssumption DEF TriesInv, TypeOK
<1>13. ASSUME ~reused PROVE KnownInv'
  <2>1. KnownInv /\ FragmentInv /\ ProgressInv /\ AckedInv
    BY <1>13 DEF IInv, KnownInv
  <2>2. /\ FragmentInv' /\ DeliveredInv' /\ Delivered' = Delivered
        /\ Stuck' = Stuck /\ Exhausted' = Exhausted /\ (acked' = acked => AckedInv')
    BY <2>1, <1>1, <1>2, <1>4, <1>5, <1>6, ReceiverKept DEF Receiver
  <2>3. Recorded \/ Stuck
    BY <2>1, <1>2, <1>4 DEF ProgressInv
  <2>4. ProgressInv'
    <3>1. Recorded' = Recorded
      BY <1>2 DEF Recorded
    <3>2. Now' # 0 => waiting' = "sifs" /\ Now' = Now /\ Now # 0
      BY <1>3, <1>4, <1>5
    <3> QED BY <3>1, <3>2, <2>1, <2>2, <2>3, <1>2, <1>4, SameSize DEF ProgressInv
  <2>5. AckedInv'
    <3>1. CASE acked' = acked
      BY <3>1, <2>2
    <3>2. CASE acked' # acked
      <4>1. acked' = acked \cup {current} /\ waiting' = "none" /\ Now' = 0
        BY <3>2, <1>3, <1>5
      <4>2. \/ current \in Delivered
            \/ \E q \in 1 .. current : HalfReceived(q) /\ (q = current => TooLong(current))
        <5>1. CASE Stuck
          BY <5>1, <2>1, <1>1, <1>4, <1>6, StuckBehind
        <5>2. CASE Recorded
          <6>1. frag + 1 = FragmentCount(Now)
            BY <4>1, <1>4, <1>9
          <6>2. ~defragmenting
            BY <6>1, <5>2, <2>1, <1>1, <1>4, <1>6, <1>7, LastRecorded
          <6> QED BY <6>2, <5>2, <2>1, <1>4 DEF ProgressInv
        <5> QED BY <5>1, <5>2, <2>3
      <4>3. \A q : HalfReceived(q)' = HalfReceived(q)
        BY <1>2 DEF HalfReceived
      <4>4. current <= sent'
        BY <1>2, <1>6
      <4>5. ASSUME NEW p \in acked'
            PROVE  /\ p <= sent'
                   /\ \/ p \in Delivered
                      \/ \E q \in 1 .. p : HalfReceived(q) /\ (q = p => TooLong(p))
        BY <4>1, <4>2, <4>4, <4>5, <2>1, <1>2 DEF AckedInv
      <4> QED BY <4>1, <4>3, <4>5, <2>2, <1>2, SameSize DEF AckedInv
    <3> QED BY <3>1, <3>2
  <2> QED BY <2>2, <2>4, <2>5 DEF KnownInv
<1> QED BY <1>2, <1>10, <1>11, <1>12, <1>13, Assembled

(* m_fragmentNumber counts on, or wraps *)
LEMMA NextFragmentFacts ==
  ASSUME TypeOK
  PROVE  /\ NextFragment \in Nat /\ NextFragment < 16 * FragSpace /\ NextFragment <= frag + 1
         /\ frag + 1 < 16 * FragSpace => NextFragment = frag + 1
         /\ frag < FragSpace => NextFragment = frag + 1
<1>1. frag \in Nat /\ frag < 16 * FragSpace /\ FragSpace \in Nat \ {0}
  BY Values
<1>2. PICK m \in Nat \ {0} : m = 16 * FragSpace
  BY <1>1
<1>3. \A n \in Nat : n < m => /\ (n + 1) % m \in Nat /\ (n + 1) % m < m /\ (n + 1) % m <= n + 1
                              /\ n + 1 < m => (n + 1) % m = n + 1
  OBVIOUS
<1>4. frag < FragSpace => frag + 1 < m
  BY <1>1, <1>2
<1> QED BY <1>1, <1>2, <1>3, <1>4 DEF NextFragment

LEMMA StartNextKeeps ==
  ASSUME IInv, StartNext
  PROVE  IInv'
<1>1. TypeOK /\ FrameInv /\ TriesInv
  BY DEF IInv
<1>2. /\ air = Silence /\ waiting = "sifs" /\ waiting' = "ack"
      /\ frag' = NextFragment /\ tries' = Another(tries, MaxSlrc) /\ rtsTries' = rtsTries
      /\ air' = DataFrame(current, seq, NextFragment, retry)
      /\ UNCHANGED <<size, sent, current, seq, retry, ssrc, slrc, sequence, last, defragmenting,
                     fragments, delivered, beacons, broadcasts, switches, acked, failed, dropped,
                     reused>>
  BY DEF StartNext, Receiver, Bounds, Fates
<1>3. current # 0 /\ Now = current /\ air.kind = "none"
  BY <1>1, <1>2, AirFacts DEF FrameInv, Silence
<1>4. sent \in Nat /\ frag \in Nat /\ current \in 1 .. sent /\ last.frag \in Nat
      /\ last.frag < FragSpace /\ FragSpace \in Nat \ {0}
  <2>1. sent \in Nat /\ frag \in Nat /\ current \in Nat /\ current <= sent /\ last.frag \in Nat
        /\ last.frag < FragSpace /\ FragSpace \in Nat \ {0}
    BY <1>1, Values
  <2> QED BY <2>1, <1>3
<1>5. PICK p, q : p = current /\ q = sent
  OBVIOUS
<1>6. /\ air'.kind = "data" /\ InAir' /\ Now' = current
      /\ \E r \in 1 .. sent' : air' = DataFrame(r, seq, frag, retry)' /\ current' \in {0, r}
  BY <1>2, <1>4, <1>5, SendsFrame
<1>7. frag + 1 < FragmentCount(current)
  BY <1>1, <1>2 DEF FrameInv
<1>8. /\ frag' \in Nat /\ frag' < 16 * FragSpace /\ frag' <= frag + 1
      /\ frag < FragSpace => frag' = frag + 1
  BY <1>1, <1>2, NextFragmentFacts
<1>9. TypeOK'
  <2>1. Packets' = Packets /\ Pieces' = Pieces
    BY <1>2 DEF Packets, Pieces
  <2>2. frag' \in 0 .. 16 * FragSpace - 1
    BY <1>4, <1>8
  <2>3. tries' \in Nat /\ rtsTries' \in Nat
    BY <1>1, <1>2 DEF TypeOK, Another
  <2> QED BY <2>1, <2>2, <2>3, <1>1, <1>2, <1>6 DEF TypeOK
<1>10. FrameInv'
  <2>1. Now' # 0 => frag' < FragmentCount(Now)'
    <3>1. current \in 1 .. Len(size)
      BY <1>1, <1>4, Values
    <3>2. PICK c \in Nat : c = FragmentCount(current)
      BY <3>1, <1>1, Counts
    <3>3. frag' < c
      BY <3>2, <1>4, <1>7, <1>8
    <3> QED BY <3>2, <3>3, <1>2, <1>6, SameSize
  <2> QED BY <2>1, <1>2, <1>3, <1>6 DEF FrameInv
<1>11. TriesInv'
  BY <1>1, <1>2, LimitAssumption DEF TriesInv, TypeOK, Another
<1>12. ASSUME ~reused PROVE KnownInv'
  <2>1. KnownInv /\ ProgressInv
    BY <1>12 DEF IInv, KnownInv
  <2>2. Recorded \/ Stuck
    BY <2>1, <1>2, <1>3 DEF ProgressInv
  <2>3. Recorded => defragmenting
    BY <2>1, <1>3, <1>4, <1>7 DEF ProgressInv
  <2>4. Now \notin Delivered
    BY <2>1, <1>3, <1>4, <1>7 DEF ProgressInv
  <2>5. /\ FragmentInv' /\ DeliveredInv' /\ Delivered' = Delivered
        /\ Stuck' = Stuck /\ Exhausted' = Exhausted /\ AckedInv'
    BY <2>1, <1>1, <1>2, <1>3, <1>4, <1>6, ReceiverKept DEF Receiver
  <2>6. ProgressInv'
    <3>1. Recorded => last.frag + 1 = frag' /\ defragmenting /\ last.frag # frag'
      BY <2>3, <1>4, <1>8 DEF Recorded
    <3>2. defragmenting
      BY <2>2, <3>1 DEF Stuck, Exhausted
    <3>3. last.seq = seq => (last.frag + 1 = frag' /\ last.frag # frag') \/ Exhausted
      BY <2>2, <3>1 DEF Stuck
    <3>4. last.seq # seq => last.seq \notin NumbersOnAir(Now, seq)
      BY <2>1, <1>3 DEF ProgressInv
    <3>5. Recorded' => Exhausted
      BY <3>3, <1>2 DEF Recorded
    <3> QED BY <3>2, <3>3, <3>4, <3>5, <2>4, <2>5, <1>2, <1>3, <1>6, SameSize DEF ProgressInv
  <2> QED BY <2>5, <2>6 DEF KnownInv
<1> QED BY <1>2, <1>9, <1>10, <1>11, <1>12, Assembled

(* an RTS or a frame that the sender puts on the air *)
LEMMA Starts ==
  ASSUME size' = size, NEW p, NEW q, p \in 1 .. q, q = sent', current' = p,
         NEW s, s = seq', NEW n, n = frag', NEW b, b = retry',
         StartTransmission(p, s, n, b)
  PROVE  /\ waiting' \in {"cts", "ack"} /\ Now' = p /\ air' # Silence
         /\ waiting' = "cts" => air'.kind = "rts" /\ ~InAir'
         /\ waiting' = "ack" =>
               /\ air'.kind = "data" /\ InAir'
               /\ \E r \in 1 .. sent' : air' = DataFrame(r, seq, frag, retry)' /\ current' \in {0, r}
<1>1. CASE air' = Control("rts") /\ waiting' = "cts"
  <2>1. air'.kind = "rts" /\ ~InAir' /\ air' # Silence
    BY <1>1 DEF Control, InAir, Silence
  <2>2. Now' = p
    BY <2>1 DEF Now
  <2> QED BY <1>1, <2>1, <2>2
<1>2. CASE air' = DataFrame(p, s, n, b) /\ waiting' = "ack"
  <2>1. air' = DataFrame(p, seq', frag', retry')
    BY <1>2
  <2>2. /\ air'.kind = "data" /\ InAir' /\ Now' = p /\ air' # Silence
        /\ \E r \in 1 .. sent' : air' = DataFrame(r, seq, frag, retry)' /\ current' \in {0, r}
    BY <2>1, SendsFrame
  <2> QED BY <1>2, <2>2
<1> QED BY <1>1, <1>2 DEF StartTransmission

(* what starting counts: one try more, while the counters of the peer stay *)
LEMMA StartTries ==
  ASSUME TypeOK, TriesInv, waiting = "none", ssrc' = ssrc, slrc' = slrc,
         NEW p, NEW s, NEW n, NEW b, StartTransmission(p, s, n, b)
  PROVE  TriesInv' /\ tries' \in Nat /\ rtsTries' \in Nat
<1>1. /\ tries \in Nat /\ rtsTries \in Nat /\ ssrc \in 0 .. MaxSsrc - 1 /\ slrc \in 0 .. MaxSlrc - 1
      /\ MaxSsrc \in Nat /\ MaxSlrc \in Nat /\ tries <= slrc /\ rtsTries <= ssrc
  BY LimitAssumption DEF TypeOK, TriesInv
<1>2. CASE NeedRts(p, n)
  <2>1. rtsTries' = rtsTries + 1 /\ tries' = tries /\ waiting' = "cts"
    BY <1>1, <1>2 DEF StartTransmission, Another
  <2> QED BY <2>1, <1>1 DEF TriesInv
<1>3. CASE ~NeedRts(p, n)
  <2>1. tries' = tries + 1 /\ rtsTries' = 0 /\ waiting' = "ack"
    BY <1>1, <1>3 DEF StartTransmission, Another
  <2> QED BY <2>1, <1>1 DEF TriesInv
<1> QED BY <1>2, <1>3

(* a beacon, or a group packet of the data queue *)
LEMMA GroupKeeps ==
  ASSUME IInv, NEW s \in 0 .. SeqSpace - 1, SendGroup(s), sequence' \in 0 .. SeqSpace - 1,
         beacons' \in 0 .. MaxBeacons, broadcasts' \in 0 .. MaxBroadcasts
  PROVE  IInv'
<1>1. TypeOK /\ FrameInv /\ TriesInv
  BY DEF IInv
<1>2. /\ waiting = "none" /\ air = Silence /\ air' = GroupFrame(s)
      /\ UNCHANGED <<size, sent, current, seq, retry, frag, waiting, ssrc, slrc, last,
                     defragmenting, fragments, delivered, switches, acked, failed, dropped, reused,
                     tries, rtsTries>>
  BY DEF SendGroup, Receiver, Header, Fates, Tries
<1>3. air'.kind = "data" /\ air'.group /\ ~InAir'
  BY <1>2, GroupFacts DEF InAir
<1>4. Now = current /\ Now' = Now
  BY <1>2, <1>3, AirFacts DEF Now, Silence
<1>5. sent \in Nat
  BY <1>1, Values
<1>6. TypeOK'
  <2>1. Packets' = Packets /\ Pieces' = Pieces
    BY <1>2 DEF Packets, Pieces
  <2> QED BY <2>1, <1>1, <1>2, <1>3 DEF TypeOK
<1>7. FrameInv'
  <2>1. Now' # 0 => frag' < FragmentCount(Now)'
    BY <1>1, <1>2, <1>4, SameSize DEF FrameInv
  <2>2. \E t \in 0 .. SeqSpace - 1 : air' = GroupFrame(t)'
    BY <1>2, GroupFacts
  <2> QED BY <2>1, <2>2, <1>2, <1>3 DEF FrameInv
<1>8. TriesInv'
  BY <1>1, <1>2 DEF TriesInv
<1>9. ASSUME ~reused PROVE KnownInv'
  <2>1. KnownInv /\ ProgressInv
    BY <1>9 DEF IInv, KnownInv
  <2>2. /\ FragmentInv' /\ DeliveredInv' /\ Delivered' = Delivered
        /\ Stuck' = Stuck /\ Exhausted' = Exhausted /\ AckedInv'
    BY <2>1, <1>1, <1>2, <1>4, <1>5, ReceiverKept DEF Receiver
  <2>3. ProgressInv'
    BY <2>1, <2>2, <1>2, <1>4, SameSize DEF ProgressInv, Recorded
  <2> QED BY <2>2, <2>3 DEF KnownInv
<1> QED BY <1>2, <1>6, <1>7, <1>8, <1>9, Assembled

LEMMA NumberTyped ==
  ASSUME TypeOK
  PROVE  NextSequence \in 0 .. SeqSpace - 1
<1>1. sequence + 1 \in Int /\ SeqSpace \in Nat \ {0}
  BY Values
<1> QED BY <1>1, Remainder DEF NextSequence

LEMMA BeaconKeeps ==
  ASSUME IInv, BeaconGranted
  PROVE  IInv'
<1>1. TypeOK
  BY DEF IInv
<1>2. /\ beacons < MaxBeacons /\ SendGroup(beacons % SeqSpace) /\ beacons' = beacons + 1
      /\ sequence' = sequence /\ broadcasts' = broadcasts
  BY DEF BeaconGranted
<1>3. /\ sequence' \in 0 .. SeqSpace - 1 /\ beacons \in 0 .. MaxBeacons
      /\ broadcasts' \in 0 .. MaxBroadcasts /\ MaxBeacons \in Nat /\ SeqSpace \in Nat \ {0}
  BY <1>1, <1>2, LimitAssumption DEF TypeOK
<1>4. beacons' \in 0 .. MaxBeacons
  BY <1>2, <1>3
<1>5. PICK s : s = beacons % SeqSpace
  OBVIOUS
<1>6. s \in 0 .. SeqSpace - 1
  BY <1>3, <1>5, Remainder
<1> QED BY <1>2, <1>3, <1>4, <1>5, <1>6, GroupKeeps

LEMMA BroadcastKeeps ==
  ASSUME IInv, BroadcastGranted
  PROVE  IInv'
<1>1. TypeOK
  BY DEF IInv
<1>2. /\ broadcasts < MaxBroadcasts /\ SendGroup(sequence) /\ broadcasts' = broadcasts + 1
      /\ sequence' = NextSequence /\ beacons' = beacons
  BY DEF BroadcastGranted
<1>3. /\ sequence \in 0 .. SeqSpace - 1 /\ broadcasts \in 0 .. MaxBroadcasts
      /\ beacons' \in 0 .. MaxBeacons /\ MaxBroadcasts \in Nat
  BY <1>1, <1>2, LimitAssumption DEF TypeOK
<1>4. broadcasts' \in 0 .. MaxBroadcasts /\ sequence' \in 0 .. SeqSpace - 1
  BY <1>1, <1>2, <1>3, NumberTyped
<1>5. PICK s \in 0 .. SeqSpace - 1 : s = sequence
  BY <1>3
<1> QED BY <1>2, <1>3, <1>4, <1>5, GroupKeeps

(* a repeated transmission *)
LEMMA RetryKeeps ==
  ASSUME IInv, waiting = "none", air = Silence, current # 0, Retry,
         UNCHANGED <<size, ssrc, slrc, Receiver, Bounds, acked, failed>>
  PROVE  IInv'
<1>1. TypeOK /\ FrameInv /\ TriesInv
  BY DEF IInv
<1>2. /\ UNCHANGED <<last, defragmenting, fragments, delivered, beacons, broadcasts, switches>>
      /\ UNCHANGED <<current, sent, seq, retry, frag, sequence, reused, dropped>>
  BY DEF Receiver, Bounds, Retry, Header
<1>3. Now = current
  BY AirFacts
<1>4. /\ sent \in Nat /\ current \in 1 .. sent
  <2>1. sent \in Nat /\ current \in Nat /\ current <= sent
    BY <1>1, Values
  <2> QED BY <2>1
<1>5. PICK p, q, s, n, b : p = current /\ q = sent /\ s = seq /\ n = frag /\ b = retry
  OBVIOUS
<1>6. StartTransmission(p, s, n, b)
  BY <1>5 DEF Retry
<1>7. /\ waiting' \in {"cts", "ack"} /\ Now' = p /\ air' # Silence
      /\ waiting' = "cts" => air'.kind = "rts" /\ ~InAir'
      /\ waiting' = "ack" =>
            /\ air'.kind = "data" /\ InAir'
            /\ \E r \in 1 .. sent' : air' = DataFrame(r, seq, frag, retry)' /\ current' \in {0, r}
  BY <1>2, <1>4, <1>5, <1>6, Starts
<1>8. Now' = Now
  BY <1>3, <1>5, <1>7
<1>9. TriesInv' /\ tries' \in Nat /\ rtsTries' \in Nat
  BY <1>1, <1>6, StartTries
<1>10. TypeOK'
  <2>1. Packets' = Packets /\ Pieces' = Pieces
    BY DEF Packets, Pieces
  <2>2. /\ air'.kind \in {"none", "rts", "cts", "data", "ack"}
        /\ waiting' \in {"none", "cts", "ack", "sifs"}
    BY <1>7
  <2>3. UNCHANGED <<size, ssrc, slrc, acked, failed>>
    OBVIOUS
  <2> QED BY <2>1, <2>2, <2>3, <1>1, <1>2, <1>9 DEF TypeOK
<1>11. FrameInv'
  <2>1. Now' # 0 => frag' < FragmentCount(Now)'
    BY <1>1, <1>2, <1>8, SameSize DEF FrameInv
  <2>2. current' # 0
    BY <1>2
  <2> QED BY <2>1, <2>2, <1>7 DEF FrameInv
<1>12. ASSUME ~reused PROVE KnownInv'
  <2>1. KnownInv /\ ProgressInv
    BY <1>12 DEF IInv, KnownInv
  <2>2. /\ FragmentInv' /\ DeliveredInv' /\ Delivered' = Delivered
        /\ Stuck' = Stuck /\ Exhausted' = Exhausted /\ AckedInv'
    BY <2>1, <1>1, <1>2, <1>4, <1>8, ReceiverKept
  <2>3. ProgressInv'
    BY <2>1, <2>2, <1>2, <1>7, <1>8, SameSize DEF ProgressInv, Recorded
  <2> QED BY <2>2, <2>3 DEF KnownInv
<1> QED BY <1>2, <1>9, <1>10, <1>11, <1>12, Assembled

(* the first transmission of a packet, under a number of its own *)
LEMMA FirstTryKeeps ==
  ASSUME IInv, waiting = "none", air = Silence, current = 0, NEW k \in sent .. Len(size),
         k # Len(size), Cleanup(k), FirstTry(k + 1),
         UNCHANGED <<size, ssrc, slrc, Receiver, Bounds, acked, failed>>
  PROVE  IInv'
<1>1. TypeOK /\ FrameInv /\ TriesInv
  BY DEF IInv
<1>2. /\ UNCHANGED <<last, defragmenting, fragments, delivered, beacons, broadcasts, switches>>
      /\ current' = k + 1 /\ sent' = k + 1 /\ seq' = sequence /\ sequence' = NextSequence
      /\ retry' = FALSE /\ frag' = 0 /\ StartTransmission(k + 1, sequence, 0, FALSE)
      /\ reused' = (reused \/ last.seq \in NumbersOnAir(k + 1, sequence))
      /\ dropped' = dropped \cup (sent + 1 .. k)
  BY DEF Receiver, Bounds, FirstTry, Cleanup
<1>3. /\ sent \in Nat /\ Len(size) \in Nat /\ sequence \in Nat /\ sequence < SeqSpace
      /\ SeqSpace \in Nat /\ FragSpace \in Nat \ {0}
      /\ k \in Nat /\ k + 1 \in 1 .. Len(size) /\ sent <= k
  <2>1. /\ sent \in Nat /\ Len(size) \in Nat /\ sequence \in Nat /\ sequence < SeqSpace
        /\ SeqSpace \in Nat /\ FragSpace \in Nat \ {0}
    BY <1>1, Values
  <2> QED BY <2>1
<1>4. PICK p, q, s, n, b : p = k + 1 /\ q = sent' /\ s = sequence /\ n = 0 /\ b = FALSE
  OBVIOUS
<1>5. StartTransmission(p, s, n, b) /\ p \in 1 .. q
  <2>1. p \in 1 .. q
    BY <1>2, <1>3, <1>4
  <2>2. StartTransmission(p, s, n, b)
    BY <1>2, <1>4
  <2> QED BY <2>1, <2>2
<1>6. /\ waiting' \in {"cts", "ack"} /\ Now' = p /\ air' # Silence
      /\ waiting' = "cts" => air'.kind = "rts" /\ ~InAir'
      /\ waiting' = "ack" =>
            /\ air'.kind = "data" /\ InAir'
            /\ \E r \in 1 .. sent' : air' = DataFrame(r, seq, frag, retry)' /\ current' \in {0, r}
  BY <1>2, <1>4, <1>5, Starts
<1>7. Now' = k + 1 /\ Now = 0
  BY <1>4, <1>6, AirFacts DEF InAir, Silence
<1>8. TriesInv' /\ tries' \in Nat /\ rtsTries' \in Nat
  BY <1>1, <1>5, StartTries
<1>9. TypeOK'
  <2>1. Packets' = Packets /\ Pieces' = Pieces
    BY DEF Packets, Pieces
  <2>2. /\ air'.kind \in {"none", "rts", "cts", "data", "ack"}
        /\ waiting' \in {"none", "cts", "ack", "sifs"}
    BY <1>6
  <2>3. /\ sent' \in 0 .. Len(size') /\ current' \in 0 .. sent' /\ seq' \in 0 .. SeqSpace - 1
        /\ frag' \in 0 .. 16 * FragSpace - 1
    BY <1>2, <1>3
  <2>4. sequence' \in 0 .. SeqSpace - 1
    BY <1>1, <1>2, NumberTyped
  <2>5. retry' \in BOOLEAN
    BY <1>2
  <2>6. reused' \in BOOLEAN
    BY <1>2
  <2>7. dropped' \subseteq Packets'
    <3>1. sent + 1 .. k \subseteq Packets
      BY <1>3 DEF Packets
    <3>2. dropped \subseteq Packets
      BY <1>1 DEF TypeOK
    <3> QED BY <3>1, <3>2, <2>1, <1>2
  <2>8. UNCHANGED <<size, ssrc, slrc, acked, failed>>
    OBVIOUS
  <2> QED BY <2>1, <2>2, <2>3, <2>4, <2>5, <2>6, <2>7, <2>8, <1>1, <1>2, <1>8 DEF TypeOK
<1>10. FragmentCount(p) \in Nat \ {0} /\ FragmentCount(p)' = FragmentCount(p)
  <2>1. p \in 1 .. Len(size)
    BY <1>3, <1>4
  <2> QED BY <2>1, <1>1, Counts, SameSize
<1>11. FrameInv'
  <2>1. frag' < FragmentCount(Now)'
    BY <1>2, <1>6, <1>10
  <2>2. current' # 0
    BY <1>2, <1>3
  <2> QED BY <2>1, <2>2, <1>6 DEF FrameInv
<1>12. ASSUME ~reused' PROVE KnownInv'
  <2>1. /\ KnownInv /\ FragmentInv /\ ProgressInv /\ DeliveredInv /\ AckedInv
        /\ last.seq \notin NumbersOnAir(k + 1, sequence)
    BY <1>2, <1>12 DEF IInv, KnownInv
  <2>2. last.seq # sequence
    <3>1. SeqControl(sequence, 0).seq = sequence
      BY <1>3, ControlFacts
    <3>2. 0 \in 0 .. FragmentCount(k + 1) - 1
      BY <1>4, <1>10
    <3>3. SeqControl(sequence, 0).seq \in NumbersOnAir(k + 1, sequence)
      BY <3>2 DEF NumbersOnAir
    <3> QED BY <3>1, <3>3, <2>1
  <2>3. Delivered' = Delivered /\ Numbers' = Numbers /\ acked' = acked
    BY <1>2 DEF Delivered, Numbers
  <2>4. FragmentInv'
    <3> SUFFICES ASSUME defragmenting PROVE FragmentInv'
      BY <2>1, <1>2 DEF FragmentInv
    <3>1. PICK r \in 1 .. sent : /\ NeedFragmentation(r) /\ last.frag + 1 < GetNFragments(r)
                                 /\ Fragments(fragments, r, last.frag + 1)
      BY <2>1 DEF FragmentInv
    <3>2. r \in 1 .. sent' /\ r < Now'
      BY <1>2, <1>3, <1>7
    <3> QED BY <3>1, <3>2, <2>2, <1>2, SameSize DEF FragmentInv
  <2>5. DeliveredInv'
    <3>1. \A i \in DOMAIN delivered' :
             \E r \in 1 .. sent' : Fragments(delivered[i], r, FragmentCount(r))' /\ (Now' # 0 => r <= Now')
      <4> SUFFICES ASSUME NEW i \in DOMAIN delivered
                   PROVE  \E r \in 1 .. sent' : /\ Fragments(delivered[i], r, FragmentCount(r))'
                                                /\ (Now' # 0 => r <= Now')
        BY <1>2
      <4>1. PICK r \in 1 .. sent : Fragments(delivered[i], r, FragmentCount(r))
        BY <2>1 DEF DeliveredInv
      <4>2. r \in 1 .. sent' /\ r <= Now'
        BY <1>2, <1>3, <1>7
      <4>3. Fragments(delivered[i], r, FragmentCount(r))'
        BY <4>1, <1>2, SameSize
      <4> QED BY <4>2, <4>3
    <3> QED BY <3>1, <2>1, <2>3, <1>2 DEF DeliveredInv
  <2>6. ProgressInv'
    <3>1. last'.seq # seq' /\ ~Recorded'
      BY <2>2, <1>2 DEF Recorded
    <3>2. Now' \notin Delivered'
      <4> SUFFICES ASSUME NEW i \in DOMAIN delivered, delivered[i][1].packet = k + 1
                   PROVE  FALSE
        BY <2>3, <1>7 DEF Delivered
      <4>1. PICK r \in 1 .. sent : Fragments(delivered[i], r, FragmentCount(r))
        BY <2>1 DEF DeliveredInv
      <4>2. FragmentCount(r) \in Nat \ {0}
        <5>1. r \in 1 .. Len(size)
          BY <1>3
        <5> QED BY <5>1, <1>1, Counts
      <4>3. delivered[i][1] = Piece(r, 1 - 1)
        BY <4>1, <4>2 DEF Fragments
      <4>4. delivered[i][1].packet = r
        BY <4>3, FrameFacts
      <4> QED BY <4>4, <1>3
    <3>3. waiting' # "sifs" /\ ~(waiting' = "ack" /\ air'.kind = "ack")
      BY <1>6
    <3>4. last'.seq \notin NumbersOnAir(Now, seq)'
      <4>1. NumbersOnAir(p, s)' = NumbersOnAir(p, s)
        BY SameSize
      <4>2. last'.seq \notin NumbersOnAir(p, s)'
        BY <4>1, <2>1, <1>2, <1>4
      <4> QED BY <4>2, <1>2, <1>4, <1>6 DEF NumbersOnAir, FragmentCount, NeedFragmentation,
                                            GetNFragments
    <3>5. ~(frag' > 0)
      BY <1>2
    <3> QED BY <3>1, <3>2, <3>3, <3>4, <3>5 DEF ProgressInv
  <2>7. AckedInv'
    <3> SUFFICES ASSUME NEW r \in acked
                 PROVE  /\ r <= sent' /\ (Now' # 0 => r < Now')
                        /\ \/ r \in Delivered'
                           \/ \E t \in 1 .. r : HalfReceived(t)' /\ (t = r => TooLong(r)')
      BY <2>3 DEF AckedInv
    <3>1. r \in Nat /\ r <= sent
      <4>1. acked \subseteq Packets
        BY <1>1 DEF TypeOK
      <4> QED BY <4>1, <2>1, <1>3 DEF AckedInv, Packets
    <3>2. \A t : HalfReceived(t)' = HalfReceived(t)
      BY <1>2 DEF HalfReceived
    <3>3. r <= sent' /\ r < Now'
      BY <3>1, <1>2, <1>3, <1>7
    <3>4. r \in Delivered \/ \E t \in 1 .. r : HalfReceived(t) /\ (t = r => TooLong(r))
      BY <2>1 DEF AckedInv
    <3> QED BY <3>2, <3>3, <3>4, <2>3, SameSize
  <2> QED BY <2>4, <2>5, <2>6, <2>7 DEF KnownInv
<1> QED BY <1>8, <1>9, <1>11, <1>12, Assembled

(* all that was queued has expired *)
LEMMA EmptyKeeps ==
  ASSUME IInv, waiting = "none", air = Silence, current = 0, Cleanup(Len(size)), QueueEmpty,
         UNCHANGED <<size, ssrc, slrc, Receiver, Bounds, acked, failed>>
  PROVE  IInv'
<1>1. TypeOK /\ FrameInv /\ TriesInv
  BY DEF IInv
<1>2. /\ UNCHANGED <<last, defragmenting, fragments, delivered, beacons, broadcasts, switches>>
      /\ UNCHANGED <<current, seq, retry, frag, sequence, air, waiting, reused, tries, rtsTries>>
      /\ sent' = Len(size) /\ dropped' = dropped \cup (sent + 1 .. Len(size))
  BY DEF Receiver, Bounds, QueueEmpty, Cleanup, Header, Tries
<1>3. sent \in Nat /\ Len(size) \in Nat /\ sent <= Len(size)
  BY <1>1, Values
<1>4. Now = 0 /\ Now' = 0 /\ ~InAir'
  BY <1>2, AirFacts DEF InAir, Silence, Now
<1>5. TypeOK'
  <2>1. Packets' = Packets /\ Pieces' = Pieces
    BY DEF Packets, Pieces
  <2>2. sent' \in 0 .. Len(size') /\ current' \in 0 .. sent'
    BY <1>2, <1>3
  <2>3. dropped' \subseteq Packets'
    <3>1. sent + 1 .. Len(size) \subseteq Packets
      BY <1>3 DEF Packets
    <3>2. dropped \subseteq Packets
      BY <1>1 DEF TypeOK
    <3> QED BY <3>1, <3>2, <2>1, <1>2
  <2>4. UNCHANGED <<size, ssrc, slrc, acked, failed>>
    OBVIOUS
  <2> QED BY <2>1, <2>2, <2>3, <2>4, <1>1, <1>2 DEF TypeOK
<1>6. FrameInv'
  BY <1>2, <1>4 DEF FrameInv, Silence
<1>7. TriesInv'
  BY <1>1, <1>2 DEF TriesInv
<1>8. ASSUME ~reused PROVE KnownInv'
  <2>1. KnownInv
    BY <1>8 DEF IInv
  <2>2. sent' \in Nat /\ sent <= sent' /\ acked' = acked /\ UNCHANGED <<size, Receiver, seq>>
    BY <1>2, <1>3
  <2>3. FragmentInv' /\ DeliveredInv' /\ AckedInv'
    BY <2>1, <2>2, <1>1, <1>4, ReceiverKept
  <2>4. ProgressInv'
    BY <1>4 DEF ProgressInv
  <2> QED BY <2>3, <2>4 DEF KnownInv
<1> QED BY <1>2, <1>5, <1>6, <1>7, <1>8, Assembled

LEMMA AccessKeeps ==
  ASSUME IInv, NotifyAccessGranted
  PROVE  IInv'
<1>1. /\ waiting = "none" /\ air = Silence
      /\ UNCHANGED <<size, ssrc, slrc, Receiver, Bounds, acked, failed>>
  BY DEF NotifyAccessGranted
<1>2. CASE current = 0
  <2>1. PICK k \in sent .. Len(size) :
           Cleanup(k) /\ IF k = Len(size) THEN QueueEmpty ELSE FirstTry(k + 1)
    BY <1>2 DEF NotifyAccessGranted
  <2>2. CASE k = Len(size)
    BY <2>1, <2>2, <1>1, <1>2, EmptyKeeps
  <2>3. CASE k # Len(size)
    BY <2>1, <2>3, <1>1, <1>2, FirstTryKeeps
  <2> QED BY <2>2, <2>3
<1>3. CASE current # 0
  BY <1>1, <1>3, RetryKeeps DEF NotifyAccessGranted
<1> QED BY <1>2, <1>3

(* a packet queued later changes no fragment of the earlier ones *)
LEMMA GrownSize ==
  ASSUME size \in Seq(Sizes), NEW s \in Sizes, size' = Append(size, s)
  PROVE  /\ Len(size) \in Nat /\ Len(size') = Len(size) + 1
         /\ \A p \in 1 .. Len(size) :
               /\ NeedFragmentation(p)' <=> NeedFragmentation(p)
               /\ GetNFragments(p)' = GetNFragments(p)
               /\ FragmentCount(p)' = FragmentCount(p)
               /\ TooLong(p)' <=> TooLong(p)
               /\ \A n : Piece(p, n)' = Piece(p, n)
               /\ \A s1 : NumbersOnAir(p, s1)' = NumbersOnAir(p, s1)
               /\ \A ps, n : Fragments(ps, p, n)' <=> Fragments(ps, p, n)
               /\ \A t, n, b : DataFrame(p, t, n, b)' = DataFrame(p, t, n, b)
<1>1. Len(size) \in Nat /\ Len(size') = Len(size) + 1 /\ \A p \in 1 .. Len(size) : size'[p] = size[p]
  BY AppendProperties, LenProperties
<1> SUFFICES ASSUME NEW p \in 1 .. Len(size)
             PROVE  /\ NeedFragmentation(p)' <=> NeedFragmentation(p)
                    /\ GetNFragments(p)' = GetNFragments(p)
                    /\ FragmentCount(p)' = FragmentCount(p)
                    /\ TooLong(p)' <=> TooLong(p)
                    /\ \A n : Piece(p, n)' = Piece(p, n)
                    /\ \A s1 : NumbersOnAir(p, s1)' = NumbersOnAir(p, s1)
                    /\ \A ps, n : Fragments(ps, p, n)' <=> Fragments(ps, p, n)
                    /\ \A t, n, b : DataFrame(p, t, n, b)' = DataFrame(p, t, n, b)
  BY <1>1
<1>2. size'[p] = size[p]
  BY <1>1
<1>3. NeedFragmentation(p)' <=> NeedFragmentation(p)
  BY <1>2 DEF NeedFragmentation
<1>4. GetNFragments(p)' = GetNFragments(p)
  BY <1>2 DEF GetNFragments
<1>5. FragmentCount(p)' = FragmentCount(p)
  BY <1>3, <1>4 DEF FragmentCount
<1>6. \A n : Piece(p, n)' = Piece(p, n)
  BY <1>2, <1>3, <1>4 DEF Piece, Whole, GetFragmentOffset, GetFragmentSize
<1>7. \A ps, n : Fragments(ps, p, n)' <=> Fragments(ps, p, n)
  BY <1>6 DEF Fragments
<1>8. \A t, n, b : DataFrame(p, t, n, b)' = DataFrame(p, t, n, b)
  BY <1>3, <1>4, <1>6 DEF DataFrame, IsLastFragment
<1>9. (TooLong(p)' <=> TooLong(p)) /\ \A s1 : NumbersOnAir(p, s1)' = NumbersOnAir(p, s1)
  BY <1>5 DEF TooLong, NumbersOnAir
<1> QED BY <1>3, <1>4, <1>5, <1>6, <1>7, <1>8, <1>9

LEMMA QueueKeeps ==
  ASSUME IInv, Queue
  PROVE  IInv'
<1>1. TypeOK /\ FrameInv /\ TriesInv
  BY DEF IInv
<1>2. PICK s \in Sizes : size' = Append(size, s)
  BY DEF Queue
<1>3. UNCHANGED <<sent, current, seq, retry, frag, waiting, ssrc, slrc, sequence, air, last,
                  defragmenting, fragments, delivered, beacons, broadcasts, switches, acked,
                  failed, dropped, reused, tries, rtsTries>>
  BY DEF Queue, Receiver, Bounds, Header, Fates, Tries
<1>4. /\ size \in Seq(Sizes) /\ sent \in Nat /\ sent <= Len(size)
      /\ current \in 0 .. sent /\ Len(size) \in Nat
  <2>1. /\ size \in Seq(Sizes) /\ sent \in Nat /\ sent <= Len(size) /\ current \in Nat
        /\ current <= sent /\ Len(size) \in Nat
    BY <1>1, Values
  <2> QED BY <2>1
<1>5. Len(size') = Len(size) + 1
  BY <1>2, <1>4, GrownSize
<1>6. \A p \in 1 .. sent :
         /\ NeedFragmentation(p)' <=> NeedFragmentation(p)
         /\ GetNFragments(p)' = GetNFragments(p)
         /\ FragmentCount(p)' = FragmentCount(p)
         /\ TooLong(p)' <=> TooLong(p)
         /\ \A s1 : NumbersOnAir(p, s1)' = NumbersOnAir(p, s1)
         /\ \A ps, n : Fragments(ps, p, n)' <=> Fragments(ps, p, n)
         /\ \A t, n, b : DataFrame(p, t, n, b)' = DataFrame(p, t, n, b)
  <2> SUFFICES ASSUME NEW p \in 1 .. sent
               PROVE  /\ NeedFragmentation(p)' <=> NeedFragmentation(p)
                      /\ GetNFragments(p)' = GetNFragments(p)
                      /\ FragmentCount(p)' = FragmentCount(p)
                      /\ TooLong(p)' <=> TooLong(p)
                      /\ \A s1 : NumbersOnAir(p, s1)' = NumbersOnAir(p, s1)
                      /\ \A ps, n : Fragments(ps, p, n)' <=> Fragments(ps, p, n)
                      /\ \A t, n, b : DataFrame(p, t, n, b)' = DataFrame(p, t, n, b)
    OBVIOUS
  <2>1. p \in 1 .. Len(size)
    BY <1>4
  <2> QED BY <2>1, <1>2, <1>4, GrownSize
<1>7. /\ Delivered' = Delivered /\ Stuck' = Stuck /\ Exhausted' = Exhausted
      /\ Recorded' = Recorded /\ Numbers' = Numbers /\ Now' = Now /\ (InAir' <=> InAir)
      /\ \A q : HalfReceived(q)' = HalfReceived(q)
  BY <1>3 DEF Delivered, Stuck, Exhausted, Recorded, Numbers, Now, InAir, HalfReceived
<1>8. Now # 0 => Now \in 1 .. sent
  BY <1>4, AirFacts
<1>9. TypeOK'
  <2>1. Packets \subseteq Packets' /\ Pieces \subseteq Pieces'
    BY <1>4, <1>5 DEF Packets, Pieces
  <2>2. Seq(Pieces) \subseteq Seq(Pieces')
    BY <2>1, SeqMonotonic
  <2>3. Seq(Seq(Pieces)) \subseteq Seq(Seq(Pieces'))
    BY <2>2, SeqMonotonic
  <2>4. fragments' \in Seq(Pieces') /\ delivered' \in Seq(Seq(Pieces'))
    BY <2>2, <2>3, <1>1, <1>3 DEF TypeOK
  <2>5. acked' \subseteq Packets' /\ failed' \subseteq Packets' /\ dropped' \subseteq Packets'
    BY <2>1, <1>1, <1>3 DEF TypeOK
  <2>6. size' \in Seq(Sizes)
    BY <1>2, <1>4, AppendProperties
  <2>7. sent' \in 0 .. Len(size') /\ current' \in 0 .. sent'
    BY <1>3, <1>4, <1>5
  <2> QED BY <2>4, <2>5, <2>6, <2>7, <1>1, <1>3 DEF TypeOK
<1>10. FrameInv'
  <2>1. Now' # 0 => frag' < FragmentCount(Now)'
    <3> SUFFICES ASSUME Now # 0 PROVE frag < FragmentCount(Now)'
      BY <1>3, <1>7
    <3>1. PICK p \in 1 .. sent : p = Now
      BY <1>8
    <3>2. FragmentCount(Now)' = FragmentCount(p)'
      BY <3>1, <1>7 DEF FragmentCount, NeedFragmentation, GetNFragments
    <3> QED BY <3>1, <3>2, <1>1, <1>6 DEF FrameInv
  <2>2. waiting' = "sifs" => frag' + 1 < FragmentCount(current)'
    <3> SUFFICES ASSUME waiting = "sifs" PROVE frag + 1 < FragmentCount(current)'
      BY <1>3
    <3>1. current # 0
      BY <1>1 DEF FrameInv
    <3>2. PICK p \in 1 .. sent : p = current
      BY <3>1, <1>4
    <3>3. FragmentCount(current)' = FragmentCount(p)'
      BY <3>2, <1>3 DEF FragmentCount, NeedFragmentation, GetNFragments
    <3> QED BY <3>2, <3>3, <1>1, <1>6 DEF FrameInv
  <2>3. ASSUME InAir'
        PROVE  \E r \in 1 .. sent' : air' = DataFrame(r, seq, frag, retry)' /\ current' \in {0, r}
    <3>1. PICK r \in 1 .. sent : air = DataFrame(r, seq, frag, retry) /\ current \in {0, r}
      BY <2>3, <1>1, <1>7 DEF FrameInv
    <3>2. air' = DataFrame(r, seq, frag, retry)'
      BY <3>1, <1>3, <1>6
    <3> QED BY <3>1, <3>2, <1>3
  <2>4. air'.kind = "data" => InAir' \/ \E t \in 0 .. SeqSpace - 1 : air' = GroupFrame(t)'
    BY <1>1, <1>3, <1>7, GroupFacts DEF FrameInv
  <2> QED BY <2>1, <2>2, <2>3, <2>4, <1>1, <1>3, <1>7 DEF FrameInv
<1>11. TriesInv'
  BY <1>1, <1>3 DEF TriesInv
<1>12. ASSUME ~reused PROVE KnownInv'
  <2>1. FragmentInv /\ ProgressInv /\ DeliveredInv /\ AckedInv
    BY <1>12 DEF IInv, KnownInv
  <2>2. FragmentInv'
    BY <2>1, <1>3, <1>6, <1>7 DEF FragmentInv
  <2>3. DeliveredInv'
    BY <2>1, <1>3, <1>6, <1>7 DEF DeliveredInv
  <2>4. ProgressInv'
    <3> SUFFICES ASSUME Now # 0 PROVE ProgressInv'
      BY <1>7 DEF ProgressInv
    <3>1. PICK p \in 1 .. sent : p = Now
      BY <1>8
    <3>2. FragmentCount(Now)' = FragmentCount(p)'
      BY <3>1, <1>7 DEF FragmentCount, NeedFragmentation, GetNFragments
    <3>3. FragmentCount(Now)' = FragmentCount(Now)
      BY <3>1, <3>2, <1>6
    <3>4. PICK t : t = seq
      OBVIOUS
    <3>5. NumbersOnAir(Now, seq)' = NumbersOnAir(Now, seq)
      BY <3>3, <1>3 DEF NumbersOnAir
    <3> QED BY <3>3, <3>5, <2>1, <1>3, <1>7 DEF ProgressInv
  <2>5. AckedInv'
    <3>1. \A p \in acked : p \in 1 .. sent
      <4>1. acked \subseteq Packets
        BY <1>1 DEF TypeOK
      <4> QED BY <4>1, <2>1, <1>4 DEF AckedInv, Packets
    <3> QED BY <3>1, <2>1, <1>3, <1>6, <1>7 DEF AckedInv
  <2> QED BY <2>2, <2>3, <2>4, <2>5 DEF KnownInv
<1> QED BY <1>3, <1>9, <1>10, <1>11, <1>12, Assembled

-----------------------------------------------------------------------------
(* The receiver *)

LEMMA PieceType ==
  ASSUME TypeOK
  PROVE  \A p \in 1 .. Len(size) : \A n \in Nat : Piece(p, n) \in Pieces
<1> SUFFICES ASSUME NEW p \in 1 .. Len(size), NEW n \in Nat
             PROVE  Piece(p, n) \in Pieces
  OBVIOUS
<1>1. size[p] \in Nat /\ GetNFragments(p) \in Nat
  BY Counts
<1>2. Threshold \in Nat \ {0} /\ Len(size) \in Nat
  BY SizeAssumption, Values
<1>3. n * Threshold \in Nat
  BY <1>2
<1>4. size[p] % Threshold \in Nat
  BY <1>1, <1>2
<1>5. GetFragmentSize(p, n) \in Nat
  BY <1>2, <1>4 DEF GetFragmentSize
<1>6. p # 0 /\ p \in 0 .. Len(size)
  BY <1>2
<1>7. Whole(p) \in Pieces
  BY <1>1, <1>6 DEF Whole, Group, Pieces
<1> QED BY <1>3, <1>5, <1>6, <1>7 DEF Piece, Pieces, GetFragmentOffset

(* the frame on the air in terms of what the sender is doing *)
LEMMA AirData ==
  ASSUME IInv, InAir
  PROVE  /\ Now # 0 /\ Now \in 1 .. sent /\ Now \in 1 .. Len(size)
         /\ frag \in Nat /\ FragmentCount(Now) \in Nat \ {0} /\ frag < FragmentCount(Now)
         /\ air.piece = Piece(Now, frag) /\ air.piece \in Pieces
         /\ (air.retry <=> retry) /\ ~air.group /\ air.more \in BOOLEAN
         /\ air.control \in [seq: 0 .. SeqSpace - 1, frag: 0 .. FragSpace - 1]
         /\ air.control.seq \in NumbersOnAir(Now, seq) /\ air.control.frag < FragSpace
         /\ frag < FragSpace => air.control = [seq |-> seq, frag |-> frag]
         /\ air.more <=> frag + 1 < FragmentCount(Now)
         /\ air.more => NeedFragmentation(Now) /\ GetNFragments(Now) = FragmentCount(Now)
         /\ seq \in Nat /\ FragSpace \in Nat \ {0}
<1>1. TypeOK /\ FrameInv
  BY DEF IInv
<1>2. /\ Now \in 1 .. sent /\ Now # 0 /\ air = DataFrame(Now, seq, frag, retry)
  BY AirFacts
<1>3. /\ sent \in Nat /\ Len(size) \in Nat /\ sent <= Len(size) /\ frag \in Nat
      /\ seq \in 0 .. SeqSpace - 1 /\ seq \in Nat /\ FragSpace \in Nat \ {0}
  BY <1>1, Values DEF TypeOK
<1>4. Now \in 1 .. Len(size)
  BY <1>2, <1>3
<1>5. FragmentCount(Now) \in Nat \ {0} /\ GetNFragments(Now) \in Nat \ {0}
  BY <1>1, <1>4, Counts
<1>6. frag < FragmentCount(Now)
  BY <1>1, <1>2 DEF FrameInv
<1>7. PICK p, s, n, b : p = Now /\ s = seq /\ n = frag /\ b = retry
  OBVIOUS
<1>8. air = DataFrame(p, s, n, b)
  BY <1>2, <1>7
<1>9. /\ air.control = SeqControl(s, IF NeedFragmentation(p) THEN n ELSE 0)
      /\ air.piece = Piece(p, n) /\ (air.retry <=> b) /\ ~air.group
      /\ air.more <=> NeedFragmentation(p) /\ ~IsLastFragment(p, n)
  BY <1>8 DEF DataFrame
<1>10. air.control = SeqControl(seq, frag)
  BY <1>3, <1>5, <1>6, <1>7, <1>9 DEF FragmentCount
<1>11. air.more => NeedFragmentation(Now) /\ GetNFragments(Now) = FragmentCount(Now)
  BY <1>7, <1>9 DEF FragmentCount
<1>12. air.more <=> frag + 1 < FragmentCount(Now)
  <2>1. CASE NeedFragmentation(Now)
    BY <2>1, <1>3, <1>5, <1>6, <1>7, <1>9 DEF FragmentCount, IsLastFragment
  <2>2. CASE ~NeedFragmentation(Now)
    BY <2>2, <1>3, <1>7, <1>9 DEF FragmentCount
  <2> QED BY <2>1, <2>2
<1>13. air.more \in BOOLEAN
  <2>1. (NeedFragmentation(p) /\ ~IsLastFragment(p, n)) \in BOOLEAN
    OBVIOUS
  <2>2. air.more = (NeedFragmentation(p) /\ ~IsLastFragment(p, n))
    BY <1>8, Zenon DEF DataFrame
  <2> QED BY <2>1, <2>2
<1>14. (air.retry <=> retry) /\ air.piece = Piece(Now, frag)
  BY <1>7, <1>9
<1>15. /\ air.control \in [seq: 0 .. SeqSpace - 1, frag: 0 .. FragSpace - 1]
       /\ frag < FragSpace => air.control = [seq |-> seq, frag |-> frag]
  BY <1>3, <1>10, ControlFacts
<1>16. air.control.frag < FragSpace
  BY <1>3, <1>15
<1>17. air.control.seq \in NumbersOnAir(Now, seq)
  <2>1. frag \in 0 .. FragmentCount(Now) - 1
    BY <1>3, <1>5, <1>6
  <2> QED BY <2>1, <1>10 DEF NumbersOnAir
<1>18. air.piece \in Pieces
  BY <1>1, <1>3, <1>4, <1>14, PieceType
<1> QED BY <1>2, <1>3, <1>4, <1>5, <1>6, <1>9, <1>11, <1>12, <1>13, <1>14, <1>15, <1>16, <1>17,
        <1>18

(* what answering a frame leaves in place at the sender *)
LEMMA Answered ==
  ASSUME IInv, InAir, air' = Control("ack"), UNCHANGED <<Sender, waiting, Bounds>>,
         last' \in [seq: 0 .. SeqSpace - 1, frag: 0 .. FragSpace - 1],
         defragmenting' \in BOOLEAN, fragments' \in Seq(Pieces), delivered' \in Seq(Seq(Pieces))
  PROVE  /\ TypeOK' /\ FrameInv' /\ TriesInv'
         /\ Now' \in {0, Now} /\ (Now' # 0 => waiting' = "ack") /\ air'.kind = "ack"
         /\ UNCHANGED <<size, sent, current, seq, retry, frag, acked, reused>>
<1>1. TypeOK /\ FrameInv /\ TriesInv
  BY DEF IInv
<1>2. UNCHANGED <<size, sent, current, seq, retry, frag, ssrc, slrc, sequence, acked, failed,
                  dropped, reused, tries, rtsTries, beacons, broadcasts, switches, waiting>>
  BY DEF Sender, Bounds, Header, Fates, Tries
<1>3. air'.kind = "ack" /\ ~InAir'
  BY DEF Control, InAir
<1>4. current \in {0, Now} /\ (waiting = "ack" \/ current = 0)
  BY AirFacts
<1>5. Now' = current
  BY <1>2, <1>3 DEF Now
<1>6. TypeOK'
  <2>1. Packets' = Packets /\ Pieces' = Pieces
    BY <1>2 DEF Packets, Pieces
  <2> QED BY <2>1, <1>1, <1>2, <1>3 DEF TypeOK
<1>7. FrameInv'
  <2>1. Now' # 0 => frag' < FragmentCount(Now)'
    BY <1>1, <1>2, <1>4, <1>5, SameSize DEF FrameInv
  <2>2. waiting # "sifs" /\ waiting # "cts"
    BY <1>1, <1>4 DEF FrameInv
  <2> QED BY <2>1, <2>2, <1>1, <1>2, <1>3 DEF FrameInv
<1>8. TriesInv'
  BY <1>1, <1>2 DEF TriesInv
<1> QED BY <1>2, <1>3, <1>4, <1>5, <1>6, <1>7, <1>8

(* a frame that the receiver has already, or does not expect *)
LEMMA DiscardedKeeps ==
  ASSUME IInv, ~reused, InAir, air' = Control("ack"),
         UNCHANGED <<Sender, waiting, Receiver, Bounds>>, Recorded \/ Stuck
  PROVE  KnownInv'
<1>1. TypeOK /\ KnownInv /\ ProgressInv
  BY DEF IInv, KnownInv
<1>2. UNCHANGED <<last, defragmenting, fragments, delivered>>
  BY DEF Receiver
<1>3. fragments' \in Seq(Pieces) /\ delivered' \in Seq(Seq(Pieces)) /\ defragmenting' \in BOOLEAN
      /\ last' \in [seq: 0 .. SeqSpace - 1, frag: 0 .. FragSpace - 1]
  BY <1>1, <1>2 DEF TypeOK
<1>4. /\ Now' \in {0, Now} /\ (Now' # 0 => waiting' = "ack") /\ air'.kind = "ack"
      /\ UNCHANGED <<size, sent, current, seq, retry, frag, acked>>
  BY <1>3, Answered
<1>5. sent' \in Nat /\ sent <= sent'
  BY <1>1, <1>4, Values
<1>6. /\ FragmentInv' /\ DeliveredInv' /\ Delivered' = Delivered
      /\ Stuck' = Stuck /\ Exhausted' = Exhausted /\ AckedInv'
  BY <1>1, <1>4, <1>5, ReceiverKept
<1>7. ProgressInv'
  <2>1. Recorded' = Recorded
    BY <1>2, <1>4 DEF Recorded
  <2> QED BY <2>1, <1>1, <1>2, <1>4, <1>6, SameSize DEF ProgressInv
<1> QED BY <1>6, <1>7 DEF KnownInv

(* a packet reported as sent was handed up, while the receiver still takes in *)
(* the packet being sent                                                      *)
LEMMA AckedBefore ==
  ASSUME TypeOK, FragmentInv, AckedInv, Now # 0, ~Stuck
  PROVE  \A p \in acked : p \in Delivered /\ p <= sent /\ p < Now
<1> SUFFICES ASSUME NEW p \in acked, p \notin Delivered PROVE FALSE
  BY DEF AckedInv
<1>1. p < Now /\ \E q \in 1 .. p : HalfReceived(q)
  BY DEF AckedInv
<1>2. PICK q \in 1 .. p : HalfReceived(q)
  BY <1>1
<1>3. defragmenting /\ fragments[1].packet = q
  BY <1>2 DEF HalfReceived
<1>4. last.seq = seq
  BY <1>3 DEF Stuck
<1>5. PICK r \in 1 .. sent : Fragments(fragments, r, last.frag + 1) /\ r = Now
  BY <1>3, <1>4 DEF FragmentInv
<1>6. last.frag \in Nat /\ sent \in Nat /\ acked \subseteq Packets
  BY Values DEF TypeOK
<1>7. fragments[1] = Piece(r, 1 - 1)
  BY <1>5, <1>6 DEF Fragments
<1>8. q = Now
  BY <1>3, <1>5, <1>7, FrameFacts
<1>9. p \in Nat /\ Now \in Nat
  BY <1>5, <1>6, Values DEF Packets
<1> QED BY <1>1, <1>8, <1>9

(* a fragment that the receiver keeps until the others have come *)
LEMMA HeldKeeps ==
  ASSUME IInv, ~reused, InAir, air' = Control("ack"),
         UNCHANGED <<Sender, waiting, Bounds, delivered>>,
         last' = air.control, frag < FragSpace, defragmenting', defragmenting' \in BOOLEAN, air.more,
         fragments' \in Seq(Pieces), Fragments(fragments', Now, frag + 1),
         Now \notin Delivered, ~Stuck
  PROVE  KnownInv'
<1>1. TypeOK /\ FragmentInv /\ ProgressInv /\ DeliveredInv /\ AckedInv
  BY DEF IInv, KnownInv
<1>2. /\ Now # 0 /\ Now \in 1 .. sent /\ frag \in Nat /\ frag + 1 < FragmentCount(Now)
      /\ last' = [seq |-> seq, frag |-> frag]
      /\ last' \in [seq: 0 .. SeqSpace - 1, frag: 0 .. FragSpace - 1]
      /\ NeedFragmentation(Now) /\ GetNFragments(Now) = FragmentCount(Now)
  BY AirData
<1>3. last'.seq = seq /\ last'.frag = frag
  BY <1>2
<1>4. delivered' \in Seq(Seq(Pieces))
  BY <1>1 DEF TypeOK
<1>5. /\ Now' \in {0, Now} /\ (Now' # 0 => waiting' = "ack") /\ air'.kind = "ack"
      /\ UNCHANGED <<size, sent, current, seq, retry, frag, acked>>
  BY <1>2, <1>4, Answered
<1>6. Delivered' = Delivered /\ Numbers' = Numbers
  BY DEF Delivered, Numbers
<1>7. PICK q \in 1 .. sent : q = Now
  BY <1>2
<1>8. FragmentInv'
  <2>1. /\ NeedFragmentation(q)' /\ last'.frag + 1 < GetNFragments(q)'
        /\ Fragments(fragments', q, frag + 1)
    BY <1>2, <1>3, <1>5, <1>7, SameSize
  <2>2. PICK fs, n : fs = fragments' /\ n = frag + 1
    OBVIOUS
  <2>3. Fragments(fs, q, n)'
    BY <2>1, <2>2, <1>5, SameSize
  <2>4. fs = fragments' /\ n = last'.frag + 1
    BY <2>2, <1>3
  <2>5. Fragments(fragments, q, last.frag + 1)'
    BY <2>3, <2>4 DEF Fragments, Piece, Whole, NeedFragmentation, GetFragmentOffset,
          GetFragmentSize, GetNFragments
  <2>6. last'.seq = seq' /\ (Now' # 0 => q = Now') /\ q \in 1 .. sent'
    BY <1>2, <1>3, <1>5, <1>7
  <2>7. defragmenting'
    OBVIOUS
  <2> QED BY <2>1, <2>5, <2>6, <2>7 DEF FragmentInv
<1>9. DeliveredInv'
  BY <1>1, <1>5, <1>6, SameSize DEF DeliveredInv
<1>10. ProgressInv'
  <2>1. Recorded' /\ last'.seq = seq' /\ last'.frag = frag'
    BY <1>3, <1>5 DEF Recorded
  <2>2. Now' # 0 => Now' \notin Delivered'
    BY <1>5, <1>6
  <2> QED BY <2>1, <2>2, <1>5 DEF ProgressInv
<1>11. AckedInv'
  <2>1. \A p \in acked : p \in Delivered /\ p <= sent /\ p < Now
    BY <1>1, <1>2, AckedBefore
  <2> QED BY <2>1, <1>5, <1>6 DEF AckedInv
<1> QED BY <1>8, <1>9, <1>10, <1>11 DEF KnownInv

LEMMA AFunctionIsASeq ==
  ASSUME NEW n \in Nat, NEW f \in [1 .. n -> Nat]
  PROVE  f \in Seq(Nat) /\ Len(f) = n
OBVIOUS

LEMMA OneMore ==
  ASSUME NEW m \in Nat, NEW old \in [1 .. m -> Nat], NEW x \in Nat,
         NEW new \in [1 .. m + 1 -> Nat], \A i \in 1 .. m : new[i] = old[i], new[m + 1] = x
  PROVE  new = Append(old, x)
<1>1. old \in Seq(Nat) /\ Len(old) = m
  BY AFunctionIsASeq
<1>2. PICK n \in Nat : n = m + 1
  OBVIOUS
<1>3. new \in [1 .. n -> Nat]
  BY <1>2
<1>4. new \in Seq(Nat) /\ Len(new) = n
  BY <1>3, AFunctionIsASeq
<1>5. PICK app : app = Append(old, x)
  OBVIOUS
<1>6. app \in Seq(Nat) /\ Len(app) = m + 1 /\ \A i \in 1 .. m : app[i] = old[i]
  BY <1>1, <1>5, AppendProperties
<1>7. app[m + 1] = x
  BY <1>1, <1>5, AppendProperties
<1>8. \A i \in 1 .. n : new[i] = app[i]
  BY <1>2, <1>6, <1>7
<1>9. new = app
  BY <1>2, <1>4, <1>6, <1>8, SeqEqual
<1> QED BY <1>5, <1>9

(* a packet that is handed up *)
LEMMA ForwardedKeeps ==
  ASSUME IInv, ~reused, InAir, air' = Control("ack"), UNCHANGED <<Sender, waiting, Bounds>>,
         last' = air.control, frag < FragSpace,
         ~defragmenting', defragmenting' \in BOOLEAN, ~air.more,
         fragments' = << >>, NEW ps \in Seq(Pieces), Fragments(ps, Now, FragmentCount(Now)),
         delivered' = Append(delivered, ps), Now \notin Delivered, ~Stuck
  PROVE  /\ KnownInv'
         /\ Numbers' = Append(Numbers, Now)
         /\ \A i \in DOMAIN delivered : Numbers[i] \in Nat /\ Numbers[i] < Now
<1>1. TypeOK /\ FragmentInv /\ ProgressInv /\ DeliveredInv /\ AckedInv
  BY DEF IInv, KnownInv
<1>2. /\ Now # 0 /\ Now \in 1 .. sent /\ Now \in 1 .. Len(size) /\ frag \in Nat
      /\ ~(frag + 1 < FragmentCount(Now)) /\ frag < FragmentCount(Now)
      /\ FragmentCount(Now) \in Nat \ {0}
      /\ last' = [seq |-> seq, frag |-> frag]
      /\ last' \in [seq: 0 .. SeqSpace - 1, frag: 0 .. FragSpace - 1]
  BY AirData
<1>3. last'.seq = seq /\ last'.frag = frag /\ frag + 1 = FragmentCount(Now)
  BY <1>2
<1>4. /\ delivered \in Seq(Seq(Pieces)) /\ Len(delivered) \in Nat
      /\ DOMAIN delivered = 1 .. Len(delivered)
      /\ delivered' \in Seq(Seq(Pieces)) /\ fragments' \in Seq(Pieces)
      /\ DOMAIN delivered' = 1 .. Len(delivered) + 1
      /\ \A i \in 1 .. Len(delivered) : delivered'[i] = delivered[i]
      /\ delivered'[Len(delivered) + 1] = ps
  <2>1. delivered \in Seq(Seq(Pieces))
    BY <1>1 DEF TypeOK
  <2>2. /\ delivered' \in Seq(Seq(Pieces)) /\ Len(delivered') = Len(delivered) + 1
        /\ \A i \in 1 .. Len(delivered) : delivered'[i] = delivered[i]
        /\ delivered'[Len(delivered) + 1] = ps
    BY <2>1, AppendProperties
  <2>3. /\ Len(delivered) \in Nat /\ DOMAIN delivered = 1 .. Len(delivered)
        /\ DOMAIN delivered' = 1 .. Len(delivered')
    BY <2>1, <2>2, LenProperties
  <2>4. fragments' \in Seq(Pieces)
    BY EmptySeq
  <2> QED BY <2>1, <2>2, <2>3, <2>4
<1>5. /\ Now' \in {0, Now} /\ (Now' # 0 => waiting' = "ack") /\ air'.kind = "ack"
      /\ UNCHANGED <<size, sent, current, seq, retry, frag, acked>>
  BY <1>2, <1>4, Answered
<1>6. ps[1].packet = Now
  <2>1. ps[1] = Piece(Now, 1 - 1)
    BY <1>2 DEF Fragments
  <2> QED BY <2>1, FrameFacts
<1>7. \A i \in DOMAIN delivered : Numbers[i] \in Nat /\ Numbers[i] < Now
  <2> SUFFICES ASSUME NEW i \in DOMAIN delivered PROVE Numbers[i] \in Nat /\ Numbers[i] < Now
    OBVIOUS
  <2>1. PICK p \in 1 .. sent : Fragments(delivered[i], p, FragmentCount(p)) /\ p <= Now
    BY <1>1, <1>2 DEF DeliveredInv
  <2>2. p \in 1 .. Len(size) /\ sent \in Nat
    BY <1>1, Values
  <2>3. FragmentCount(p) \in Nat \ {0}
    BY <2>2, <1>1, Counts
  <2>4. delivered[i][1] = Piece(p, 1 - 1)
    BY <2>1, <2>3 DEF Fragments
  <2>5. delivered[i][1].packet = p
    BY <2>4, FrameFacts
  <2>6. p \in Delivered
    BY <2>5 DEF Delivered
  <2> QED BY <2>1, <2>2, <2>5, <2>6, <1>2 DEF Numbers
<1>8. PICK m \in Nat : m = Len(delivered)
  BY <1>4
<1>9. PICK new : new = Numbers'
  OBVIOUS
<1>10. /\ DOMAIN new = 1 .. m + 1 /\ new[m + 1] = Now /\ \A i \in 1 .. m : new[i] = Numbers[i]
       /\ new = [i \in 1 .. m + 1 |-> new[i]]
  <2>1. new = [i \in 1 .. m + 1 |-> delivered'[i][1].packet]
    BY <1>4, <1>8, <1>9 DEF Numbers
  <2>2. Numbers = [i \in 1 .. m |-> delivered[i][1].packet]
    BY <1>4, <1>8 DEF Numbers
  <2> QED BY <2>1, <2>2, <1>4, <1>6, <1>8
<1>11. Delivered' = Delivered \cup {Now}
  BY <1>4, <1>6 DEF Delivered
<1>12. Numbers' = Append(Numbers, Now)
  <2>1. PICK old : old = Numbers
    OBVIOUS
  <2>2. DOMAIN old = 1 .. m /\ old = [i \in 1 .. m |-> old[i]] /\ \A i \in 1 .. m : new[i] = old[i]
    BY <2>1, <1>4, <1>8, <1>10 DEF Numbers
  <2>3. \A i \in 1 .. m : old[i] \in Nat
    BY <2>1, <1>4, <1>7, <1>8
  <2>4. old \in [1 .. m -> Nat]
    BY <2>2, <2>3
  <2>5. Now \in Nat /\ new[m + 1] = Now
    BY <1>2, <1>10
  <2>6. ASSUME NEW i \in 1 .. m + 1 PROVE new[i] \in Nat
    <3>1. i = m + 1 \/ i \in 1 .. m
      OBVIOUS
    <3> QED BY <3>1, <2>2, <2>3, <2>5
  <2>7. new = [i \in 1 .. m + 1 |-> new[i]]
    BY <1>10
  <2>8. new \in [1 .. m + 1 -> Nat]
    BY <2>6, <2>7
  <2>9. new = Append(old, Now)
    BY <2>2, <2>4, <2>5, <2>8, OneMore
  <2> QED BY <2>1, <2>9, <1>9
<1>13. FragmentInv'
  BY DEF FragmentInv
<1>14. DeliveredInv'
  <2>1. ASSUME NEW i \in DOMAIN delivered'
        PROVE  \E p \in 1 .. sent' : /\ Fragments(delivered'[i], p, FragmentCount(p))
                                     /\ (Now' # 0 => p <= Now')
    <3>1. CASE i \in 1 .. Len(delivered)
      BY <3>1, <1>1, <1>2, <1>4, <1>5 DEF DeliveredInv
    <3>2. CASE i = Len(delivered) + 1
      BY <3>2, <1>2, <1>4, <1>5
    <3>3. i \in 1 .. m + 1
      BY <2>1, <1>4, <1>8
    <3>4. i \in 1 .. m \/ i = m + 1
      BY <3>3
    <3> QED BY <3>1, <3>2, <3>4, <1>8
  <2>2. \A i \in DOMAIN delivered' :
           \E p \in 1 .. sent' : /\ Fragments(delivered[i], p, FragmentCount(p))'
                                 /\ (Now' # 0 => p <= Now')
    BY <2>1, <1>5, SameSize DEF Fragments
  <2>3. ASSUME NEW i \in 1 .. m + 1, NEW j \in 1 .. m + 1, i < j PROVE new[i] < new[j]
    <3>1. i \in 1 .. m /\ i \in DOMAIN delivered
      BY <2>3, <1>4, <1>8
    <3>2. CASE j = m + 1
      <4>1. Numbers[i] < Now
        BY <3>1, <1>7
      <4>2. new[i] = Numbers[i] /\ new[j] = Now
        BY <3>1, <3>2, <1>10
      <4> QED BY <4>1, <4>2
    <3>3. CASE j # m + 1
      <4>1. j \in 1 .. m /\ j \in DOMAIN delivered
        BY <3>3, <1>4, <1>8
      <4>2. Numbers[i] < Numbers[j]
        BY <2>3, <3>1, <4>1, <1>1 DEF DeliveredInv
      <4>3. new[i] = Numbers[i] /\ new[j] = Numbers[j]
        BY <3>1, <4>1, <1>10
      <4> QED BY <4>2, <4>3
    <3> QED BY <3>2, <3>3
  <2>4. DOMAIN delivered' = 1 .. m + 1
    BY <1>4, <1>8
  <2>5. \A i, j \in DOMAIN delivered' : i < j => Numbers'[i] < Numbers'[j]
    BY <2>3, <2>4, <1>9
  <2> QED BY <2>2, <2>5 DEF DeliveredInv
<1>15. ProgressInv'
  <2>1. Recorded' /\ last'.seq = seq' /\ last'.frag = frag'
    BY <1>3, <1>5 DEF Recorded
  <2>2. Now' # 0 => frag' + 1 = FragmentCount(Now)' /\ Now' \in Delivered'
    BY <1>3, <1>5, <1>11, SameSize
  <2> QED BY <2>1, <2>2, <1>5 DEF ProgressInv
<1>16. AckedInv'
  <2>1. \A p \in acked : p \in Delivered /\ p <= sent /\ p < Now
    BY <1>1, <1>2, AckedBefore
  <2> QED BY <2>1, <1>5, <1>11 DEF AckedInv
<1> QED BY <1>7, <1>12, <1>13, <1>14, <1>15, <1>16 DEF KnownInv

(* a group frame passes the receiver without a trace *)
LEMMA GroupHeard ==
  ASSUME IInv, Receive, ~InAir
  PROVE  UNCHANGED Receiver /\ air' = Silence
<1>1. TypeOK /\ FrameInv
  BY DEF IInv
<1>2. PICK s \in 0 .. SeqSpace - 1 : air = GroupFrame(s)
  BY <1>1 DEF Receive, FrameInv
<1>3. air.group /\ ~air.more /\ ~air.retry /\ air.control = SeqControl(s, 0)
  BY <1>2 DEF GroupFrame
<1>4. ~IsDuplicate(air) /\ air' = Silence
  BY <1>3 DEF Receive, IsDuplicate
<1>5. air.control.frag = 0
  <2>1. 0 < FragSpace /\ 0 \in Nat
    BY LimitAssumption
  <2>2. SeqControl(s, 0) = [seq |-> s, frag |-> 0]
    BY <2>1, ControlFacts
  <2> QED BY <2>2, <1>3
<1>6. ~IsNextFragment(air)
  <2>1. last.frag \in Nat
    BY <1>1, Values
  <2> QED BY <2>1, <1>5 DEF IsNextFragment
<1>7. UNCHANGED Receiver
  BY <1>3, <1>4, <1>6 DEF Receive, HandleFragments, Receiver, Remembered
<1> QED BY <1>4, <1>7

(* a frame changes the receiver to another of its states, and nothing else *)
LEMMA ReceivedTypes ==
  ASSUME IInv, Receive, InAir
  PROVE  /\ TypeOK' /\ FrameInv' /\ TriesInv' /\ reused' = reused
         /\ air' = Control("ack") /\ UNCHANGED <<Sender, waiting, Bounds>>
<1>1. TypeOK
  BY DEF IInv
<1>2. /\ air.piece \in Pieces /\ ~air.group /\ air.more \in BOOLEAN
      /\ air.control \in [seq: 0 .. SeqSpace - 1, frag: 0 .. FragSpace - 1]
  BY AirData
<1>3. air' = Control("ack") /\ UNCHANGED <<Sender, waiting, Bounds>>
  BY <1>2 DEF Receive
<1>4. /\ last \in [seq: 0 .. SeqSpace - 1, frag: 0 .. FragSpace - 1]
      /\ defragmenting \in BOOLEAN /\ fragments \in Seq(Pieces) /\ delivered \in Seq(Seq(Pieces))
  BY <1>1 DEF TypeOK
<1>5. PICK fs, e : fs = fragments /\ e = air.piece
  OBVIOUS
<1>6. Append(fs, e) \in Seq(Pieces) /\ << >> \in Seq(Pieces) /\ <<e>> \in Seq(Pieces)
  BY <1>2, <1>4, <1>5, AppendProperties, EmptySeq
<1>7. /\ Append(delivered, Append(fragments, air.piece)) \in Seq(Seq(Pieces))
      /\ Append(delivered, <<air.piece>>) \in Seq(Seq(Pieces))
  BY <1>4, <1>5, <1>6, AppendProperties
<1>8. CASE UNCHANGED Receiver
  <2>1. UNCHANGED <<last, defragmenting, fragments, delivered>>
    BY <1>8 DEF Receiver
  <2> QED BY <2>1, <1>3, <1>4, Answered
<1>9. CASE HandleFragments(air)
  <2>1. last' \in {last, air.control}
    BY <1>2, <1>9 DEF HandleFragments, Receiver, Remembered
  <2>2. defragmenting' \in {defragmenting, air.more, TRUE}
    BY <1>9 DEF HandleFragments, Receiver
  <2>3. fragments' \in {fragments, << >>, Append(fragments, air.piece)}
    BY <1>9 DEF HandleFragments, Receiver
  <2>4. delivered' \in {delivered, Append(delivered, Append(fragments, air.piece)),
                        Append(delivered, <<air.piece>>)}
    BY <1>9 DEF HandleFragments, Receiver
  <2>5. last' \in [seq: 0 .. SeqSpace - 1, frag: 0 .. FragSpace - 1]
    BY <2>1, <1>2, <1>4
  <2>6. defragmenting' \in BOOLEAN
    BY <2>2, <1>2, <1>4
  <2>7. fragments' \in Seq(Pieces) /\ delivered' \in Seq(Seq(Pieces))
    BY <2>3, <2>4, <1>4, <1>5, <1>6, <1>7
  <2> QED BY <2>5, <2>6, <2>7, <1>3, Answered
<1> QED BY <1>8, <1>9 DEF Receive

(* what the receiver makes of a frame tells how far it has come *)
LEMMA Expected ==
  ASSUME IInv, ~reused, InAir
  PROVE  /\ IsDuplicate(air) => Recorded \/ Stuck
         /\ defragmenting /\ ~IsNextFragment(air) => Recorded \/ Stuck
         /\ defragmenting /\ IsNextFragment(air) =>
               frag < FragSpace /\ last.seq = seq /\ frag = last.frag + 1 /\ Now \notin Delivered /\ ~Stuck
         /\ ~defragmenting /\ ~IsDuplicate(air) =>
               frag = 0 /\ frag < FragSpace /\ Now \notin Delivered /\ ~Stuck
<1>1. TypeOK /\ FrameInv /\ ProgressInv
  BY DEF IInv, KnownInv
<1>2. /\ Now # 0 /\ frag \in Nat /\ FragSpace \in Nat \ {0}
      /\ (air.retry <=> retry) /\ air.control.seq \in NumbersOnAir(Now, seq)
      /\ air.control \in [seq: 0 .. SeqSpace - 1, frag: 0 .. FragSpace - 1]
      /\ air.control.frag < FragSpace
      /\ frag < FragSpace => air.control = [seq |-> seq, frag |-> frag]
  BY AirData
<1>3. /\ last.frag \in Nat /\ last.frag < FragSpace
      /\ last \in [seq: 0 .. SeqSpace - 1, frag: 0 .. FragSpace - 1]
  BY <1>1, Values
<1>4. /\ last.seq # seq => last.seq # air.control.seq
      /\ last.seq = seq => \/ last.frag = frag
                           \/ (last.frag + 1 = frag /\ defragmenting)
                           \/ Exhausted
      /\ last.seq # seq /\ frag > 0 => defragmenting
      /\ Now \in Delivered => Recorded /\ ~defragmenting
  BY <1>1, <1>2 DEF ProgressInv
<1>5. Recorded => retry \/ Exhausted
  <2>1. waiting # "sifs" /\ ~(waiting = "ack" /\ air.kind # "data")
    BY <1>1 DEF FrameInv, Silence, InAir
  <2> QED BY <2>1, <1>1, <1>2 DEF ProgressInv
<1>6. frag < FragSpace => air.control.seq = seq /\ air.control.frag = frag
  BY <1>2
<1>7. last.seq = seq /\ ~(frag < FragSpace) => Exhausted
  BY <1>2, <1>3, <1>4 DEF Exhausted
<1>8. IsDuplicate(air) => Recorded \/ Stuck
  BY <1>4, <1>6, <1>7 DEF IsDuplicate, Recorded, Stuck
<1>9. defragmenting /\ ~IsNextFragment(air) => Recorded \/ Stuck
  BY <1>2, <1>3, <1>4, <1>6, <1>7 DEF IsNextFragment, Recorded, Stuck
<1>10. ASSUME defragmenting, IsNextFragment(air)
       PROVE  /\ frag < FragSpace /\ last.seq = seq /\ frag = last.frag + 1
              /\ Now \notin Delivered /\ ~Stuck
  <2>1. last.seq = seq /\ air.control.frag = last.frag + 1
    BY <1>4, <1>10 DEF IsNextFragment
  <2>2. ~Exhausted
    BY <2>1, <1>2, <1>3 DEF Exhausted
  <2> QED BY <2>1, <2>2, <1>4, <1>6, <1>7, <1>10 DEF Stuck
<1>11. ASSUME ~defragmenting, ~IsDuplicate(air)
       PROVE  frag = 0 /\ frag < FragSpace /\ Now \notin Delivered /\ ~Stuck
  <2>1. ~Exhausted /\ ~Stuck
    BY <1>11 DEF Exhausted, Stuck
  <2>2. ~Recorded
    <3> SUFFICES ASSUME Recorded PROVE FALSE
      OBVIOUS
    <3>1. retry /\ last.seq = seq /\ last.frag = frag
      BY <2>1, <1>5 DEF Recorded
    <3>2. last = air.control
      BY <3>1, <1>2, <1>3, <1>6
    <3> QED BY <3>1, <3>2, <1>2, <1>11 DEF IsDuplicate
  <2>3. last.seq # seq
    BY <2>1, <2>2, <1>4, <1>11 DEF Recorded
  <2>4. frag = 0
    BY <2>3, <1>2, <1>4, <1>11
  <2> QED BY <2>1, <2>2, <2>4, <1>2, <1>4
<1> QED BY <1>8, <1>9, <1>10, <1>11

(* what a frame does to the packets handed up *)
HandsUp == \/ Numbers' = Numbers
           \/ \E p \in 1 .. Len(size) :
                 /\ Numbers' = Append(Numbers, p)
                 /\ \A i \in DOMAIN delivered : Numbers[i] \in Nat /\ Numbers[i] < p

(* while no number has been reused, a frame is a repetition, the first of a  *)
(* packet or the fragment that the receiver waits for; or it is discarded    *)
LEMMA ReceivedKnown ==
  ASSUME IInv, Receive, InAir, ~reused
  PROVE  KnownInv' /\ HandsUp
<1>1. TypeOK /\ FragmentInv
  BY DEF IInv, KnownInv
<1>2. air' = Control("ack") /\ UNCHANGED <<Sender, waiting, Bounds>>
  BY ReceivedTypes
<1>3. delivered' = delivered => Numbers' = Numbers
  BY DEF Numbers
<1>4. /\ Now # 0 /\ Now \in 1 .. Len(size) /\ frag \in Nat /\ FragmentCount(Now) \in Nat \ {0}
      /\ frag < FragmentCount(Now) /\ air.piece = Piece(Now, frag) /\ air.piece \in Pieces
      /\ ~air.group /\ (air.more <=> frag + 1 < FragmentCount(Now))
  BY AirData
<1>5. fragments \in Seq(Pieces) /\ defragmenting \in BOOLEAN /\ last.frag \in Nat
  BY <1>1, Values DEF TypeOK
<1>6. CASE UNCHANGED Receiver /\ (Recorded \/ Stuck)
  <2>1. delivered' = delivered
    BY <1>6 DEF Receiver
  <2> QED BY <2>1, <1>2, <1>3, <1>6, DiscardedKeeps DEF HandsUp
<1>7. ASSUME last' = air.control, frag < FragSpace, defragmenting' = TRUE, delivered' = delivered,
             air.more, fragments' \in Seq(Pieces), Fragments(fragments', Now, frag + 1),
             Now \notin Delivered, ~Stuck
      PROVE  KnownInv' /\ HandsUp
  BY <1>2, <1>3, <1>7, HeldKeeps DEF HandsUp
<1>8. ASSUME NEW ps \in Seq(Pieces), last' = air.control, frag < FragSpace, defragmenting' = FALSE,
             ~air.more, fragments' = << >>, Fragments(ps, Now, FragmentCount(Now)),
             delivered' = Append(delivered, ps), Now \notin Delivered, ~Stuck
      PROVE  KnownInv' /\ HandsUp
  <2>1. /\ KnownInv' /\ Numbers' = Append(Numbers, Now)
        /\ \A i \in DOMAIN delivered : Numbers[i] \in Nat /\ Numbers[i] < Now
    BY <1>2, <1>8, ForwardedKeeps
  <2> QED BY <2>1, <1>4 DEF HandsUp
<1>9. CASE IsDuplicate(air)
  <2>1. UNCHANGED Receiver
    BY <1>9 DEF Receive
  <2> QED BY <2>1, <1>6, <1>9, Expected
<1>10. CASE ~IsDuplicate(air) /\ defragmenting /\ ~IsNextFragment(air)
  <2>1. UNCHANGED Receiver
    BY <1>10 DEF Receive, HandleFragments
  <2> QED BY <2>1, <1>6, <1>10, Expected
<1>11. CASE ~IsDuplicate(air) /\ defragmenting /\ IsNextFragment(air)
  <2>1. frag < FragSpace /\ last.seq = seq /\ frag = last.frag + 1 /\ Now \notin Delivered /\ ~Stuck
    BY <1>11, Expected
  <2>2. Fragments(fragments, Now, frag)
    BY <2>1, <1>4, <1>11, <1>1 DEF FragmentInv
  <2>3. /\ Fragments(Append(fragments, air.piece), Now, frag + 1)
        /\ Append(fragments, air.piece) \in Seq(Pieces)
    <3>1. PICK fs, e, n : fs = fragments /\ e = air.piece /\ n = frag
      OBVIOUS
    <3>2. fs \in Seq(Pieces) /\ e \in Pieces /\ n \in Nat /\ Len(fs) = n
          /\ \A j \in 1 .. n : fs[j] = Piece(Now, j - 1)
      BY <3>1, <2>2, <1>4, <1>5 DEF Fragments
    <3>3. /\ Append(fs, e) \in Seq(Pieces) /\ Len(Append(fs, e)) = n + 1
          /\ \A j \in 1 .. n : Append(fs, e)[j] = fs[j]
          /\ Append(fs, e)[n + 1] = e
      BY <3>2, AppendProperties
    <3>4. e = Piece(Now, (n + 1) - 1)
      BY <3>1, <3>2, <1>4
    <3>5. \A j \in 1 .. n + 1 : Append(fs, e)[j] = Piece(Now, j - 1)
      BY <3>2, <3>3, <3>4
    <3> QED BY <3>1, <3>3, <3>5 DEF Fragments
  <2>4. CASE air.more
    <3>1. last' = air.control /\ defragmenting' = TRUE /\ delivered' = delivered
          /\ fragments' = Append(fragments, air.piece)
      <4>1. HandleFragments(air)
        BY <1>11 DEF Receive
      <4>2. defragmenting' = air.more
        BY <4>1, <1>11 DEF HandleFragments
      <4>3. air.more = TRUE
        BY <2>4, AirData
      <4> QED BY <4>1, <4>2, <4>3, <2>4, <1>11 DEF HandleFragments
    <3> QED BY <3>1, <2>1, <2>3, <2>4, <1>7
  <2>5. CASE ~air.more
    <3>1. last' = air.control /\ defragmenting' = FALSE /\ fragments' = << >>
          /\ delivered' = Append(delivered, Append(fragments, air.piece))
      <4>1. HandleFragments(air)
        BY <1>11 DEF Receive
      <4>2. defragmenting' = air.more
        BY <4>1, <1>11 DEF HandleFragments
      <4>3. air.more = FALSE
        BY <2>5, AirData
      <4> QED BY <4>1, <4>2, <4>3, <2>5, <1>11 DEF HandleFragments
    <3>2. FragmentCount(Now) = frag + 1
      BY <2>5, <1>4
    <3> QED BY <3>1, <3>2, <2>1, <2>3, <2>5, <1>8
  <2> QED BY <2>4, <2>5
<1>12. CASE ~IsDuplicate(air) /\ ~defragmenting
  <2>1. frag = 0 /\ frag < FragSpace /\ Now \notin Delivered /\ ~Stuck
    BY <1>12, Expected
  <2>2. fragments = << >>
    BY <1>12, <1>1 DEF FragmentInv
  <2>3. Fragments(<<air.piece>>, Now, 1) /\ <<air.piece>> \in Seq(Pieces)
    BY <2>1, <1>4 DEF Fragments
  <2>4. CASE air.more
    <3>1. last' = air.control /\ defragmenting' = TRUE /\ delivered' = delivered
          /\ fragments' = Append(fragments, air.piece)
      BY <2>4, <1>12 DEF Receive, HandleFragments
    <3>2. fragments' = <<air.piece>>
      BY <3>1, <2>2
    <3>3. Fragments(fragments', Now, frag + 1)
      BY <3>2, <2>1, <2>3
    <3> QED BY <3>1, <3>2, <3>3, <2>1, <2>3, <2>4, <1>7
  <2>5. CASE ~air.more
    <3>1. /\ delivered' = Append(delivered, <<air.piece>>) /\ fragments' = << >>
          /\ defragmenting' = defragmenting /\ last' = air.control
      BY <2>2, <2>5, <1>4, <1>12 DEF Receive, HandleFragments, Remembered
    <3>2. defragmenting' = FALSE
      BY <3>1, <1>5, <1>12
    <3>3. FragmentCount(Now) = 1
      BY <2>1, <2>5, <1>4
    <3> QED BY <3>1, <3>2, <3>3, <2>1, <2>3, <2>5, <1>8
  <2> QED BY <2>4, <2>5
<1> QED BY <1>9, <1>10, <1>11, <1>12

LEMMA ReceiveKeeps ==
  ASSUME IInv, Receive
  PROVE  IInv' /\ (~reused => HandsUp)
<1>1. CASE ~InAir
  <2>1. UNCHANGED Receiver /\ air' = Silence /\ air # Silence /\ UNCHANGED <<Sender, waiting, Bounds>>
    BY <1>1, GroupHeard DEF Silence, Receive
  <2>2. Numbers' = Numbers
    BY <2>1 DEF Receiver, Numbers
  <2> QED BY <2>1, <2>2, SilenceKeeps DEF HandsUp
<1>2. CASE InAir
  <2>1. TypeOK' /\ FrameInv' /\ TriesInv' /\ reused' = reused
    BY <1>2, ReceivedTypes
  <2>2. ~reused => KnownInv' /\ HandsUp
    BY <1>2, ReceivedKnown
  <2> QED BY <2>1, <2>2, Assembled
<1> QED BY <1>1, <1>2

-----------------------------------------------------------------------------
(* The theorems about packets *)

LEMMA InitHolds ==
  ASSUME Init
  PROVE  IInv
<1>1. /\ MaxSsrc \in Nat \ {0} /\ MaxSlrc \in Nat \ {0} /\ SeqSpace \in Nat \ {0}
      /\ FragSpace \in Nat \ {0} /\ MaxPackets \in Nat /\ MaxBeacons \in Nat
      /\ MaxBroadcasts \in Nat /\ MaxSwitches \in Nat
  BY LimitAssumption
<1>2. /\ size = << >> /\ sent = 0 /\ current = 0 /\ seq = 0 /\ retry = FALSE /\ frag = 0
      /\ waiting = "none" /\ ssrc = 0 /\ slrc = 0 /\ sequence = 0
      /\ last = [seq |-> SeqSpace - 1, frag |-> FragSpace - 1]
      /\ defragmenting = FALSE /\ fragments = << >> /\ delivered = << >>
      /\ beacons = 0 /\ broadcasts = 0 /\ switches = 0
      /\ acked = {} /\ failed = {} /\ dropped = {} /\ reused = FALSE
      /\ tries = 0 /\ rtsTries = 0 /\ air.kind = "none"
  BY DEF Init, Silence
<1>3. Len(size) = 0 /\ size \in Seq(Sizes) /\ fragments \in Seq(Pieces)
      /\ delivered \in Seq(Seq(Pieces)) /\ DOMAIN delivered = {}
  BY <1>2
<1>4. TypeOK
  <2>1. last \in [seq: 0 .. SeqSpace - 1, frag: 0 .. FragSpace - 1]
    BY <1>1, <1>2
  <2>2. seq \in 0 .. SeqSpace - 1 /\ sequence \in 0 .. SeqSpace - 1
        /\ ssrc \in 0 .. MaxSsrc - 1 /\ slrc \in 0 .. MaxSlrc - 1
        /\ beacons \in 0 .. MaxBeacons /\ broadcasts \in 0 .. MaxBroadcasts
        /\ switches \in 0 .. MaxSwitches /\ frag \in 0 .. 16 * FragSpace - 1
    BY <1>1, <1>2
  <2>3. sent \in 0 .. Len(size) /\ current \in 0 .. sent
    BY <1>2, <1>3
  <2> QED BY <2>1, <2>2, <2>3, <1>2, <1>3 DEF TypeOK
<1>5. ~InAir /\ Now = 0
  BY <1>2 DEF InAir, Now
<1>6. FrameInv
  BY <1>2, <1>5 DEF FrameInv
<1>7. KnownInv
  BY <1>2, <1>3, <1>5 DEF KnownInv, FragmentInv, ProgressInv, DeliveredInv, AckedInv
<1>8. TriesInv
  BY <1>1, <1>2 DEF TriesInv
<1> QED BY <1>4, <1>6, <1>7, <1>8 DEF IInv

LEMMA StutterKeeps ==
  ASSUME IInv, UNCHANGED vars
  PROVE  IInv'
<1>1. TypeOK /\ FrameInv /\ TriesInv
  BY DEF IInv
<1>2. UNCHANGED <<size, sent, current, seq, retry, frag, waiting, ssrc, slrc, sequence, air, last,
                  defragmenting, fragments, beacons, broadcasts, switches, delivered, acked,
                  failed, dropped, reused, tries, rtsTries>>
  BY DEF vars, Sender, Receiver, Bounds, Header, Fates, Tries
<1>3. Now' = Now /\ (InAir' <=> InAir) /\ Recorded' = Recorded
  BY <1>2 DEF Now, InAir, Recorded
<1>4. sent' \in Nat /\ sent <= sent'
  BY <1>1, <1>2, Values
<1>5. TypeOK'
  BY <1>1, <1>2 DEF TypeOK, Packets, Pieces
<1>6. FrameInv'
  <2>1. InAir' => \E r \in 1 .. sent' : air' = DataFrame(r, seq, frag, retry)' /\ current' \in {0, r}
    BY <1>1, <1>2, <1>3, SameSize DEF FrameInv
  <2>2. air'.kind = "data" => InAir' \/ \E s \in 0 .. SeqSpace - 1 : air' = GroupFrame(s)'
    BY <1>1, <1>2, <1>3, GroupFacts DEF FrameInv
  <2>3. Now' # 0 => frag' < FragmentCount(Now)'
    BY <1>1, <1>2, <1>3, SameSize DEF FrameInv
  <2>4. waiting' = "sifs" => air' = Silence /\ frag' + 1 < FragmentCount(current)'
    BY <1>1, <1>2, SameSize DEF FrameInv
  <2> QED BY <2>1, <2>2, <2>3, <2>4, <1>1, <1>2, <1>3 DEF FrameInv
<1>7. TriesInv'
  BY <1>1, <1>2 DEF TriesInv
<1>8. ASSUME ~reused PROVE KnownInv'
  <2>1. KnownInv /\ ProgressInv
    BY <1>8 DEF IInv, KnownInv
  <2>2. /\ FragmentInv' /\ DeliveredInv' /\ Delivered' = Delivered
        /\ Stuck' = Stuck /\ Exhausted' = Exhausted /\ AckedInv'
    BY <2>1, <1>1, <1>2, <1>3, <1>4, ReceiverKept DEF Receiver
  <2>3. ProgressInv'
    BY <2>1, <2>2, <1>2, <1>3, SameSize DEF ProgressInv
  <2> QED BY <2>2, <2>3 DEF KnownInv
<1> QED BY <1>2, <1>5, <1>6, <1>7, <1>8, Assembled

LEMMA NextKeeps ==
  ASSUME IInv, [Next]_vars
  PROVE  IInv'
<1>1. CASE Queue
  BY <1>1, QueueKeeps
<1>2. CASE NotifyAccessGranted
  BY <1>2, AccessKeeps
<1>3. CASE GotCts
  BY <1>3, GotCtsKeeps
<1>4. CASE MissedCts
  BY <1>4, MissedCtsKeeps
<1>5. CASE GotAck
  BY <1>5, GotAckKeeps
<1>6. CASE StartNext
  BY <1>6, StartNextKeeps
<1>7. CASE MissedAck
  BY <1>7, MissedAckKeeps
<1>8. CASE BeaconGranted
  BY <1>8, BeaconKeeps
<1>9. CASE SwitchChannel
  BY <1>9, SwitchChannelKeeps
<1>10. CASE Lose
  BY <1>10, SilenceKeeps DEF Lose
<1>11. CASE SendCtsAfterRts
  <2>1. air # Silence
    BY <1>11 DEF SendCtsAfterRts, Silence
  <2> QED BY <1>11, <2>1, SilenceKeeps DEF SendCtsAfterRts
<1>12. CASE Receive
  BY <1>12, ReceiveKeeps
<1>13. CASE BroadcastGranted
  BY <1>13, BroadcastKeeps
<1>14. CASE UNCHANGED vars
  BY <1>14, StutterKeeps
<1> QED BY <1>1, <1>2, <1>3, <1>4, <1>5, <1>6, <1>7, <1>8, <1>9, <1>10, <1>11, <1>12, <1>13, <1>14
        DEF Next, Exchange, Channel

(* The invariant: however frames are lost, the sender's packet and what is   *)
(* on the air fit each other; and what the receiver has put together fits    *)
(* them until a number is reused.                                            *)
THEOREM Invariance == Spec => []IInv
<1>1. Init => IInv
  BY InitHolds
<1>2. IInv /\ [Next]_vars => IInv'
  BY NextKeeps
<1> QED BY <1>1, <1>2, PTL DEF Spec

(* No fragment is sent more often than MaxSlrc allows, and no RTS more often *)
(* than MaxSsrc between two CTS, whatever the packets before left behind in  *)
(* the peer's counters: TxFailed and NeedDataRetransmission keep them in     *)
(* step.  No number needs to be fresh for this.                              *)
THEOREM TriesLimited == Spec => []TriesBounded
<1>1. IInv => TriesBounded
  BY DEF IInv, TriesInv, TriesBounded
<1> QED BY <1>1, Invariance, PTL

LEMMA Division ==
  ASSUME NEW a \in Nat, NEW b \in Nat, b > 0
  PROVE  (a \div b) * b + (a % b) = a
<1>1. b * (a \div b) + (a % b) = a
  OBVIOUS
<1>2. \A m, n \in Int : m * n = n * m
  OBVIOUS
<1>3. a \div b \in Int
  OBVIOUS
<1> QED BY <1>1, <1>2, <1>3

LEMMA NextMultiple ==
  ASSUME NEW n \in Nat, NEW b \in Nat
  PROVE  (n + 1) * b = n * b + b /\ 0 * b = 0
OBVIOUS

(* What HandleFragments hands up is a packet as it was queued, its          *)
(* fragments one after the other from the first byte to the last, until a    *)
(* number is reused; packets too long for the fragment numbers included.     *)
THEOREM PacketsIntact == Spec => []Intact
<1>1. ASSUME IInv, ~reused, NEW i \in DOMAIN delivered
      PROVE  WholePacket(delivered[i])
  <2>1. PICK ps : ps = delivered[i]
    OBVIOUS
  <2>2. TypeOK /\ DeliveredInv
    BY <1>1 DEF IInv, KnownInv
  <2>3. PICK p \in 1 .. sent : Fragments(ps, p, FragmentCount(p))
    BY <2>1, <2>2 DEF DeliveredInv
  <2>4. p \in 1 .. Len(size) /\ p # 0
    BY <2>2, Values
  <2>5. PICK n \in Nat \ {0} : n = FragmentCount(p)
    BY <2>2, <2>4, Counts
  <2>6. size[p] \in Nat /\ GetNFragments(p) \in Nat \ {0} /\ Threshold \in Nat \ {0}
    BY <2>2, <2>4, Counts, SizeAssumption
  <2>7. Len(ps) = n /\ \A j \in 1 .. n : ps[j] = Piece(p, j - 1)
    BY <2>3, <2>5 DEF Fragments
  <2>8. DOMAIN ps = 1 .. n
    <3>1. delivered \in Seq(Seq(Pieces))
      BY <2>2 DEF TypeOK
    <3>2. DOMAIN delivered = 1 .. Len(delivered)
      BY <3>1, LenProperties
    <3>3. ps \in Seq(Pieces)
      BY <3>1, <3>2, <2>1, ElementOfSeq
    <3> QED BY <3>3, <2>7, LenProperties
  <2>9. \A j \in 1 .. n : ps[j].packet = p
    BY <2>7, FrameFacts
  <2>10. ps[1] = Piece(p, 0)
    <3>1. ps[1] = Piece(p, 1 - 1)
      BY <2>7
    <3> QED BY <3>1
  <2>11. CASE ~NeedFragmentation(p)
    <3>1. n = 1
      BY <2>5, <2>11 DEF FragmentCount
    <3>2. ps[1].from = 0 /\ ps[1].length = size[p]
      BY <2>4, <2>10, <2>11 DEF Piece, Whole, Group
    <3> QED BY <3>1, <3>2, <2>1, <2>4, <2>6, <2>7, <2>8, <2>9 DEF Packets, WholePacket
  <2>12. CASE NeedFragmentation(p)
    <3>1. n = GetNFragments(p)
      BY <2>5, <2>12 DEF FragmentCount
    <3>2. \A j \in 1 .. n : /\ ps[j].from = (j - 1) * Threshold
                            /\ ps[j].length = IF j = n THEN size[p] % Threshold ELSE Threshold
      BY <3>1, <2>7, <2>12 DEF Piece, GetFragmentOffset, GetFragmentSize
    <3>3. ps[1].from = 0
      <4>1. ps[1].from = 0 * Threshold
        BY <3>2
      <4> QED BY <4>1, <2>6, NextMultiple
    <3>4. ASSUME NEW j \in 1 .. n - 1 PROVE ps[j + 1].from = ps[j].from + ps[j].length
      <4>1. j \in 1 .. n /\ j + 1 \in 1 .. n /\ j # n /\ j - 1 \in Nat
        OBVIOUS
      <4>2. ps[j + 1].from = ((j + 1) - 1) * Threshold /\ ps[j].from = (j - 1) * Threshold
            /\ ps[j].length = Threshold
        BY <4>1, <3>2
      <4>3. ((j - 1) + 1) * Threshold = (j - 1) * Threshold + Threshold
        BY <4>1, <2>6, NextMultiple
      <4>4. (j + 1) - 1 = (j - 1) + 1
        OBVIOUS
      <4> QED BY <4>2, <4>3, <4>4
    <3>5. ps[n].from + ps[n].length = size[p]
      <4>1. ps[n].from = (n - 1) * Threshold /\ ps[n].length = size[p] % Threshold
        BY <3>2
      <4>2. n - 1 = size[p] \div Threshold
        BY <3>1, <2>6 DEF GetNFragments
      <4>3. (size[p] \div Threshold) * Threshold + (size[p] % Threshold) = size[p]
        <5>1. PICK a \in Nat : a = size[p]
          BY <2>6
        <5>2. Threshold \in Nat /\ Threshold > 0
          BY <2>6
        <5>3. (a \div Threshold) * Threshold + (a % Threshold) = a
          BY <5>2, Division
        <5> QED BY <5>1, <5>3
      <4> QED BY <4>1, <4>2, <4>3
    <3> QED BY <3>3, <3>4, <3>5, <2>1, <2>4, <2>7, <2>8, <2>9 DEF Packets, WholePacket
  <2> QED BY <2>11, <2>12
<1>2. IInv => Intact
  BY <1>1 DEF Intact
<1> QED BY <1>2, Invariance, PTL

(* TxOk is told only of packets that were handed up, until a number is reused *)
(* and except behind fragments of a packet that the sender gave up half-way, *)
(* or that has more of them than a header has numbers.                       *)
THEOREM AckedArrived == Spec => []AckedDelivered
<1>1. IInv => AckedDelivered
  BY DEF IInv, KnownInv, AckedInv, AckedDelivered
<1> QED BY <1>1, Invariance, PTL

-----------------------------------------------------------------------------
(* The refinement: queueing is the service's Accept, handing up its Deliver, *)
(* and every other step of the protocol leaves the service as it is.         *)

LEMMA StepsRefine ==
  ASSUME IInv, [Next]_vars
  PROVE  [reused' \/ Service!Next]_<<Len(size), Numbers>>
<1>1. TypeOK
  BY DEF IInv
<1>2. UNCHANGED <<size, delivered>> => UNCHANGED <<Len(size), Numbers>>
  BY DEF Numbers
<1>3. CASE Queue
  <2>1. PICK s \in Sizes : size' = Append(size, s)
    BY <1>3 DEF Queue
  <2>2. Len(size') = Len(size) + 1
    BY <2>1, <1>1, Values, GrownSize
  <2>3. Numbers' = Numbers
    BY <1>3 DEF Queue, Receiver, Numbers
  <2>4. Service!Accept
    BY <2>2, <2>3 DEF Service!Accept
  <2> QED BY <2>4 DEF Service!Next
<1>4. CASE Receive
  <2>1. (~reused => HandsUp) /\ size' = size /\ reused' = reused
    BY <1>4, ReceiveKeeps DEF Receive, Sender
  <2>2. CASE Numbers' = Numbers
    BY <2>1, <2>2
  <2>3. CASE reused
    BY <2>1, <2>3
  <2>4. CASE Numbers' # Numbers /\ ~reused
    <3>1. PICK p \in 1 .. Len(size) :
             /\ Numbers' = Append(Numbers, p)
             /\ \A i \in DOMAIN delivered : Numbers[i] \in Nat /\ Numbers[i] < p
      BY <2>1, <2>4 DEF HandsUp
    <3>2. Numbers # << >> => p > Numbers[Len(Numbers)]
      <4>1. delivered \in Seq(Seq(Pieces))
        BY <1>1 DEF TypeOK
      <4>2. Len(delivered) \in Nat /\ DOMAIN delivered = 1 .. Len(delivered)
        BY <4>1, LenProperties
      <4>3. DOMAIN Numbers = 1 .. Len(delivered)
        BY <4>2 DEF Numbers
      <4>4. Len(Numbers) = Len(delivered)
        BY <4>2, <4>3
      <4>5. Len(delivered) = 0 => Numbers = << >>
        BY <4>2 DEF Numbers
      <4>6. Len(delivered) # 0 => Len(Numbers) \in DOMAIN delivered
        BY <4>2, <4>4
      <4>7. Len(Numbers) \in DOMAIN delivered =>
               Numbers[Len(Numbers)] \in Nat /\ Numbers[Len(Numbers)] < p
        BY <3>1
      <4> QED BY <4>5, <4>6, <4>7
    <3>3. Service!Deliver
      BY <3>1, <3>2, <2>1 DEF Service!Deliver
    <3> QED BY <3>3 DEF Service!Next
  <2> QED BY <2>2, <2>3, <2>4
<1>5. CASE Exchange
  BY <1>2, <1>5 DEF Exchange, NotifyAccessGranted, GotCts, MissedCts, GotAck, StartNext, MissedAck,
     Receiver
<1>6. CASE BeaconGranted \/ BroadcastGranted \/ SwitchChannel
  BY <1>2, <1>6 DEF BeaconGranted, BroadcastGranted, SendGroup, SwitchChannel, Receiver
<1>7. CASE Lose \/ SendCtsAfterRts
  BY <1>2, <1>7 DEF Lose, SendCtsAfterRts, Sender, Receiver
<1>8. CASE UNCHANGED vars
  BY <1>2, <1>8 DEF vars, Sender, Receiver
<1> QED BY <1>3, <1>4, <1>5, <1>6, <1>7, <1>8 DEF Next, Channel

(* The hop gives the service of LinkService: what MacRxMiddle hands up is   *)
(* each packet at most once, in the order the packets were queued, up to the *)
(* first reuse of a number.                                                  *)
THEOREM Refinement == Spec => OnceInOrder
<1>1. Init => Service!Init
  <2> SUFFICES ASSUME Init PROVE Service!Init
    OBVIOUS
  <2>1. size = << >> /\ delivered = << >>
    BY DEF Init
  <2>2. Len(size) = 0 /\ Numbers = << >>
    BY <2>1 DEF Numbers
  <2> QED BY <2>2 DEF Service!Init
<1>2. IInv /\ [Next]_vars => [reused' \/ Service!Next]_<<Len(size), Numbers>>
  BY StepsRefine
<1> QED BY <1>1, <1>2, Invariance, PTL DEF Spec, OnceInOrder

====
