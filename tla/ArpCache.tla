------------------------------ MODULE ArpCache ------------------------------
(***************************************************************************)
(* The ARP cache of one interface with the ArpL3Protocol that looks up and *)
(* fills it: entries that are alive, dead or waiting for a reply with the  *)
(* packets that wait with them, and the one timer all of them share.       *)
(*                                                                         *)
(* Time is a count of ticks; an entry keeps its age, the ticks since       *)
(* m_lastSeen.  Packets are numbered in the order they are handed over.    *)
(* The hardware address a reply brings and the answers to the requests of  *)
(* other nodes, which change nothing here, are left out.                   *)
(***************************************************************************)
EXTENDS Integers, Sequences, SequencesExt

CONSTANTS Hosts,
          AliveTimeout, DeadTimeout, WaitReplyTimeout, MaxRetries, PendingQueueSize,
          MaxPackets, MaxFlaps   \* bounds of the run: packets, and interface and link changes

ASSUME TimeoutAssumption ==
    AliveTimeout \in Nat /\ DeadTimeout \in Nat /\ WaitReplyTimeout \in Nat \ {0}
ASSUME LimitAssumption == MaxRetries \in Nat /\ PendingQueueSize \in Nat
ASSUME BoundsAssumption == MaxPackets \in Nat /\ MaxFlaps \in Nat

VARIABLES up,        \* m_ifup of the interface
          entry,     \* m_arpCache
          timer,     \* ticks until m_waitReplyTimer fires
          air,       \* hosts whose reply may still come
          handed,    \* packets handed to Ipv4Interface::Send
          fate,      \* history: what became of each
          sent,      \* history: the packets the device got for each host
          waited,    \* history: ticks since MarkWaitReply, while the entry waits
          asked,     \* history: requests sent since MarkWaitReply, while the entry waits
          flaps,     \* interface and link changes
          aborted    \* an assertion failed, or NS_FATAL_ERROR was reached

vars == <<up, entry, timer, air, handed, fate, sent, waited, asked, flaps, aborted>>

Off == -1
Packets == 1 .. MaxPackets
LongestWait == (MaxRetries + 1) * WaitReplyTimeout
MaxAge == Max({AliveTimeout, DeadTimeout, WaitReplyTimeout}) + 1   \* ages are told apart up to it

Entry == [state: {"absent", "ALIVE", "WAIT_REPLY", "DEAD"}, age: 0 .. MaxAge,
          retries: 0 .. MaxRetries, pending: Seq(Packets)]
Fates == {"unseen", "waiting", "sent", "dropped", "lost"}
MostPending == IF PendingQueueSize = 0 THEN 1 ELSE PendingQueueSize

Absent == [state |-> "absent", age |-> 0, retries |-> 0, pending |-> << >>]

Init == /\ up = TRUE
        /\ entry = [h \in Hosts |-> Absent]
        /\ timer = Off
        /\ air = {}
        /\ handed = 0
        /\ fate = [p \in Packets |-> "unseen"]
        /\ sent = [h \in Hosts |-> << >>]
        /\ waited = [h \in Hosts |-> 0]
        /\ asked = [h \in Hosts |-> 0]
        /\ flaps = 0
        /\ aborted = FALSE

-----------------------------------------------------------------------------
(* Entries *)

IsWaitReply(h) == entry[h].state = "WAIT_REPLY"

GetTimeout(h) == CASE entry[h].state = "WAIT_REPLY" -> WaitReplyTimeout
                   [] entry[h].state = "DEAD" -> DeadTimeout
                   [] entry[h].state = "ALIVE" -> AliveTimeout

IsExpired(h) == entry[h].age > GetTimeout(h)

(* StartWaitReplyTimer *)
Restarted == WaitReplyTimeout
StartWaitReplyTimer == IF timer = Off THEN WaitReplyTimeout ELSE timer

SendArpRequest(hs) == air' = air \cup hs

(* MarkWaitReply and the request that follows it *)
MarkWaitReply(h, p) ==
    /\ aborted' = (entry[h].pending # << >>)
    /\ entry' = [entry EXCEPT ![h] = [state |-> "WAIT_REPLY", age |-> 0,
                                      retries |-> entry[h].retries,
                                      pending |-> Append(entry[h].pending, p)]]
    /\ timer' = StartWaitReplyTimer
    /\ SendArpRequest({h})
    /\ fate' = [fate EXCEPT ![p] = "waiting"]
    /\ waited' = [waited EXCEPT ![h] = 0]
    /\ asked' = [asked EXCEPT ![h] = 1]
    /\ UNCHANGED sent

(* the entry is waiting already: NS_FATAL_ERROR if it has expired, UpdateWaitReply if not *)
UpdateWaitReply(h, p) ==
    /\ aborted' = IsExpired(h)
    /\ IF Len(entry[h].pending) >= PendingQueueSize
       THEN /\ fate' = [fate EXCEPT ![p] = "dropped"]
            /\ UNCHANGED entry
       ELSE /\ fate' = [fate EXCEPT ![p] = "waiting"]
            /\ entry' = [entry EXCEPT ![h].pending = Append(@, p)]
    /\ UNCHANGED <<timer, air, sent, waited, asked>>

(* the device gets the packet *)
Transmit(h, p) ==
    /\ fate' = [fate EXCEPT ![p] = "sent"]
    /\ sent' = [sent EXCEPT ![h] = Append(@, p)]
    /\ UNCHANGED <<entry, timer, air, waited, asked, aborted>>

End(p, how) ==
    /\ fate' = [fate EXCEPT ![p] = how]
    /\ UNCHANGED <<entry, timer, air, sent, waited, asked, aborted>>

-----------------------------------------------------------------------------
(* ArpL3Protocol::Lookup *)
Lookup(h, p) ==
    \/ entry[h].state = "absent" /\ MarkWaitReply(h, p)
    \/ /\ entry[h].state \in {"ALIVE", "DEAD"} /\ IsExpired(h)
       /\ MarkWaitReply(h, p)
    \/ /\ entry[h].state = "DEAD" /\ ~IsExpired(h)
       /\ End(p, "dropped")
    \/ /\ entry[h].state = "ALIVE" /\ ~IsExpired(h)
       /\ Transmit(h, p)
    \/ IsWaitReply(h) /\ UpdateWaitReply(h, p)

(* Ipv4Interface::Send of a new packet: an interface that is down drops it unseen *)
Send(h) ==
    /\ handed < MaxPackets /\ ~aborted
    /\ handed' = handed + 1
    /\ IF up THEN Lookup(h, handed + 1) ELSE End(handed + 1, "lost")
    /\ UNCHANGED <<up, flaps>>

(* ArpL3Protocol::Receive of a reply.  The entry is alive and of age 0 when  *)
(* the packets that waited go through Ipv4Interface::Send again, so the      *)
(* lookup of each finds it.  The reply may arrive once more.                 *)
Newest(q) == Reverse(q)
DequeuePending(q) == q

ReceiveReply(h, again) ==
    /\ h \in air /\ ~aborted
    /\ air' = IF again THEN air ELSE air \ {h}
    /\ IF IsWaitReply(h)
       THEN LET q == DequeuePending(entry[h].pending)
            IN  /\ entry' = [entry EXCEPT ![h] = [Absent EXCEPT !.state = "ALIVE"]]
                /\ fate' = [p \in Packets |-> IF p \in ToSet(q)
                                              THEN IF up THEN "sent" ELSE "lost"
                                              ELSE fate[p]]
                /\ sent' = IF up THEN [sent EXCEPT ![h] = @ \o q] ELSE sent
       ELSE UNCHANGED <<entry, fate, sent>>
    /\ waited' = [waited EXCEPT ![h] = 0]
    /\ asked' = [asked EXCEPT ![h] = 0]
    /\ UNCHANGED <<up, timer, handed, flaps, aborted>>

-----------------------------------------------------------------------------
(* ArpCache::HandleWaitReplyTimeout *)

Retries(h) == IsWaitReply(h) /\ entry[h].retries < MaxRetries

GivesUp(h) == IsWaitReply(h) /\ ~Retries(h)

(* the entry after the timeout: IncrementRetries, or MarkDead and the queue emptied *)
SeenForgotten(h) ==
    IF Retries(h) THEN [entry[h] EXCEPT !.retries = @ + 1]
    ELSE IF GivesUp(h) THEN [Absent EXCEPT !.state = "DEAD"]
    ELSE entry[h]
QueueKept(h) ==
    IF Retries(h) THEN [entry[h] EXCEPT !.retries = @ + 1, !.age = 0]
    ELSE IF GivesUp(h) THEN [entry[h] EXCEPT !.state = "DEAD", !.retries = 0, !.age = 0]
    ELSE entry[h]
AfterTimeout(h) ==
    IF Retries(h) THEN [entry[h] EXCEPT !.retries = @ + 1, !.age = 0]
    ELSE IF GivesUp(h) THEN [Absent EXCEPT !.state = "DEAD"]
    ELSE entry[h]

NotRestarted(retried) == Off
TimerAfter(retried) == IF retried # {} THEN WaitReplyTimeout ELSE Off

HandleWaitReplyTimeout ==
    LET retried == {h \in Hosts : Retries(h)}
        dropped == UNION {ToSet(entry[h].pending) : h \in {g \in Hosts : GivesUp(g)}}
    IN  /\ timer = 0 /\ ~aborted
        /\ SendArpRequest(retried)
        /\ entry' = [h \in Hosts |-> AfterTimeout(h)]
        /\ timer' = TimerAfter(retried)
        /\ fate' = [p \in Packets |-> IF p \in dropped THEN "dropped" ELSE fate[p]]
        /\ asked' = [h \in Hosts |-> IF h \in retried THEN asked[h] + 1 ELSE 0]
        /\ waited' = [h \in Hosts |-> IF h \in retried THEN waited[h] ELSE 0]
        /\ UNCHANGED <<up, handed, sent, flaps, aborted>>

(* ArpCache::Flush, called when the link of the device changes: the packets *)
(* that wait are freed with their entries, and no trace tells of it         *)
Flush ==
    /\ flaps < MaxFlaps /\ ~aborted
    /\ flaps' = flaps + 1
    /\ entry' = [h \in Hosts |-> Absent]
    /\ timer' = Off
    /\ fate' = [p \in Packets |-> IF fate[p] = "waiting" THEN "lost" ELSE fate[p]]
    /\ waited' = [h \in Hosts |-> 0]
    /\ asked' = [h \in Hosts |-> 0]
    /\ UNCHANGED <<up, air, handed, sent, aborted>>

(* Ipv4Interface::SetUp and SetDown leave the cache alone *)
SetUpDown ==
    /\ flaps < MaxFlaps /\ ~aborted
    /\ flaps' = flaps + 1
    /\ up' = ~up
    /\ UNCHANGED <<entry, timer, air, handed, fate, sent, waited, asked, aborted>>

(* Time passes; the simulator runs an event that is due first *)
Older(n, most) == IF n < most THEN n + 1 ELSE n
Tick ==
    /\ timer # 0 /\ ~aborted
    /\ timer' = IF timer = Off THEN Off ELSE timer - 1
    /\ entry' = [h \in Hosts |-> IF entry[h].state = "absent" THEN Absent
                                 ELSE [entry[h] EXCEPT !.age = Older(@, MaxAge)]]
    /\ waited' = [h \in Hosts |-> IF IsWaitReply(h) THEN Older(waited[h], LongestWait + 1)
                                  ELSE waited[h]]
    /\ UNCHANGED <<up, air, handed, fate, sent, asked, flaps, aborted>>

-----------------------------------------------------------------------------
Next ==
    \/ \E h \in Hosts : Send(h)
    \/ \E h \in Hosts, again \in BOOLEAN : ReceiveReply(h, again)
    \/ HandleWaitReplyTimeout
    \/ Flush
    \/ SetUpDown
    \/ Tick

Spec == Init /\ [][Next]_vars
FairSpec == Spec /\ WF_vars(Tick) /\ WF_vars(HandleWaitReplyTimeout)

-----------------------------------------------------------------------------
(* The types; a queue of waiting packets has no more than PendingQueueSize of *)
(* them, or the one that MarkWaitReply puts there without looking.            *)
TypeOK ==
    /\ up \in BOOLEAN /\ aborted \in BOOLEAN
    /\ entry \in [Hosts -> Entry]
    /\ \A h \in Hosts : Len(entry[h].pending) <= MostPending
    /\ timer \in Off .. WaitReplyTimeout
    /\ air \subseteq Hosts
    /\ handed \in 0 .. MaxPackets
    /\ fate \in [Packets -> Fates]
    /\ sent \in [Hosts -> Seq(Packets)]
    /\ waited \in [Hosts -> Nat] /\ asked \in [Hosts -> Nat]
    /\ flaps \in 0 .. MaxFlaps

(* The NS_FATAL_ERROR that Lookup keeps for an entry that waits and has       *)
(* expired is never reached, although one timer, started by another entry,    *)
(* is all that watches over the entry; nor does MarkWaitReply find packets in *)
(* the queue.                                                                 *)
NeverFatal == ~aborted

(* The packets the cache holds are the ones that wait for a reply, each in    *)
(* one queue once, and none is left in an entry that no longer waits; and the *)
(* types hold.                                                                *)
NoneStranded ==
    /\ TypeOK
    /\ \A h \in Hosts : entry[h].pending # << >> => IsWaitReply(h) /\ timer # Off
    /\ \A p \in Packets : fate[p] = "waiting" <=> \E h \in Hosts : p \in ToSet(entry[h].pending)
    /\ \A h, g \in Hosts : ToSet(entry[h].pending) \cap ToSet(entry[g].pending) # {} => h = g

(* The device gets the packets for a host in the order they were handed over, *)
(* those that waited before those that found the entry alive, each once.      *)
SentInOrder ==
    \A h \in Hosts : \A i \in 1 .. Len(sent[h]) - 1 : sent[h][i] < sent[h][i + 1]

(* An entry is given up after MaxRetries retransmissions, no sooner than      *)
(* MaxRetries times the timeout after it began to wait and no later than one  *)
(* timeout more, wherever the shared timer stood when it began.               *)
GivenUpInTime ==
    [][\A h \in Hosts : IsWaitReply(h) /\ entry'[h].state = "DEAD" =>
          /\ asked[h] = MaxRetries + 1
          /\ waited[h] \in MaxRetries * WaitReplyTimeout .. LongestWait]_vars

(* Every packet that waits is sent, dropped or lost in the end, whether or    *)
(* not a reply comes.                                                         *)
Resolved == \A p \in Packets : fate[p] = "waiting" ~> fate[p] # "waiting"

-----------------------------------------------------------------------------
(* The parts of the inductive invariant *)

(* the shared timer runs while an entry waits, and fires before it expires *)
WatchInv == \A h \in Hosts :
    IsWaitReply(h) => timer # Off /\ entry[h].age + timer <= WaitReplyTimeout

(* an entry that does not wait has no packets and no retries left from its last wait *)
QuietInv == \A h \in Hosts :
    ~IsWaitReply(h) => entry[h].pending = << >> /\ entry[h].retries = 0

(* the packets in the queues are the ones that wait, and nothing is known of those to come *)
FateInv == /\ \A p \in Packets : p > handed => fate[p] = "unseen"
           /\ \A p \in Packets :
                 fate[p] = "waiting" <=> \E h \in Hosts : p \in ToSet(entry[h].pending)
           /\ \A h, g \in Hosts :
                 ToSet(entry[h].pending) \cap ToSet(entry[g].pending) # {} => h = g

Increasing(s) == \A i, j \in DOMAIN s : i < j => s[i] < s[j]

(* what a host was sent, then what waits for it, is in the order of handing over *)
OrderInv == \A h \in Hosts :
    /\ Increasing(sent[h]) /\ Increasing(entry[h].pending)
    /\ \A p \in ToSet(sent[h]), q \in ToSet(entry[h].pending) : p < q
    /\ \A p \in ToSet(sent[h]) : p <= handed

(* the request that is out now ends its wait when the timer fires *)
PaceInv == \A h \in Hosts : IsWaitReply(h) =>
    /\ asked[h] = entry[h].retries + 1
    /\ entry[h].retries * WaitReplyTimeout <= waited[h] + timer
    /\ waited[h] + timer <= (entry[h].retries + 1) * WaitReplyTimeout

IInv == TypeOK /\ NeverFatal /\ WatchInv /\ QuietInv /\ FateInv /\ OrderInv /\ PaceInv
====
