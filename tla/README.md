# A TLA+ model of the simulator, the flyways link layer and its surroundings

The repository is ns-3.9 with an extension for *flyways*: 60 GHz radio links
that relieve hot spots between the racks of a data centre. The experiments run
on four layers, and the model follows them from the bottom up:

1. the **simulator** (`src/ns-3.9/src/simulator`), the event list and clock on
   which everything else runs;
2. its **real-time** variant with the **emulation device**
   (`src/ns-3.9/src/devices/emu`), the only C++ parts with more than one thread;
3. the **wifi link layer** (`src/ns-3.9/src/devices/wifi`): when a flyway may
   transmit, how a frame gets across a channel that loses frames, and how block
   acks do it for many frames at once;
4. the **network layers**: the routing table with the fractional host routes
   that split a rack's traffic over wire and flyways, and ARP.

Beside them stands the **test driver** (`src/ns-3.9/test.py`), a threaded program
on whose verdict everybody who changes the code relies.

All of these are modelled and checked. The safety of the simulator core, the
real-time simulator, the emulation device, the wireless hop, the block ack
session, the routing table, ARP and the test driver is also proved, for every
value of the constants. Paths below are relative to `src/ns-3.9/src`
unless they begin with `src/` or say otherwise.

## Modules

| module | models | state | proofs |
|---|---|---|---|
| `EventKey` | `simulator/scheduler.h`: the order of events, and what a scheduler returns | none | |
| `EventLoop` | the promise of every simulator implementation (abstract) | the pending keys, the key taken up last | |
| `SimulatorCore` | `DefaultSimulatorImpl`, `EventImpl`, `Simulator::Destroy` | as in the class, plus histories | `SimulatorCoreProofs` |
| `RealtimeSimulator` | `RealtimeSimulatorImpl` with `WallClockSynchronizer` and `SystemCondition` | as in the classes, plus the wall clock and the threads' positions | `RealtimeSimulatorProofs` |
| `EmuNetDevice` | `EmuNetDevice`'s life cycle and `ReadThread` | the device's members, the events it scheduled, both threads' positions | `EmuNetDeviceProofs` |
| `DcfManager` | `DcfManager`, `DcfState` | none: operators on a station record | |
| `WifiStation` | `EdcaTxopN`, `MacLow`, `YansWifiPhy`, the retry counters and the queue of one station | the station | |
| `MCWifiStation` | the access categories of the checked instances | | |
| `LinkService` | the promise of a wireless hop (abstract) | packets accepted, packets delivered | |
| `WifiLink` | one hop: `DcaTxop`, `MacLow` and `MacTxMiddle` to `MacLow` and `MacRxMiddle` over a lossy channel | both ends, the frame on the air | `WifiLinkProofs` |
| `BlockAck` | one hop under a block ack agreement: `EdcaTxopN`, `BlockAckManager`, `CtrlBAckResponseHeader`, the recipient's reordering buffer | both ends, the frame on the air | `BlockAckProofs` |
| `StaticRouting` | `Ipv4StaticRouting`, fractional routes, interfaces and their addresses | the two route lists, addresses, interfaces up | `StaticRoutingProofs` |
| `MCStaticRouting` | the networks, addresses and splits of the checked instance | | |
| `ArpCache` | `ArpCache`, `ArpL3Protocol`, `Ipv4Interface::Send` | the entries, the shared timer, replies under way | `ArpCacheProofs` |
| `TestRunner` | `src/ns-3.9/test.py`: `run_tests` and `worker_thread` | options, queues, threads, results | `TestRunnerProofs` |
| `Lists` | the loop that erases elements of a list, of routes or of packets (`Kept`) | none | |

`SimulatorCore` and `RealtimeSimulator` both implement `EventLoop` (property
`ImplementsEventLoop`), `WifiLink` implements `LinkService` (property
`OnceInOrder`); `WifiStation` extends `DcfManager`. `RealtimeSimulator` meets
the emulation device as a read thread that may call it at any moment;
`EmuNetDevice` is the same thread seen from the device. `WifiStation` models
*when* one station sends, against arbitrary surroundings; `WifiLink` and
`BlockAck` model *what* two stations exchange, with access granted at any
moment.

## Inventory

What each part keeps, does and owes to the others. *Hard* names the behaviour
a test would hardly reach, *correct* the properties that matter.

**Simulator core** (`simulator/default-simulator-impl.cc`, `event-impl.cc`,
`simulator.cc`). State: the event list, the destroy list, clock, uid counter,
current context, stop flag, the count of unscheduled events. Operations:
Schedule, ScheduleWithContext, ScheduleNow, ScheduleDestroy, Cancel, Remove,
Stop, Run, RunOneEvent, Destroy. Every other part calls it and is called back
by it. Hard: calls from inside events, from destroy events and between two
Runs, in any order; EventIds used long after the event ran. Correct: the clock
never goes back, events run in the order of their keys, a cancelled event never
runs, IsExpired is exact.

**Event schedulers** (list, map, heap, calendar, ns-2 calendar). State: the
events in a data structure of their own. Operations: Insert, PeekNext,
RemoveNext, Remove. Hard: resizing the calendars, equal time stamps. Correct:
the least key comes first. Only this contract is modelled (`EventKey!IsNext`).

**Real-time simulator** (`realtime-simulator-impl.cc`,
`wall-clock-synchronizer.cc`, `core/unix-system-condition.cc`). State: as the
core, plus the running flag, the origin of real time and the condition. A
device's thread calls ScheduleRealtime*WithContext while the main thread looks
at the list, waits, or runs an event. Hard: an insertion between the look and
the wait; a wait that ends early and on time at once; a second Run. Correct: no
lost wake-up, no early event, no lost event, everything handed over is run.

**Emulation device and tap bridge** (`devices/emu`, `devices/tap-bridge`).
State: socket, read thread, count of pending reads, start and stop events.
Operations: Start, Stop, StartDevice, StopDevice, ReadThread, ForwardUp,
DoDispose. Hard: stopping while the thread is anywhere in its loop. Correct:
reads within RxQueueSize, Stop returns, no thread survives the device.

**DcfManager** (`devices/wifi/dcf-manager.cc`). State: the last start and end
of each kind of activity, one access timer, and for each contender its
remaining slots, backoff start, contention window and request flag.
Operations: RequestAccess, AccessTimeout and twelve notifications by the PHY
and MacLow. Hard: several contenders expire at once and call back; the timer
is only ever moved closer; an instant belongs to two intervals. Correct: access
neither before the backoff is over nor a slot late, no request forgotten.

**EdcaTxopN, DcaTxop** (`edca-txop-n.cc`, `dca-txop.cc`). State: queue and
current packet of each access category. Hard: every way out of an exchange
(success, retry, giving up, cancellation, channel switch) must ask for access
again. Correct: a client with packets is never left behind.

**MacLow** (`mac-low.cc`). State: listener, current packet, parameters, eleven
timers. Operations: StartTransmission, ReceiveOk, the timeouts, the delayed
replies. Hard: answers at the instant of their timeout; replying to others
inside an own exchange. Correct: its assertions hold and nothing breaks into an
exchange.

**Wifi PHY** (`yans-wifi-phy.cc`, `wifi-phy-state-helper.cc`). State: idle,
CCA busy, receive, transmit or switching, and the end of each. The fork
synchronises only to frames addressed to the station or broadcast
(`yans-wifi-phy.cc:456`).

**Station managers and wifi queues.** Retry counters of each peer, packets with
a time stamp and a maximal age. The rate tables are not modelled.

**Sequence numbers, duplicates and fragments** (`mac-tx-middle.cc`,
`mac-rx-middle.cc`). A counter at the sender, the last number and the fragments
collected so far at the receiver. Hard: lost ACKs, packets given up half-way, other
frames in between, numbers that come round again. Correct: at most once, in order,
whole.

**Block ack manager** (`block-ack-manager.cc`, `mac-low.cc`,
`ctrl-headers.cc`). State: the agreement, its packets, the list of retries,
the BlockAckReqs to send; the recipient's start and reordering buffer. Hard:
lost block acks, requests and responses; packets sent once under block ack and
once under normal ack; the width of the bitmap. Correct: lists sound, what is
counted as acknowledged has arrived, at most once and in order, nothing stuck.

**Upper MAC** (`flyways-wifi-mac.cc` and the other MACs). Hands packets from
device to queue and back.

**60 GHz models** (propagation, antennas, error rates). Formulas and tables.

**Flyways topology** (`helper/flyways-topo-helper.cc`). Wires racks, dongles, channels
and routes before the run.

**Routing** (`routing/static-routing`). Host, network and fractional routes.
Hard: an interface goes down with routes through it; fractions that do not add
up to one; equal prefixes and metrics. Correct: the longest prefix, then the
smallest metric; no route through an interface that is down.

**Point-to-point link and queue, CSMA, bridge.** A transmit machine and a
bounded queue. Correct: nothing is stuck in the queue, nothing exceeds it.

**ARP** (`internet-stack/arp-cache.cc`, `arp-l3-protocol.cc`). State: an entry
for each host (alive, dead, waiting) with the packets that wait, and one timer
for all of them. Hard: an entry that begins to wait while the timer already
runs for another; replies, flushes and retries in any order. Correct: the fatal
error of the lookup is never reached, nothing waits for ever, packets leave in
order.

**TCP, UDP, IPv4, IPv6.** TCP's states and retransmission; headers and
demultiplexing.

**Timers and watchdogs** (`simulator/timer.cc`, `watchdog.cc`). On top of the
EventIds: suspend, resume, lazy expiry.

**Mesh, WiMAX, UAN, spectrum, dynamic routing, applications, statistics,
experiments, build scripts, bindings.** Not part of the behaviour the
experiments depend on, or unchanged upstream code they do not use.

**Test driver** (`src/ns-3.9/test.py`). State: the options, an input and an output
queue, one worker thread per processor, the tally and the XML report. Hard: an
interrupt at any moment, a program that dies without its results file, a worker
that dies with its job. Correct: no job lost, exit status 0 only when everything
asked for passed, a complete report, an end.

`PROJECT.json` lists the same parts with their files, and the hazards at the
lines where they bite.

## How the modules follow the code

### SimulatorCore

Variables carry the names of the class's members. An event is the record
`[ts, context, uid, impl]`, and an EventId the same record; `impl` stands for
the `EventImpl`. Every public call is an action, and can be made from the three
places user code runs in: outside Run, inside an event, inside a destroy event.
`pc` says where the thread is. An event's function is thus an arbitrary sequence
of calls between `ProcessOneEvent` and `EventReturns`. Dispose ends a behaviour:
a new implementation starts from Init. `handles`, `invoked` and `calledOff` are
histories that only the properties read. SetScheduler moves the events to
another scheduler without changing the set, and so is a stutter.

`EventLoop` abstracts this to a set of keys and the key taken up last: keys are
added later than the last one, dropped, or taken up when they are the least.

### RealtimeSimulator

One action is one critical section of `m_mutex`, or the stretch of the main thread
between two of them. `ProcessOneEvent` is `Pace` (compute how long to wait, reset
the condition), `SynchronizeReached` or `SynchronizeInterrupted` (the wait, which
ends when the clock reaches the target or the condition is set; when both are true
either may be noticed first), `TimedWaitRefused` (the wait whose time has a
nanosecond part of exactly 10^9 and which only the condition ends) and `TakeEvent`
(take the earliest event, which need not be the one the wait was for). `Run` sets
`m_running` and `SetOrigin` reads the clock in a separate step, as there is no lock
between them. NS_ASSERT ends the program, so the calls of a read thread carry the
assertion as a guard; `RealtimeNotBehind` states that it holds. The context that
ScheduleRealtimeWithContext leaves uninitialised is any context.

### EmuNetDevice

The main thread (`main`) and the read thread (`reader`) are interleaved at each
access to what they share: the count under its mutex, the socket without one.
Simulated time is left out: a scheduled start or stop may run at any later
moment. A `recvfrom` may fail at any moment (the interface goes down, or `close`
ends the call) and need not: POSIX leaves open whether `close` ends a call that is
under way, and on Linux, where the device runs, it does not. A frame may still be
delivered by such a call. `main = "failed"` is a fatal error or a failed assertion.

### DcfManager and WifiStation

One action is one simulator event with **all** the calls it makes, through
DcfManager, EdcaTxopN, MacLow and the PHY and back. The operators of
`DcfManager` and `WifiStation` transform one record of the station, so that
calls compose as they do in the code; `Become` assigns the result. Events due
at the same instant run in any order, which covers every order in which they may
have been scheduled. Every `Time` member is kept as its distance from now and
saturates at `-Horizon`, beyond which no interframe space and no backoff can
tell two instants apart. The unit of time is a slot. `Require` records a failed
assertion or fatal error in `failed`.

The surroundings send frames to the station, occupy the medium, queue packets
and switch the channel at any moment. What others send is arbitrary: an ACK or
a CTS nobody asked for is among it. The NAV is left out since no frame that
reaches MacLow in this fork can extend it. EdcaTxopN stands for DcaTxop as
well, which has the same structure. A client has one peer and one traffic id,
so a retry counter per client is one per peer. A pending BlockAckReq is the kind
of frame `"bar"`; agreements and bitmaps are the subject of `BlockAck`.

The histories `left` (idle slots each client still has to see) and `idle` are
counted on the channel, tick by tick, and not by the code's arithmetic: the
properties about access compare the two.

### WifiLink and LinkService

One action is one event at one end or on the channel: access granted, an answer
received, its timeout, a frame received, a frame lost. At most one frame is on
the air, as MacLow has at most one exchange. Timeouts come only after the frame
or its answer is gone: in the code they are set to SIFS plus the longest answer,
and the races at the very instant are `WifiStation`'s subject. A packet is its
number and size; a frame carries a piece `[packet, from, length]` of it, computed
with the station manager's fragment arithmetic, so that `Intact` sees a wrong
size or offset. `ssrc` and `slrc` are the peer's counters; `tries` and
`rtsTries` count real transmissions and only the properties read them. The
beacon queue of an access point has a `MacTxMiddle` and so a counter of its own,
`beacons`; group packets take numbers from the counter of the unicast ones
(`BroadcastGranted`). `SeqControl` writes and reads the field of the header: the
fragment number, a `uint8_t` at the sender, has `FragSpace` = 16 values there and
its upper bits fall onto the number. `Cleanup` takes any number of packets off the
head of the queue when access is granted, those older than the maximal delay.
`SwitchChannel` drops everything at the sender. `SeqSpace` stands for 4096.

The receiver knows a packet by its number alone. When a packet is given the number
that the receiver recorded last, after 4096 others none of which it recorded, the
history `reused` is set, and what the receiver may rely on ends: `Intact`,
`AckedDelivered` and `OnceInOrder` speak of the time before. The run goes on after
it, with `TriesBounded` and `Resolved`.

`LinkService` numbers the packets in the order they were handed over and allows
each to come out once, after those before it that come out at all.

### BlockAck

The originator is `EdcaTxopN` with its `BlockAckManager`. `NotifyAccessGranted`
is the disjunction of its branches in the code's order: BlockAckReq, retry,
ADDBA request, new packet, nothing available, the frame kept from last time.
`CompleteTx` is the whole of a transmission under block ack with the calls that
follow it. Lists hold packet numbers; an iterator of `m_retryPackets` is the
packet it points to, and `ListsSound` says that it points somewhere. Sequence
numbers are `(First + p - 1) % 4096` and the recipient's mapping of them, of
controls and of starts is the code's arithmetic. The bitmap is the set of its
bits; `Word` is the width of an `int`, 32 in the code, to which
`1 << index` is limited while the bitmap has twice as many. `CounterSpace` is the
number of values of the `uint8_t` `m_sentMpdus`, 256, which is no more than half
of the buffer of 1024, as in the run. The ADDBA response
is sent as a management frame with its own retries: it arrives or is given up.

### StaticRouting

`LookupNetwork` is the loop: a recursive function over the list with the body
`Better`; `LookupStatic` adds the fractional routes in front and returns the set
of results over all draws. Routes are erased by `Kept`, the loop it shares with
`BlockAck`. `MaxMetric` is the metric the pass starts from, 0xffffffff in the
code; the run's largest metric is 1.
Fractions are whole numbers of `Total`-ths and a draw falls between two of the
sums. The interface operations include the notifications they make and what
those do to the table, the skipped element after a removal inside the loop
included (`WithoutNetwork`). `live` in a route is a history.

### ArpCache

Simulated time is a tick; an entry keeps its age. `HandleWaitReplyTimeout`
treats all waiting entries at once, as the loop in the code does. A reply may
come late, twice, or never. Sending the packets that waited is part of
`ReceiveReply`: each goes through the lookup again and finds the entry alive.

### TestRunner

The main thread and each worker are interleaved at every queue operation. A
finished program is a return code, the state of its results file and a leak
summary; `Programs` says which combinations can come from a suite, from
valgrind and from an example. An interrupt becomes pending at any moment and is
handled when the main thread does not wait for a lock, as in Python 2.

## Runs

Every passing run explores its whole state space. Deadlock is not checked in
any of them: a simulation may end, a device may be disposed of, and a station
may have nothing left to do. Where something must go on, a liveness property
says so.

| run | bounds | states | shows |
|---|---|---|---|
| `simulator_core` | uids 4 to 7 (4 events), delays 0 and 1, one context | 1,880,000 | expiry exact, cancelled events never run, both orders, refinement of EventLoop |
| `realtime` | 3 events, delays 0 and 2, two Runs, real time up to 3 | 568,000 | no lost wake-up, no early and no lost event, refinement, handed-over events run |
| `realtime_second_run` | the same | violation | the assertion on real time fails in a second Run |
| `wifi_station` | 2 access categories, 1 packet each, 2 frames heard, 2 tries | 765,000 | assertions, nobody stranded, access prompt and granted, no intrusion |
| `wifi_flyway` | 1 category, 2 packets, 2 frames heard, window 1 to 3, 1 channel switch, packets that expire | 1,450,000 | assertions, nobody stranded and backoffs served in full with a growing window, block acks, switching and expiry |
| `wifi_busy_request` | 1 category | violation | a request in a busy medium draws no backoff |
| `emu_device` | RxQueueSize 2, 4 calls, 4 frames | 5,300 | reads limited, StopDevice returns unless the queue is full or no frame ends the last `recvfrom` |
| `wifi_link` | packets of 1, of 3 and of 5 fragments with 4 sequence and 4 fragment numbers, 2 packets, 2 beacons, 3 group packets, 2 channel switches, packets that expire, 2 tries each for RTS and data | 848,000 | whole, once and in order, acknowledged means delivered, until a number is reused; tries bounded, nothing stuck |
| `block_ack` | 6 packets, 3 losses, threshold 2, a count of sent packets modulo 4, 2 tries | 143,000 | lists sound, once and in order, nothing stuck |
| `static_routing` | 2 interfaces, addresses of 2 bits, 3 routes of which 2 fractional, 2 addresses each | 1,060,000 | the lookup against its reference, shares exact, no dead route |
| `arp_cache` | 2 hosts, 4 packets, 2 link changes, 1 retry | 487,000 | no fatal error, none stranded, in order, given up in time |
| `test_runner` | 2 suites, an example, a Python example, 2 workers | 1,410,000 | no job lost, honest verdict, complete report, an end |

Why the bounds are enough. *Simulator core*: four events give two of one time stamp,
one scheduled by a running event and one to cancel, and the properties relate at
most two events; the theorems remove the bound. *Real time*: three events are the
one waited for, one that comes before it and one after; two Runs are needed to carry
an origin over, and delay 2 leaves an instant between two events. *Wifi station*:
two categories give every internal collision of two; two frames heard are one inside
the other's timeout, or a broken frame and the good one that ends its EIFS; frames,
timeouts and interframe spaces have different lengths, with a timeout longer than
SIFS and the reply, so that an answer can come before, at and after its timeout. A
window that starts at 0 makes a client draw no backoff at all; in `wifi_flyway` it
grows from 1 to 3, so that a backoff of several slots is counted in parts, frozen by
a frame, resumed, and cleared by a channel switch. *Emulation*: two slots suffice to
be full with one frame at the simulator and one in hand; four calls are start, stop,
start, stop. *Link*: two packets are one given up half-way and the one it disturbs;
size 4 with threshold 2 ends in a fragment of length 0, the boundary of
`GetNFragments`, and size 8 has one fragment more than a header has numbers for.
Three group packets are enough to go once round four sequence numbers, so that the
second packet can meet the number of the first while its fragments are held; without
the condition `~reused`, or without one of the exceptions of `AckedDelivered`, TLC
finds the properties violated in this run. Any number of frames may be lost. *Block
ack*: six packets give two blocks and more, a later one with retries of an earlier
one, and more packets in a block than the count of sent packets has values;
threshold 2 makes the ack policy change back and forth; three losses are enough to
lose a packet, its retry and an answer; `Word` = 3 puts the edge of the bitmap
inside the run. *Routing*: two routes to compare and a third that is removed or
skipped; masks of 0, 1 and 2 bits are the default route, a network and a host of it.
*ARP*: two hosts are the one that started the timer and the one that waits with it;
a queue of 2 overflows with 4 packets; the dead timeout is shorter and the alive
timeout longer than the wait. *Test driver*: every kind of test and one to be
skipped under valgrind; with two workers one can be interrupted, or die, while the
other runs.

### The properties

Types are stated in each module as `TypeOK`; where no theorem is about them they
are a conjunct of an invariant that is checked (`NoneLost`, `AssertionsHold`,
`TriesBounded`, `ListsSound`, `SharesExact` and ArpCache's `NoneStranded`).

Simulator core:
- `ExpiredIffNotPending`: IsExpired, which does not look at the list, tells
  exactly the events that are in it and will run. Remove relies on it.
- `CalledOffNeverRuns`: an event cancelled or removed before it ran never runs; a
  destroy event neither, although `simulator.h` says that calling one off crashes
  (see Disagreements).
- `EventsRunInOrder`, `DestroyEventsRunInOrder`: over the whole history.
- `ImplementsEventLoop`.
- Proved only: `NothingPendingInThePast` (no event lies behind the clock) and
  `UnscheduledCount` (the count equals the length of the list).

Real-time simulator:
- `NoLostWakeup`: a wait not interrupted is one for the earliest event.
- `NeverEarly`: the event taken up is due, although the list may have changed.
- `NoneLost`: the assertion at the end of Run.
- `HandedOverRuns` (liveness): an event handed over while Run goes on is taken
  up or removed, unless Run is stopped, or the main thread ends for ever in a wait
  that was refused (see Disagreements).
- `ImplementsEventLoop`, whatever the read thread does.
- `RealtimeNotBehind`: the assertion of the read thread's calls; violated in a
  second Run.

Emulation device:
- `ReadsLimited`: frames read and not processed stay within RxQueueSize, and the
  unsigned count does not wrap.
- `StopReturnsUnlessStuck` (liveness): StopDevice comes back, unless the thread it
  joins is paused for ever by a full queue, or is for ever in a `recvfrom` that was
  under way when the socket was closed.
- Proved only: `ReaderJoined` (no thread is left when DoDispose is over).

Wifi station:
- `AssertionsHold`: no assertion or fatal error of the four classes is met.
- `NoneStranded`: a client with something to send asks for access or is in an
  exchange that will come back to it.
- `BackoffServed`: access only after an idle interframe space and every slot,
  however often the backoff was frozen in between.
- `PromptAccess`: a client that has seen its whole backoff lets no slot go by.
  Two situations are excepted by the history `cut`, both confirmed to happen:
  NotifyTxStartNow cuts a reception short, or a good reception ends an EIFS, and
  neither restarts the timer, which still stands where the old end had put it.
- `NoIntrusion`: StartTransmission breaks into no exchange and no owed reply.
- `RequestServed` (liveness): every request is granted.
- `CollisionNotified`: the comment on RequestAccess; violated.

Link:
- `OnceInOrder` (refinement of LinkService), `Intact`: what is handed up is a
  packet as it was queued, once, in order, until a number is reused.
- `AckedDelivered`: success reported means handed up, until a number is reused. Two
  situations are excepted: the receiver still holds fragments of an earlier packet
  that was given up, or of one with more fragments than a header has numbers for.
- `TriesBounded`: no frame is sent more often than its limit, although the
  counters belong to the peer.
- `Resolved` (liveness): every packet is reported, expires or is flushed, even over
  a channel that loses everything.

Block ack:
- `ListsSound`: no dangling or double iterator, no packet kept after it was
  acknowledged, and packets not reported on have a BlockAckReq scheduled or
  something left to send.
- `HandedUpOnce`: what counts as acknowledged has arrived; packets are handed up
  once and in order. Excepted are packets whose ACK or block ack was lost, block
  acks wider than an `int`, and numbers that wrap around (see Disagreements).
- `Resolved` (liveness): once packets cease to arrive, every packet leaves the
  originator, unless the agreement stays pending.

Routing:
- `LookupBest`: the single pass finds the longest match, then the least metric,
  then the last added; for every destination and every device.
- `SharesExact`: each hop of a fractional route gets exactly its share of draws.
- `LookupUsable`: no route over an interface that is down is returned, unless it
  was added while the interface was down.

ARP:
- `NeverFatal`: neither the fatal error nor the assertion on the queue is met.
- `NoneStranded`: a packet waits in one entry, which waits itself and for which
  the timer runs.
- `SentInOrder`, `GivenUpInTime` (an action property), `Resolved` (liveness).

Test driver:
- `NoneLost`: a job is in exactly one place until it is counted.
- `VerdictHonest`: exit status 0 means all that was named or listed passed.
- `ReportComplete`: one entry per job, and only passes and skips in a success.
- `Finishes` (liveness): the program ends with its threads, unless a worker died.

Each property of a passing run has a mutant: an operator before the definition it
replaces that differs from it as a plausible bug would (no signal after an
insertion, idle slots counted twice, a counter not lowered, a packet not erased),
with which the property fails in the same run.

### Fairness

- `RealtimeSimulator`: weak fairness of the main thread's steps and of the
  clock; it ends no wait that was refused. A thread that is not blocked is scheduled
  by the operating system,
  event functions return, and time passes. Read threads and callers owe nothing.
- `WifiStation`: the simulator goes on while an event is scheduled, which is what
  Run's loop does. It is written as "infinitely often nothing is scheduled, or
  infinitely many steps", which weak fairness of `Simulate` implies and which
  spares TLC the evaluation of ENABLED on large records. The surroundings are
  bounded and owe nothing: `RequestServed` speaks of a medium that falls silent
  in the end, since a medium that is always busy serves nobody.
- `EmuNetDevice`: weak fairness of each thread, but not of the end of a `recvfrom`:
  a frame need not arrive, and the call need not fail.
- `WifiLink`: timers expire, a frame on the air arrives or is lost, the medium is
  granted. Nothing is assumed of losses. Queueing, beacons, group packets and
  switching owe nothing.
- `BlockAck`: the same. Losses are bounded there, and must be: a BlockAckReq is
  repeated without limit, so over a channel that loses everything nothing ends.
- `ArpCache`: time passes and an event that is due is run. Replies owe nothing.
- `TestRunner`: the threads are scheduled and the programs they run end. Workers
  need not die, nor interrupts come.

## Proofs

TLAPS checks eight modules for every value of the constants, so for any number of
events, packets, hosts, tests or threads. Bounds of the runs that appear as
constants may be as large as one likes. The safety properties are seldom
inductive; each component's module ends with the conjuncts of an inductive
invariant `IInv`, which TLC checked on the run's instance (as one more INVARIANT)
before it was proved. In each proof module one lemma per action, or per kind of
call, shows that it keeps `IInv`; a last lemma joins them, and the theorems follow.

**`SimulatorCoreProofs`**, from `Delays \subseteq Nat` and `MaxUid \in Nat`.
`IInv` adds to the types:
- `UidInv`: an impl names one event and is below `m_uid`, so keys never clash;
- `QueueInv`: the list is finite, counted by `m_unscheduledEvents` and later than
  the clock, and the EventIds divide at the clock: those later have not run and
  are in the list or cancelled, the others ran or were called off. This is why
  IsExpired may decide from the clock alone;
- `CallOffInv`: what was cancelled was called off, and what was called off and is
  still in a list is cancelled;
- `DestroyInv`: the destroy list is sorted by impl, and what ran from it is
  earlier than what is left.

Theorems `TypeCorrect`, `Invariance`, `ClockNeverPasses`, `CountCorrect`,
`ExpiryExact`, `CallOffEffective`, `RunInOrder` and `DestroyInOrder`. `Refinement`
shows `Spec => ImplementsEventLoop`: an insertion adds a key later than the clock
(`KeysInjective` keeps two events from sharing one), a taken event is the least
key, and everything else drops keys or stutters.

**`RealtimeSimulatorProofs`**, from `Delays \subseteq Nat`, `Epoch \in Nat \ {0}`
and numbers for the bounds.
- `KeyInv`: uids are below `m_uid` and name one event, and what is in the list is
  later than what was taken up last, although a read thread stamps events with a
  clock of its own and finds the main thread at any point;
- `CountInv`: the count is that of the list, which is finite;
- `WaitInv`: from the critical section that computes the delay to the one that
  takes the event, the earliest event is no later than the target, and a wait
  that ended without the condition ended at the target. With `NoLostWakeup` this
  is what carries a wait across an insertion.

Theorems `Invariance`, `CountCorrect` (the assertion at the end of Run),
`WakeupNeverLost`, `EventsNeverEarly` and `Refinement`: the real-time simulator
implements EventLoop too. `RealtimeNotBehind` is no theorem: a second Run violates
it.

**`EmuNetDeviceProofs`**, from `MaxPendingReads \in Nat`. `IInv` is the types with
`SlotInv` (every frame on its way, also one `recvfrom` has not returned yet, holds a
slot of the count, which is within the limit) and `ThreadInv` (`m_readThread` tells
whether the thread exists). `Invariance`, `ReadsNeverExceed` and `ReaderGone`
follow.

**`WifiLinkProofs`**, from a positive fragmentation threshold, positive limits and
positive numbers of sequence and fragment numbers. `Now` is the packet being sent,
kept while its frame is still on the air. `IInv` has two parts. The first always
holds: the types, `FrameInv`, which ties the frame on the air to the sender's
packet and fragment, or makes it a group frame, and `TriesInv`, by which the peer's
counters are never behind the real transmissions. The second, `KnownInv`, is what
the ends know of each other until a number is reused:
- `FragmentInv`: the fragments held are the first ones of this packet or of an
  earlier one that the sender is done with;
- `ProgressInv`: the receiver has recorded nothing of it, and then none of the
  numbers its frames bear; or all fragments before the current one, or that one
  too; or it takes no more, as it is stuck with an earlier packet or has recorded
  the last fragment number there is (`Exhausted`);
- `DeliveredInv` and `AckedInv`: the same for what was handed up and reported.

No sequence number needs to be fresh for the first part, and none to be unused for
the second: group frames of either counter may bear the number of the packet being
sent, and `GroupHeard` shows that they leave the receiver as it is, since their
fragment number is 0. Theorems `Invariance`, `TriesLimited`, `PacketsIntact` (with
the arithmetic of fragments: their lengths add up for every size and threshold),
`AckedArrived` and `Refinement` (until a number is reused the hop implements
LinkService). `delivered` holds packets and no group frames.

**`BlockAckProofs`**, from `BlockAckAssumption` (a positive threshold, word and
number of tries, a count of sent packets with no more values than half a buffer, an
initial number below 4096).
`OriginatorInv`, `CurrentInv`, `AirInv`, `RecipientInv` and `ManagerInv` are the
types with the relations between them. The heart is `ManagerInv`: the list of
retries is the end of the agreement's packets after the ones sent since the last
block ack; it is empty while a BlockAckReq is scheduled or unanswered, since one is
scheduled only when nothing is left to send, so a block ack finds no iterator to
invalidate. Theorems `Invariance` and `ManagerSound`
(`ListsSound`).

What the two ends know of each other is `OnceInv`, proved on top of `IInv` as
`OnceInvariance`. `FirstDue` is the first packet that is not settled, and the
agreement starts there.
- `SessionInv`: the frame on the air is the one kept, or an MPDU of the agreement
  that is not in the list of retries, or the answer to the BlockAckReq kept; the
  starts of the agreement, of the BlockAckReq and of the block ack are the same
  number. It is inductive by itself, for all numbers;
- `WindowInv`: a packet taken since `FirstDue` is in the agreement's buffer, or a
  block ack settled it, and then it is within `Word` of `FirstDue`. So a block ack
  that is not wide for the packets in the buffer is not wide for any;
- `DeliveryInv`: what was handed up, what waits in the reordering buffer and what
  the originator may send again (`Owed`) follow on each other, but for packets
  whose answer was lost; what may yet arrive (`Coming`) does not wait already;
  what the originator counts as acknowledged, or will once the answer on the air
  arrives (`Claimed`), was handed up or waits; and the recipient's start is not
  beyond a packet that is owed.

The last two hold until a block ack is wide. `DeliveredOnce` follows, which is
`HandedUpOnce` for any number of losses. Both theorems have the hypothesis
`HalfSpace`: no number passes 2047, and an `int` has fewer than the 256 bits that
the index in the bitmap counts (it has 32). The first is what the code needs: the
recipient's search through its buffer (`mac-low.cc:1592`) maps numbers as if they
were sequence controls, which is the order of the numbers only as long as they
stay there. Beyond, `HandedUpOnce` does fail (see Disagreements). The proof shows
of each loop over the buffer (`Store`, `Smaller`, `OneEach`, `InSequence`) what it
keeps sorted and which entries it takes, and of the bitmap that within `Word` bits
a bit set is a packet received.

**`StaticRoutingProofs`**, from the ranges of addresses, masks and metrics and
non-empty splits. `PowersAssumption` is arithmetic (a power of 2 is positive) that
the provers do not know. `IInv` is the types with one fact: a route marked live is
over an interface that is up, also after the loop that skips the element behind
the one it removes. What the loops compute is proved, too: `BestOf` is what
`LookupStatic`'s single pass knows after n routes (the longest prefix so far and
the smallest metric among those), and the running sums of a split increase, so
that a draw falls between exactly two of them and the draws of a hop correspond
one to one to an interval of the length of its share. Theorems `Invariance`,
`LookupFindsBest`, `SharesDrawn` and `RoutesUsable`.

**`ArpCacheProofs`**, from numbers for timeouts, limits and bounds.
- `WatchInv`: while an entry waits the shared timer runs, and the entry's age and
  the time left on the timer add up to at most WaitReplyTimeout. This is why the
  timer another entry started fires before this one expires, and the fatal error
  of the lookup is out of reach;
- `QuietInv`: an entry that does not wait holds no packets and no retries;
- `FateInv`, `OrderInv`: the packets that wait are in one queue each, and what a
  host was sent and what waits for it are in the order of handing over;
- `PaceInv`: the ticks an entry has waited and those left on the timer lie between
  its retries and one more, times the timeout.

Theorems `Invariance`, `FatalUnreached`, `QueuesSound`, `OrderKept` and
`GivesUpInTime`, the last an action property.

**`TestRunnerProofs`**, from finite sets of tests and of workers, which are not
empty. `PhaseInv` says what exists in which phase; `PlaceInv` that a test is in one
place only on its way from the list to the report; `JobInv` that a job carries what
running its test gave; `TallyInv` that the tally accounts for what came back, so
that the counts are counts of tests; `NamedInv` that a test that was asked for is on
its way, done with, or lost to a reason that shows; `ReportInv` the same for the
report. Theorems `Invariance`, `JobsAccounted` (`NoneLost`), `VerdictSound`
(`VerdictHonest`) and `ReportSound` (`ReportComplete`).

*Induction.* The library's induction theorems take an operator as a parameter,
which no installed prover can instantiate. Where a loop of the code is a recursive
function (`StaticRouting`, `BlockAck`), the proofs use sets instead: every set of
numbers has a least element (`LeastElement`, from `WFMin`), a set that holds 0
and the successor of each of its numbers holds all (`Induction`), and a loop's
function exists and satisfies its equation (`Recursion`).

Only model-checked:
- liveness (`HandedOverRuns`, `RequestServed`, `StopReturnsUnlessStuck`, the three
  `Resolved`, `Finishes`), which is beyond this prover;
- `WifiStation`: `AssertionsHold`, `NoneStranded`, `BackoffServed`, `PromptAccess`
  and `NoIntrusion`. They hold for the frames and switches of the runs and not for
  every value of the constants (see Disagreements), so they are no theorems as
  they stand.

## Disagreements

Where the code does something else than its comments, documents, tests or
assertions say. The model keeps what the code does. Two are shown by a run, each
with its quotation in `PROJECT.json`:

- `realtime_second_run`: `WallClockSynchronizer::DoSetOrigin` drops its argument,
  so in a second Run real time starts again at 0 while simulated time goes on.
- `wifi_busy_request`: the fork changed the condition for a collision in
  `DcfManager::RequestAccess`. The instant it compares includes the busy period,
  so the condition cannot hold, and `dcf-manager-test.cc` expects otherwise.

The others were met while modelling. Where a change of a configuration lets TLC
show one, it is given.

*Simulator and emulation.* `simulator.h:674-675` says of Remove, "Note that it is
not possible to remove events which were scheduled for the "destroy" time. Doing
so will result in a program error (crash)."; 688-689 says the same of Cancel and
697-699 of IsExpired. In the code all three work: uid 2 marks a destroy event, and
Remove and IsExpired search the destroy list for it
(`default-simulator-impl.cc:265-276`, `307-324`). The model does what the code
does, so `CalledOffNeverRuns` and `DestroyEventsRunInOrder` promise more than that
documentation: a destroy event may be called off, and then does not run.
ScheduleRealtimeWithContext leaves the context of the
event uninitialised. `SystemCondition::TimedWait` carries nanoseconds into the seconds
only above 10^9 (`unix-system-condition.cc:144`); at exactly 10^9
`pthread_cond_timedwait` answers EINVAL, which the loop at 153-161 does not look
for, so it spins until somebody sets the condition: the event waited for comes
late or never, where `wall-clock-synchronizer.cc` expects a wait of the time given.
The values of the two clocks decide whether it happens; in the model any wait may
be refused. `EmuNetDevice::Stop` keeps its event in `m_startEvent` and
cancels `m_stopEvent`, which is never assigned, so two stops can be pending.
StopDevice joins a thread that waits for slots only the joining thread can give
back (`emu-net-device.cc:629`): with a full queue it never returns. Nor does it
when the thread is in `recvfrom` and no frame comes: line 623 closes the socket to
end the thread, and on Linux that does not end the call. `StopReturnsUnlessStuck`
excepts both. A `recvfrom` that fails keeps its slot, so a
restarted device pauses one frame earlier.

*Wifi station.* Waiting for a block ack does not hold access back, and
`EdcaTxopN::Cancel` (`edca-txop-n.cc:721`) does nothing. `dca-txop.cc:587` gives
the reason for doing nothing, "Since we are already doing a backoff, we will get
access to the medium when we can", and a client in its wait for a block ack is
not doing one: with two categories and `"bar"` in `TxKinds`, `NoneStranded`
fails. `SendBlockAckResponse` (`mac-low.cc:1719`) takes over the state of the
station's own exchange, whose timeout is then fatal (`mac-low.cc:1201`): with
`"bar"` in `RxKinds`, `NoneStranded` fails. With two categories **and** packets
that expire there may be a request and no timer: a client is granted access just
when its queue has run dry, the client it collides with draws zero slots, and
`DoRestartAccessTimeoutIfNeeded` starts no timer for an access that is due now.
`wifi_station` therefore has no expiry, and `wifi_flyway` one category, as in
`FlywaysWifiMac`.

*Link.* The retry counters are those of the peer and not of the packet
(`wifi-remote-station-manager.cc:426`), though `dca-txop.h:59` has "every
packet" retransmitted up to the thresholds; an RTS given up leaves the count of
data losses to the next packet. Fragments have the size of the threshold where
`dca-txop.h:57` says "smaller than the threshold", and a packet whose size is a
multiple of it gets a last fragment of no bytes. A packet given up half-way
leaves the receiver defragmenting: it acknowledges and discards everything
(`AckedDelivered` excepts this) until, 4096 numbers later, a packet has the number
of the one given up; its fragments are then put behind those of the other, and a
packet made of two is handed up (`Intact` ends at `reused`). A fragment number has
four bits in the header (`wifi-mac-header.cc:686`, 817): a packet of 17 or more
fragments is acknowledged and never put together, and the receiver is stuck after
it; the bits above are OR-ed into the sequence number. With 256 or more the
`uint8_t` `m_fragmentNumber` (`dca-txop.h:170`) wraps before the last fragment and
the packet does not end. The comment at `dca-txop.cc:592-595` has the frames of the
two queues of an access point numbered "from the same sequence counter"; each
`DcaTxop` constructs a `MacTxMiddle` of its own (`dca-txop.cc:118`;
`nqap-wifi-mac.cc:82`, 89). Packets older than the maximal delay leave the queue
without a report (`wifi-mac-queue.cc:109`).

*Block ack.*
- `1 << index` is an `int` (`ctrl-headers.cc:560`): bit 31 is extended to bits 31
  to 63, and indices from 32 on fall on the bits of other packets, while a block
  may have any number of packets. With `Word` = 32, 33 packets and one loss TLC finds the
  lost packet counted as received; `ctrl-headers.h:131` says the bit indicates
  "that packet having sequence number equals to seq was correctly received".
- `NeedBlockAckRequest` "Returns true if all packets for which a block ack was
  negotiated have been transmitted so a block ack request is needed"
  (`originator-block-ack-agreement.h:102-105`). It compares the `uint8_t`
  `m_sentMpdus` (line 110) with half of `m_bufferSize`, and the buffer granted is
  1024 (`flyways-wifi-mac.cc:520`, `block-ack-manager.cc:159`): the answer is
  always no. A BlockAckReq is scheduled only when queue and retry list are empty, so
  with packets arriving steadily none ever is, and no packet sent under block ack
  is settled.
- `mac-low.cc:1592` compares sequence numbers mapped as sequence controls. With
  `First` = 4093 packets around the wrap are handed up out of order; below 2048
  the mapping keeps the order, which is the hypothesis of `DeliveredOnce`.
- A lost block ack makes the recipient answer the repeated BlockAckReq with
  packets it no longer holds as missing; they are sent again and handed up twice.
  So is a packet that fills a gap and whose ACK is lost: `MacRxMiddle` compares
  with the last number only.
- An ADDBA request given up, or a response lost, leaves the agreement pending and
  the destination blocked for ever.
- Missed block acks count in the peer's retry counter, so the next packet under
  normal ack gets fewer tries; the BlockAckReq itself is repeated without limit.
- A packet given up under normal ack leaves later, acknowledged ones in the
  reordering buffer until the next BlockAckReq.
- Not modelled, but read: `GetNRetryNeededPackets` (`block-ack-manager.cc:281`)
  does not advance past another recipient's packet, and `CleanupBuffers` uses
  iterators after erasing them.

*Routing and addresses.* `Ipv4Interface::RemoveAddress` removes the first address
whatever index it is given (`ipv4-interface.cc:326`; `node/ipv4.h:207`: "Remove
the address at addressIndex on named interface."). `NotifyRemoveAddress` skips
the route after one it removes (`ipv4-static-routing.cc:740`). An unset address
is 0x66666666, so the test against it lets the mask /0 add a network route.
Fractional routes ignore the output device asked for, an older one shadows a
newer one to the same host, they survive their interface (the lookup passes over
them), and fractions whose floating-point sum is not exactly 1 end the program.

*ARP.* A full queue drops the new packet, where the comment says "we dump the
previously waiting packet and replace it with this one" (`arp-cache.cc:313`);
the timer stays scheduled after the last reply; a `WaitReplyTimeout` lowered
during the run could let an entry expire before its timer and reach the fatal
error, so the model's is constant.

*Test driver.* The VALGR entry of a suite is written in a branch that the return
code 2 does not reach (`src/ns-3.9/test.py:1540`, comment at 1512): the report
then has the suite's own entry, and only the tally tells of the leak. The main
thread waits for ever for the job of a worker that died.

## Not modelled

- Real-time: Cancel, ScheduleDestroy and RunOneEvent of the real-time variant
  (the core has them), SetScheduler, the hard limit, drift statistics.
- Wifi: A-MSDU aggregation, fast acks, basic block acks, several recipients,
  expiry inside an agreement, DELBA and the inactivity timeout, rate control,
  signal strength and interference (a frame arrives whole, broken, or only as
  energy), the size limit of the queues, which refuse packets without a report.
- Emulation: sending, encapsulation and the helper process that opens the
  socket: pure I/O.
- Routing: multicast, RouteInput's local delivery, source address selection.
- ARP: hardware addresses, answers to the requests of others.
- Test driver: the rendering of the report as text or HTML, the suites' contents.
- A 32-bit wrap of uids, which takes 2^32 events.
- Most of the Python in the repository is generated bindings
  (`src/ns-3.9/bindings`) and the vendored build system: descriptions of the C++ headers
  without behaviour. The program is the C++ code, and `test.py` the one Python
  program with state of its own; that is where the models are.
- The parts listed as `not_modelled` in `PROJECT.json`, with the reason there.

## Plan

Built so far, in this order: the simulator core, the real-time simulator, the
wifi station, the emulation device, the test driver, the link and its service,
routing, ARP, block acks; then the proofs, for all of these but the wifi station.
What is left:

1. `BlockAck`: a refinement of a LinkService that allows for the repetitions,
   from `OnceInv`.
2. `WifiStation`: the conditions on frame kinds and categories under which
   `NoneStranded` holds, stated as assumptions on constants; `NoIntrusion` is the
   first to prove, from the pairs of listener and timer that MacLow can be in.
3. Further parts worth a model: TCP's connection states over a lossy channel; the
   heap and calendar schedulers against the least key; timers and watchdogs on
   EventLoop; the tap bridge; the point-to-point link with its queue.

## Running

    tlc -config SimulatorCore.cfg SimulatorCore
    tlc -config RealtimeSimulator.cfg RealtimeSimulator
    tlc -config WifiStation.cfg MCWifiStation
    tlc -config EmuNetDevice.cfg EmuNetDevice
    tlc -config WifiLink.cfg WifiLink
    tlc -config BlockAck.cfg BlockAck
    tlc -config StaticRouting.cfg MCStaticRouting
    tlc -config ArpCache.cfg ArpCache
    tlc -config TestRunner.cfg TestRunner
    tlapm SimulatorCoreProofs.tla
    tlapm RealtimeSimulatorProofs.tla
    tlapm EmuNetDeviceProofs.tla
    tlapm WifiLinkProofs.tla
    tlapm BlockAckProofs.tla
    tlapm StaticRoutingProofs.tla
    tlapm ArpCacheProofs.tla
    tlapm TestRunnerProofs.tla

The other configurations are run in the same way with the module `PROJECT.json`
names for them; the longest run and the longest proof take one to two minutes.
