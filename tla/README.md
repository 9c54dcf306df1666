# A TLA+ model of the QUIC module and of the map-reduce lab

The repository is an ns-3 module that runs an adapted copy of Chromium's QUIC
in a simulator, extended by a lab: the server appends the statistics of a
connection to `log.txt` whenever it closes a stream, an offline job clusters
the clients by these statistics, and a server that starts later loads the
clusters and gives each new connection the congestion window and round-trip
times of its client's cluster.

This directory models the parts of it where state is shared between steps,
streams or endpoints. Each module is translated from the source;
`PROJECT.json` maps every definition to its lines, lists the runs and what they
check, the mutants that show that each property can fail, the hazards of the
code and the theorems. Paths below are relative to `src/model/net`.

## The system and its parts

| Part | State | Operations | What makes it correct |
|---|---|---|---|
| `LRUCache` (`tools/quic/quic_simple_dispatcher.h`) | hash map, doubly linked list, free entries, miss count | `Put`, `Get`, `attach`, `detach` | index and list hold the same keys; the list is in order of use; the entry unused for longest is evicted |
| `ConnectionStatsQuery` (`quic_simple_dispatcher.cc`) | two caches, file positions | `Initialize`, `Query`, `CreateQuicSession` | the last lines of the file are loaded; answers depend on the files only; initialisation ends |
| `QuicFlowController` | sent, consumed, highest, offsets and sizes of the windows | sending, receiving, `WINDOW_UPDATE`, auto-tuning | credit is bounded, never taken back |
| flow control of a connection (`QuicStream`, `QuicSession`, `QuicWriteBlockedList`) | two levels of controllers, queued data, write-blocked list, locally closed streams | writing, `OnCanWrite`, `OnStreamFrame`, `OnRstStream`, `OnWindowUpdateFrame`, closing | both ends agree on the connection-level account; no overrun; no lost wakeup; writes are sent |
| `QuicStreamSequencer` and its buffer | blocks, gaps, arrival map, close offset | `OnStreamFrame`, reading, `SetUnblocked`, `StopReading` | bytes are kept and read in order, once; nothing is held back; the FIN is read |
| `QuicSession` stream bookkeeping | dynamic, draining, available and locally closed streams, counters | opening, refusing, draining, resetting, closing, disconnecting | counters equal what they count; closed streams stay closed; every request ends |
| statistics log | lines of `log.txt` | `CloseStreamInner` of a server | one line for each stream |
| sending half of `QuicConnection`, `QuicSentPacketManager`, `QuicUnackedPacketMap`, loss detection | packets with their retransmissions, pending retransmissions, queue of the writer, two alarms | sending, acknowledging, losing, timing out, resetting, new keys | counts follow the map; no data is dropped or held twice; something is always due to move it |
| congestion control with the lab's setters (`TcpCubicSenderBytes`, `PrrSender`) | window, threshold, last cutback, recovery counters | sending, acks, losses, timeouts, configuration, migration, setters | the window stays in its range; one cut for each flight; recovery is bounded; an idle sender may send |
| alarms (`QuicAlarm`, `QuicChromeAlarm`) | deadline, posted task, event of the simulator | `Set`, `Cancel`, `Update`, `OnAlarm` | one event at most; the delegate runs on time |
| dispatcher, time-wait list, buffered packets, read loop of the server | session map, lists, store, undecided client hellos, alarms | each fate of a packet, closing, expiring, late decisions, shutdown | a connection is in one place; packets in order; nothing waits for an alarm that is not set |
| received packets, crypto handshake, framer, configuration, ns-3 shims, examples | | | not modelled |

How they interact: the dispatcher creates a server session for each new
connection and asks `ConnectionStatsQuery` about the client. A session owns
streams; a stream writes through the session, which charges both levels of flow
control, and reads through its sequencer, which gives bytes back to both.
Closing a stream touches all of it: the controllers, the write-blocked list,
the counters, the peer (`RST_STREAM`) and the log. Below the session, the
connection puts frames into packets, the sent packet manager keeps them until
they are acknowledged and asks the congestion controller whether more may be
sent, and every wait is an alarm that the port runs on the simulator's events.

What makes it hard: frames are lost and retransmitted, so any frame can arrive
late, repeatedly and out of order; the two ends close a stream at different
times; the code re-enters itself while closing a stream; two streams share a
connection window; the buffer is circular and its blocks are shared by both
ends of the data; a file is scanned backwards byte by byte. An old
transmission can be acknowledged after two newer ones were made of it, and a
timer can fire for a packet that already waits to be resent. Sizes are unsigned
and windows are seeded from files. Alarms written for tasks that cannot be
withdrawn run on events that can.

## The modules

| Module | Models |
|---|---|
| `LRU` | abstract least-recently-used cache |
| `LRUCache`, `MCLRUCache` | the cache with its pointers, its instance for TLC |
| `ConnectionStatsQuery`, `MCConnectionStatsQuery` | loading the files and answering lookups |
| `QuicFlowController` | one controller, as operators on its two halves |
| `FlowControl`, `MCFlowControl` | one direction of a connection, with the network |
| `FlowControlProofs`, `FlowAccounts` | its proofs: the windows of each level, and the accounts of the connection |
| `SumTheorems` | what sums over finite sets add up to, for the proofs about bytes |
| `QuicStreamSequencerBuffer` | the buffer, as operators on its state |
| `StreamSequencer`, `MCStreamSequencer` | the sequencer with its reader |
| `QuicSession`, `QuicSessionProofs` | the bookkeeping of one endpoint, as operators on a session, and what each method keeps |
| `RequestResponse`, `RequestResponseProofs` | a client and a server session and the network between them, and the proofs about the two |
| `QuicUnackedPacketMap` | the map of sent packets, as operators on it |
| `SentPackets` | the sending half of a connection, with the peer's acknowledgements |
| `TcpCubicSender`, `MCTcpCubicSender`, `TcpCubicSenderProofs` | the congestion controller of a server connection |
| `QuicAlarm` | one alarm and the simulator under it |
| `CacheAndAlarmProofs` | the proofs about `LRUCache` and `QuicAlarm` |
| `Dispatcher`, `MCDispatcher`, `DispatcherProofs` | the dispatcher with its store, its time-wait list and the server's read loop, and its proofs |

**LRUCache.** The variables are the fields of the class and of its nodes. `Put`
and `Get` are split by their branches (`PutPresent`, `PutFree`, `PutEvict`,
`GetHit`, `GetMiss`). `hashmap_[key]` inserts an empty entry for a missing key,
so `NULL` and `Absent` are different values. History variables `lastUse` and
`clock` record the order of use. `ImplementsLRU` is the abstract specification
under a refinement mapping.

**ConnectionStatsQuery.** `ip-cluster` is a sequence of lines, and `Text` the
bytes that `peek` and `seekg` see. Each turn of the two loops of `Initialize` is
a step; the caches appear as sequences in order of use, which `LRUCache`
implements. Lines are assumed not to be empty, nor is the ip-cluster file:
an empty file makes the first seek fail, and the inner loop then never ends.

**FlowControl.** A sender (`snd`, `out`, `writeBlocked`) and a receiver (`rcv`,
`in`, `locallyClosed`). Frames stay in `toReceiver` and `toSender` once sent, so
they can be delivered at any later time and any number of times; loss is a frame
not delivered yet. Each action is a handler to its end. Where the code ends a
frame's handling with `PostProcessAfterData`, which destroys closed streams and
takes them off the write-blocked list, so does the action; the action of that
name stands for the same call after events that change nothing else here. A write may be taken in part by the connection (congestion
control). `AutoTune` lets windows grow whenever the code's timing test might
pass. `FinAlone` lets a FIN travel in a frame of its own ahead of its data.

**StreamSequencer.** Bytes are their own offsets, so that reading out of order,
twice or from a reused block is visible. A fresh block contains `Garbage`. Any
of `Frames` may arrive at any time; those of `Cut`, which the peer retransmits,
eventually do.

**QuicSession, RequestResponse.** A session is a record; each method maps
sessions to sessions, so nested calls compose as in the code. Headers travel in
order on the headers stream, bodies in chunks that the network reorders and
repeats. The overrides of `QuicSpdyServerStreamBase` change nothing for the
modelled messages. Paths that only a malformed peer reaches and server push,
which the lab's server never starts, are left out.

**SentPackets.** A chunk is a piece of data or a control frame that has to
arrive. The packet map, `pending_retransmissions_`, the queue behind a blocked
writer and the counters are variables of their own. A handler that writes runs
through the loops of `OnCanWrite`: `pc` says where it is, and nothing else
happens until it is back at `"idle"`. Each of the four retransmission modes is
a disjunct of `OnRetransmissionTimeout`. Time is abstracted to the outcome of
comparisons: a loss timer may or may not have run out when it is looked at.
The peer acknowledges any set of packets that were sent, so acknowledgements
are lost, late and repeated.

**TcpCubicSender.** One call of `OnCongestionEvent` is a sequence of steps, one
for each lost and then each acknowledged packet, with nothing in between.
`QueryHits` is what `CreateQuicSession` sets for a known client,
`SetFromConfig` what the client's connection options change. `Minus` is the
subtraction of an unsigned type. The cubic curve, computed with real numbers
from the time, gives any window of `Curve`.

**QuicAlarm.** `Update` is one action although it cancels and sets again.
Events carry identities, because `SetImpl` overwrites the one the alarm keeps.
The history variables `asked` and `fired` relate an invocation of the delegate
to the request it answers.

**Dispatcher.** Each outcome of `ProcessPacket` is an action: to a session,
behind others in the store, into time wait, dropped, buffered, decided now or
later. A packet knows the order of its arrival. The decision about a client
hello is an input. `AsyncProof` allows it to come later; the lab's proof source
answers at once.

## The runs

| Run | Shows | States |
|---|---|---|
| `lru_cache` | the list is in order of use; refinement of the abstract cache | 2 381 |
| `connection_stats` | the last lines are loaded, answers follow the files, loading ends | 142 245 |
| `flow_control` | no overrun, bounded and monotone credit, equal accounts, no lost wakeup, with auto-tuning | 706 209 |
| `flow_control_live` | every write is sent or its stream is closed | 121 644 |
| `stream_sequencer` | bytes are kept, counted and read in order, fitting frames are accepted, the FIN is read | 32 635 |
| `request_response` | counters, agreement of both ends, ids, announcements, log; every request ends | 62 516 |
| `sent_packets` | counts, retransmission chains, every chunk held once, nothing stuck | 298 839 |
| `congestion_control` | range of the window, one cut for each flight, idle senders send, recovery is bounded | 5 112 658 |
| `alarm` | one event, invoked on time | 15 499 |
| `dispatcher` | one place for each connection, limits and order of the store, expiry, throttled replies | 207 822 |
| `flow_control_fin_alone` | *violation*, below | |
| `alarm_lost` | *violation*, below | |

Two runs show the code departing from its comments:

* `flow_control_fin_alone`: `QuicStream::OnStreamFrame` records a FIN without
  data as the final offset, but does not count the bytes before it. If the FIN
  overtakes its data and the stream is reset locally, the session believes that
  nothing is left to settle, and the connection window loses those bytes for
  good. `OnClose` says that both endpoints keep the same state. With
  `FinAlone = TRUE` in `MCFlowControlLive.cfg`, `WritesAreSent` fails too: in
  that instance the whole connection window is lost and the other stream stalls.
* `alarm_lost`: `QuicChromeAlarm::CancelImpl` cancels the event of the simulator
  and keeps `task_deadline_`. The next deadline, unless it is earlier, is left to
  the task of that event, "since tasks can not be un-posted", and never comes. An
  owner that only sets its alarm and moves it earlier (`Calls = {"set",
  "earlier"}`) is safe: `AlarmGoesOff` then holds.

### Other departures

The modules state some more promises of comments and assertions that the code
does not keep. They are not runs of their own; each is found by adding the named
property to the configuration, with the change given.

| Property | Configuration | What happens |
|---|---|---|
| `AlarmAlwaysSet` | `MCSentPackets` | an acknowledgement takes away what a timeout was about to send, `pending_timer_transmission_count_` stays above zero, and no alarm is set for the packets left (`quic_connection.cc:1838`) |
| `CryptoPacketFound` | `MCSentPackets` | the handshake alarm goes off while the handshake packet already waits to be resent (`quic_sent_packet_manager.cc:637`) |
| `LossNeverGrowsWindow` | `MCTcpCubicSender` | the floor set from statistics is above the window after the cut, and the next loss raises it (`tcp_cubic_sender_bytes.cc:158`) |
| `MinimumHeld` | `MCTcpCubicSender`, `OptionSets = {{"SSLR"}}` | that floor can be half the initial window, below the minimum (`tcp_cubic_sender_bytes.cc:21`) |
| `LargeReductionPossible` | `MCTcpCubicSender` | with `MIN1` a timeout leaves one segment, and the large reduction takes it (`tcp_cubic_sender_bytes.cc:180`) |
| `OneCutEver` | `MCTcpCubicSender` | migration forgets the last cutback while its packets are in flight (`tcp_cubic_sender_bytes.cc:150`) |
| `TimeWaitExpires` | `MCDispatcher` | the clean-up alarm is never set (`quic_time_wait_list_manager.h:34`) |
| `AlpnOfItsChlo` | `MCDispatcher`, `Alpns = {x, y}` | a late decision uses the ALPN of another client hello (`quic_dispatcher.cc:972`) |
| `TimeWaitKeepsNoPackets` | `MCDispatcher` | an early return leaves buffered packets behind (`quic_dispatcher.cc:446`) |
| `SessionWindowFollows` | `MCFlowControl` | `EnsureWindowAtLeast` compares with the limit of the window (`quic_flow_controller.h:30`) |
| `StopReadingDiscards` | `MCStreamSequencer`, as a PROPERTY | `SetUnblocked` calls `OnDataAvailable` after `StopReading` (`quic_stream_sequencer.h:76`) |

### Bounds

* `lru_cache`: three entries and four keys, so that each eviction has a choice
  and evicted keys return; `MaxUses` and `MaxMisses` bound the history clock and
  the miss counter. Keys, values and entries are symmetric.
* `connection_stats`: files of up to three lines of one or two bytes, two
  lines of cache: fewer lines than the cache, as many and more, and one cluster
  too many for the cache of statistics.
* `flow_control`: two streams of three bytes with windows of two and three that
  auto-tuning may double. The streams exceed their own window and together the
  connection's; once the session window has grown, updates are sent while some
  of it is left. Streams are symmetric. `flow_control_live` uses windows of two
  and streams of two bytes, without auto-tuning and without symmetry, which is
  not sound for liveness.
* `stream_sequencer`: a buffer of seven bytes in blocks of three, so that the
  last block is short and a stream of ten bytes wraps around; all frames of one
  to three bytes and the FIN alone; three gaps, few enough to be exceeded.
* `request_response`: two streams, of which a server limit of one lets the
  second be refused, or be skipped and become available; requests of one chunk
  and responses of two, so that bodies are written in parts.
* `sent_packets`: a handshake chunk sent without keys and a chunk of a stream
  that may be reset, over four packet numbers: losses by threshold and by timer,
  chains of retransmissions, packets of acks only. A handshake packet is
  twice as large as others, so that a wrong packet shows in the counts.
* `congestion_control`: segments of two bytes and packets of one, five packets
  (a flight of two, and room for three more in recovery); timeouts, a blocked
  writer and migration happen up to the second packet (`CalmAfter`);
  windows from one to four segments. A cubic sender with large reductions and a
  minimum of one segment, the hardest case for subtractions and for PRR, and a
  Reno sender with all other options but `1CON`. The theorems hold for every
  other choice.
* `alarm`: seven microseconds, a rounding of two, two granularities and two event
  identities, one more than the alarm may use.
* `dispatcher`: three symmetric connections and four packets; a store for two
  connections, one of them without a client hello, one further packet for each, a
  time-wait list of one and one new session for each event, so that every limit
  is reached (only a third connection finds the limit on new sessions used up by
  late decisions); a life span of one and four units of time, for the store to
  expire more than once.

Deadlock is checked for the cache, which always accepts another call. The other
systems may really stop: the loader exits if a file is missing, a stream has been
read to its end or failed, all streams are closed, or the connection is, no
packet or time is left within the bounds.

### Fairness

`Initialize` runs without interruption, so it is weakly fair. Frames are
retransmitted until acknowledged, so some deliverable frame is eventually
delivered (`flow_control_live`, `request_response`), and each frame of the cut
in `stream_sequencer` is. A listed stream gets its turn in `OnCanWrite`, and
the connection does not refuse to take anything for ever, because congestion
control reopens. In `alarm_lost` the simulator runs what is scheduled and time
passes. Nothing is assumed about applications: they may stop writing, reset or
disconnect at any time.

## What is proved

`CacheAndAlarmProofs`, for every finite non-empty set of entries and all keys and
values:
`TypeOK`, `ListInOrderOfUse`, `IndexMatchesList`, `EvictsLeastRecentlyUsed` and
the refinement `ImplementsLRU`. The inductive invariant adds that entries in use
have data and were last used at distinct times, which is what makes the tail of
the list the oldest entry. The refinement needs that the attached entries and the
cached keys are equally many, so that a free entry means room.

The same module, for an alarm with every start time after zero, rounding, owner and set of
identities: `AlarmHasOneTask` (`OneTask`) and `AlarmFiresOnTime` (`FiresOnTime`).
The invariant adds that a pending event belongs to the deadline that the last
request amounts to. This is also why `alarm_lost` is possible: every cancellation
really removes the event.

`FlowControlProofs`, for every finite set of streams, all windows of at least two bytes
up to their limits, all lengths, with and without auto-tuning and `FinAlone`:

* `FlowTypeCorrect` (`TypeOK`), `CreditSafe` (`CreditBounded`),
  `CreditMonotone` (`CreditNeverShrinks`), `WakeupSafe` (`NoLostWakeup`).

The inductive invariant `IInv` says that, at each level, sent bytes stay within
the credit the sender knows of, and that within the credit given; that windows
were given out by the rules (`Fits`); that what was read had arrived and what
arrived had been sent; and that frames under way speak of bytes already sent, and
updates of credit already given. The last part is what makes late and repeated
frames harmless. `NoLostWakeup` is inductive on top of it.

`FlowAccounts`, from the same assumptions, adds what relates the connection to all
of its streams:

* `WindowsNeverOverrun` (`NoFlowControlViolation`): neither a stream nor the
  connection receives more than its window, so no correct peer is ever
  disconnected for it;
* `AccountsSafe` (`AccountsAgree`), if no FIN travels without data
  (`~FinAlone`): the connection has consumed exactly the accounted bytes of its
  streams. `flow_control_fin_alone` shows that the condition is needed.

The invariant `AInv` is about sums over the streams: what the connection has sent
is the sum of what they sent, what it has received is no more than the sum of what
arrived, and, without FINs alone, what it has consumed is the sum of what was read
or given back. Each handler changes one summand. What keeps a stream's bytes from
being given back twice is `StreamAccount`: a closed stream that still waits for its
final offset is listed, and any final offset under way is the true one.

`SumTheorems` proves what both this and the next section need about
`SumFunctionOnSet`: it is defined by a recursion over the set, and every fact that
calls for an induction is proved from a smallest counterexample, which the
well-founded order of the subsets of a finite set provides.

`TcpCubicSenderProofs`, for every segment size, every limit of at least two
segments, all estimates, curves within the limits, sets of options and packets
smaller than a segment:

* `WindowIsSound` (`WindowSound`), `IdleSenderSends` (`SendsWhenIdle`),
  `OneCut` (`OneCutPerFlight`) and `RecoveryIsBounded` (`RecoveryBounded`).

`SenderInvariant` is the inductive invariant. `WindowInv` bounds the windows: the
initial window is two segments or more because `CreateQuicSession` runs before
options can lower the minimum, so the floor of a reduction, half of it, is one
segment or more, and the packet that a loss subtracts is smaller than that.
`PacketInv` says that packets in flight or lost were sent. `CutInv` says that those
of them sent before the last cutback are known as such to the sender, unless it
was reset.

`RecoveryInvariant` stands on it. `FlightInv` says that the bytes in flight are
those of the packets in flight and that the packets of an event were in flight
when it began. `Conserved` then holds from a cutback until a later packet is
acknowledged: what PRR counts as delivered and what it still expects is less than
what was in flight, because at least one packet is lost, and what is in flight is
what was, and what was sent, less what was delivered. So the proportional rule of
`PrrSender`, the one comparison of two products (`PrrSaysNo`), refuses whenever
as much is in flight as at the loss and as the window; its other rules each
compare with one of the two. A packet it lets go is smaller than a segment.

`QuicSessionProofs` and `RequestResponseProofs`, for every finite set of the odd
ids that a client may use (above 3, the ids of the crypto and the headers stream),
every limit on open and on available streams and all lengths of messages:

* `CountersSafe` (`CountersConsistent`), `EndsAnnounced` (`EndIsAnnounced`),
  `LogSafe` (`OneLogLinePerStream`), `LimitsAgree` (`ServerCountsNoMore`) and
  `ClosedForGood` (`ClosedStaysClosed`);
* `NoIdRejected` (`NoStreamIdError`), if a client may have at most one stream more
  open than the server may set aside as available
  (`MaxOutgoing <= MaxIncoming * AvailableMultiplier + 1`). The code's multiplier
  is 10, and `OnConfigNegotiated` lets a server accept more streams than it allows
  its client, so the condition holds there.

A session changes only by its own methods, so `QuicSessionProofs` is about one
session `x`: every method, nested calls included, keeps `SessionGood(x, known,
ended)`, where `known` are the ids that the peer has opened and `ended` the streams
whose end it has announced. `SessionGood` says of each stream whether it was ever
opened, that a closed one has announced its end, how many lines the log has for it
and that an end that was heard had been announced; and that the counters equal
what they count. A stream may be between two states while a method is at work on
it; `Tidy` says that no stream is when none is. Sessions only move forward (`Goes`):
ids and announcements are never taken back. The invariant `RInv` of the two
(`SessionsStayTogether`) puts each session's `known` and `ended` to what the other
has really done, and since these only grow, a step of one session keeps the other's
half. `LInv` adds for `NoIdRejected` that the client keeps to its limit and
that an id below the largest the server has heard of is set aside or was seen, so
that the ids set aside for one new stream all belong to streams the client counts.

`DispatcherProofs`, for every set of connections, all limits and life spans of at
least one, with and without an asynchronous proof source:

* `DispatcherRoutes` (`RoutesExclusive`), `DispatcherStore` (`StoreConsistent`),
  `DispatcherDelivers` (`DeliveredInOrder`), `DispatcherForgetsNothing`
  (`NothingForgotten`) and `DispatcherThrottles` (`RepliesThrottled`).

`DispatcherInv` is a predicate of a dispatcher, because an event handles the
dispatcher in several stages: each stage (a packet buffered, discarded or delivered,
a session opened, an id put into time wait) keeps it, and the loops of
`ProcessBufferedChlos`, `OnExpirationTimeout` and `Shutdown` keep it by counting their
turns. It has one part for each structure. `StoreInv`: entries have different
connections, those listed with a client hello begin with it and the others have
none, and queues are in order of arrival. `AgeInv`: entries are in order of
creation, and the one alarm is due less than two life spans after each of them.
`DecidingInv`: a client hello under decision is in no queue. `RouteInv`: beside
`RoutesExclusive`, no connection with a waiting client hello is in time wait or being
decided; without it the next event could open a session for a connection in time
wait. That the number of connections without client hello does not wrap is then a
matter of counting: different hellos belong to different entries.

Only proved, because the refinement covers them in the instance or because they are
types: `IndexMatchesList`, `EvictsLeastRecentlyUsed`, and `TypeOK` of `LRUCache`,
`FlowControl` and `QuicAlarm`.

Only model-checked:

* all liveness (`InitializeEnds`, `WritesAreSent`, `FinIsRead`, `RequestsEnd`), which
  the prover does not handle, and `AlarmGoesOff`, which fails;
* `ConnectionStatsQuery`: its answers depend on what the scan of a file's text and the
  splitting into lines compute, functions defined by recursion over the data, beside the
  order of use in the caches, which the refinement of `LRUCache` covers;
* the sequencer: what `BlocksHoldUnread` and `ReadInOrder` say of a byte goes through the
  circular position of each offset, and through gap lists that one frame may change in
  several places;
* `SentPackets`: `RetransmissionsSound` and `NoDataLost` are about chains of
  retransmissions, least sets closed under a pointer, and the invariant would have to
  follow each position of the write loop.

## Not modelled

* Received packets: `SentPackets` takes every acknowledgement a peer could send.
  `QuicReceivedPacketManager` itself keeps an interval set, sequentially.
* BBR, pacing, the loss detectors and the undo of retransmissions that connection
  options select, pings, MTU discovery and closing after repeated timeouts.
* Round-trip times and the real-valued cubic curve: their outcomes are inputs.
* `QuicFlowController::UpdateReceiveWindowSize`, which acts before any data.
* Priorities of the write-blocked list: all requests of the lab have one.
* Two different final offsets for a stream, GOAWAY, pushed streams.
* Blocked writes of the dispatcher, which the simulator's sockets do not have, and
  `StopAcceptingNewConnections`, which nobody calls.
* The contents of `log.txt`, the clustering job, the length of answers.
* The crypto handshake depends on keys and certificates; its effects on packets are
  inputs of `SentPackets` and `Dispatcher`. The client's connect loop adds only
  the handshake.
* Framer, packet creator, configuration, ns-3 glue, and the vendored libraries
  (`base`, `crypto`, `third_party`, `url`, `sdch`), which are most of the source:
  serialisation, containers, platform code and generated tables, without a
  protocol or shared state of their own.
