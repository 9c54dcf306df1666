----------------------------- MODULE Dispatcher -----------------------------
(***************************************************************************)
(* The server's QuicDispatcher (tools/quic/quic_dispatcher.cc) with its    *)
(* buffered packet store (quic/core/quic_buffered_packet_store.cc), its    *)
(* time-wait list (tools/quic/quic_time_wait_list_manager.cc) and the read *)
(* loop of QuicSimpleServer: to which session, queue or list every packet  *)
(* of a connection goes, from the first until long after its close.        *)
(*                                                                         *)
(* Sessions are seen from outside: the packets they were given and when    *)
(* they close.  The decision about a client hello is an input; with        *)
(* AsyncProof it can come later, as with a ProofSource that answers later. *)
(***************************************************************************)
EXTENDS Integers, Sequences, FiniteSets, Functions

CONSTANTS
  Conns,            \* connection ids
  Alpns,            \* values of the ALPN tag of client hellos
  AsyncProof,       \* whether the proof source may answer later
  SessionsPerEvent, \* kNumSessionsToCreatePerSocketEvent
  MaxStore,         \* kDefaultMaxConnectionsInStore
  MaxWithoutChlo,   \* kMaxConnectionsWithoutCHLO
  MaxUndecryptable, \* kDefaultMaxUndecryptablePackets
  MaxTimeWait,      \* FLAGS_quic_time_wait_list_max_connections
  LifeSpan,         \* connection_life_span_ of the store
  TimeWaitPeriod,   \* time_wait_period_
  MaxPackets,       \* bound: packets that arrive
  MaxTime           \* bound: time

ASSUME DispatcherConstants ==
  /\ AsyncProof \in BOOLEAN
  /\ {SessionsPerEvent, MaxStore, MaxWithoutChlo, MaxUndecryptable,
      MaxTimeWait, LifeSpan, TimeWaitPeriod} \subseteq Nat \ {0}
  /\ {MaxPackets, MaxTime} \subseteq Nat

VARIABLES
  dispatcher, \* the record below
  closed,     \* length of closed_session_list_
  alarm,      \* whether delete_sessions_alarm_ is set
  scheduled,  \* calls of StartReading the simulator still has to make
  reading,    \* the server reads from its socket
  arrived,    \* packets that arrived so far
  now

vars == <<dispatcher, closed, alarm, scheduled, reading, arrived, now>>

NoExpiration == 0
NoAlpn == "none"

NewDispatcher == [
  sessions   |-> <<>>,  \* session_map_: what each session was given
  store      |-> <<>>,  \* undecryptable_packets_, in order of insertion
  with_chlo  |-> <<>>,  \* connections_with_chlo_, in order of insertion
  deciding   |-> {},    \* client hellos a stateless rejector works on
  time_wait  |-> <<>>,  \* connection_id_map_, in order of insertion
  expiration |-> NoExpiration,      \* deadline of expiration_alarm_
  allowed    |-> SessionsPerEvent,  \* new_sessions_allowed_per_event_loop_
  alpn       |-> NoAlpn]            \* current_alpn_

Init ==
  /\ dispatcher = NewDispatcher
  /\ closed = 0
  /\ alarm = FALSE
  /\ scheduled = 0
  /\ reading = TRUE
  /\ arrived = 0
  /\ now = 1

-----------------------------------------------------------------------------
(* Lists of records with a connection id.                                  *)

Listed(list) == {list[i].conn : i \in DOMAIN list}
Of(list, c) == CHOOSE r \in Range(list) : r.conn = c
DropAt(list, i) == SubSeq(list, 1, i - 1) \o SubSeq(list, i + 1, Len(list))
Without(list, c) ==
  IF c \notin Listed(list) THEN list
  ELSE DropAt(list, CHOOSE i \in DOMAIN list : list[i].conn = c)
Erase(ids, c) ==
  IF c \notin Range(ids) THEN ids
  ELSE DropAt(ids, CHOOSE i \in DOMAIN ids : ids[i] = c)

(* The time-wait list.                                                     *)

IsConnectionIdInTimeWait(d, c) == c \in Listed(d.time_wait)

\* A mutant: a connection that is added again starts counting again.
CountsFromZero(d, c) == 0

\* num_packets of the record that is replaced.
PacketsSoFar(d, c) ==
  IF IsConnectionIdInTimeWait(d, c) THEN Of(d.time_wait, c).num_packets ELSE 0

RepliesSoFar(d, c) ==
  IF IsConnectionIdInTimeWait(d, c) THEN Of(d.time_wait, c).replies ELSE 0

\* TrimTimeWaitListIfNeeded drops the oldest until there is room for one.
Trimmed(list) ==
  SubSeq(list, 1 + (IF Len(list) < MaxTimeWait THEN 0
                    ELSE Len(list) - MaxTimeWait + 1), Len(list))

AddConnectionIdToTimeWait(d, c) ==
  [d EXCEPT !.time_wait =
     Append(Trimmed(Without(@, c)),
            [conn |-> c, num_packets |-> PacketsSoFar(d, c), added |-> now,
             replies |-> RepliesSoFar(d, c)])]

PowerOfTwo[i \in Nat] == IF i = 0 THEN 1 ELSE 2 * PowerOfTwo[i - 1]

ShouldSendResponse(n) == \E i \in 0 .. n : n = PowerOfTwo[i]

\* One more packet, answered if ShouldSendResponse says so.
Answered(r) ==
  [r EXCEPT !.num_packets = @ + 1,
            !.replies = IF ShouldSendResponse(r.num_packets + 1) THEN @ + 1 ELSE @]

\* ProcessPacket of the time-wait list.
ProcessInTimeWait(d, c) ==
  LET list == d.time_wait
  IN  [d EXCEPT !.time_wait =
         [i \in DOMAIN list |-> IF list[i].conn # c THEN list[i] ELSE Answered(list[i])]]

(* The store of early packets.                                             *)

HasBufferedPackets(d, c) == c \in Listed(d.store)
HasChloForConnection(d, c) == c \in Range(d.with_chlo)
BufferedPackets(d, c) ==
  IF HasBufferedPackets(d, c) THEN Of(d.store, c).packets ELSE <<>>

\* ShouldBufferPacket, which says that the packet should not be buffered.
StoreIsFull(d, is_chlo) ==
  \/ Len(d.store) >= MaxStore
  \/ ~is_chlo /\ Len(d.store) - Len(d.with_chlo) >= MaxWithoutChlo

TooManyPackets(d, c) ==
  Len(BufferedPackets(d, c)) - (IF HasChloForConnection(d, c) THEN 1 ELSE 0)
    >= MaxUndecryptable

Buffered(d, c, p, is_chlo) ==
  LET added(packets) == IF is_chlo THEN <<p>> \o packets
                                   ELSE Append(packets, p)
      alpn(old) == IF is_chlo THEN d.alpn ELSE old
      insert == [conn |-> c, packets |-> <<p>>, created |-> now,
                 alpn |-> alpn(NoAlpn)]
      update(r) == IF r.conn # c THEN r
                   ELSE [r EXCEPT !.packets = added(@), !.alpn = alpn(@)]
  IN  IF HasBufferedPackets(d, c)
      THEN [i \in DOMAIN d.store |-> update(d.store[i])]
      ELSE Append(d.store, insert)

\* A mutant: a client hello is queued behind the packets that came before it.
ChloLast(d, c, p, is_chlo) == Buffered(d, c, p, FALSE)

Queue(d, c, p, is_chlo) == Buffered(d, c, p, is_chlo)

MaybeSetExpirationAlarm(d) ==
  IF d.expiration = NoExpiration THEN now + LifeSpan ELSE d.expiration

EnqueuePacket(d, c, p, is_chlo) ==
  IF \/ ~HasBufferedPackets(d, c) /\ StoreIsFull(d, is_chlo)
     \/ ~is_chlo /\ TooManyPackets(d, c)
  THEN d
  ELSE [d EXCEPT !.store = Queue(d, c, p, is_chlo),
                 !.with_chlo = IF is_chlo /\ ~HasChloForConnection(d, c)
                               THEN Append(@, c) ELSE @,
                 !.expiration = MaybeSetExpirationAlarm(d)]

\* A mutant: the store forgets the packets but not the client hello.
DiscardsPacketsOnly(d, c) == [d EXCEPT !.store = Without(@, c)]

DiscardPackets(d, c) ==
  [d EXCEPT !.store = Without(@, c),
            !.with_chlo = Erase(@, c)]

-----------------------------------------------------------------------------
(* What happens to a packet whose connection has no session.               *)

BufferEarlyPacket(d, c, p) == EnqueuePacket(d, c, p, FALSE)

\* kFateTimeWait.
TimeWaitFate(d, c) ==
  DiscardPackets(
    ProcessInTimeWait(
      IF IsConnectionIdInTimeWait(d, c) THEN d
      ELSE AddConnectionIdToTimeWait(d, c), c), c)

\* The session of c is created with current_alpn_ and given its packets.
NewSession(d, c, alpn, packets) ==
  [d EXCEPT !.sessions = [x \in DOMAIN @ \cup {c} |->
                            IF x = c THEN [alpn |-> alpn, given |-> packets]
                            ELSE @[x]],
            !.store = Without(@, c)]

\* kFateProcess.
ProcessChlo(d, c, p) ==
  IF d.allowed <= 0
  THEN EnqueuePacket(d, c, p, TRUE)
  ELSE [NewSession(d, c, d.alpn, <<p>> \o BufferedPackets(d, c))
          EXCEPT !.allowed = @ - 1]

\* ProcessStatelessRejectorState: a hello is accepted or processed as it is,
\* or it failed or was rejected, with the packets that say so.
Decided(d, c, p, accepted) ==
  IF accepted THEN ProcessChlo(d, c, p)
  ELSE TimeWaitFate(AddConnectionIdToTimeWait(d, c), c)

\* The session of the connection whose client hello has waited longest.
DeliverPacketsForNextConnection(d) ==
  LET c == Head(d.with_chlo)
      list == Of(d.store, c)
  IN  [NewSession(d, c, list.alpn, list.packets)
         EXCEPT !.with_chlo = Tail(@), !.allowed = @ - 1]

\* At most SessionsPerEvent sessions, as long as client hellos wait.
ProcessBufferedChlos(d) ==
  LET after[k \in 0 .. SessionsPerEvent] ==
        IF k = 0 THEN [d EXCEPT !.allowed = SessionsPerEvent]
        ELSE IF after[k - 1].with_chlo = <<>> THEN after[k - 1]
        ELSE DeliverPacketsForNextConnection(after[k - 1])
  IN  after[SessionsPerEvent]

-----------------------------------------------------------------------------
(* The read loop: OnReadComplete dispatches one packet and calls           *)
(* StartReading, which creates the sessions that had to wait.              *)

StartReading(d) ==
  LET read == ProcessBufferedChlos(d)
  IN  /\ dispatcher' = read
      /\ scheduled' = IF read.with_chlo # <<>> THEN scheduled + 1 ELSE scheduled

\* Packet p of c arrives and d is what the dispatcher makes of it.
Arrives(p, d) ==
  /\ reading
  /\ arrived < MaxPackets
  /\ p.n = arrived + 1
  /\ arrived' = arrived + 1
  /\ StartReading(d)
  /\ UNCHANGED <<closed, alarm, reading, now>>

\* A packet as far as the dispatcher reads it.  A stray one lacks the version
\* or has a packet number no new connection uses; an early one is valid but has
\* no client hello.  The others are public resets and unsupported versions.
Kinds == {"chlo", "early", "stray", "reset", "unsupported"}

Deciding(d, c) == \E r \in d.deciding : r.conn = c

\* No session, no client hello that waits, not in time wait.
Unknown(c) ==
  /\ c \notin DOMAIN dispatcher.sessions
  /\ ~HasChloForConnection(dispatcher, c)
  /\ ~Deciding(dispatcher, c)
  /\ ~IsConnectionIdInTimeWait(dispatcher, c)

\* An active connection gets its packets at once.
PacketForSession(c, p) ==
  /\ c \in DOMAIN dispatcher.sessions
  /\ Arrives(p, [dispatcher EXCEPT !.sessions[c].given = Append(@, p)])

\* Packets are buffered while the client hello of their connection waits for a
\* session or for its decision, whatever they are.
PacketForWaiting(c, p) ==
  /\ c \notin DOMAIN dispatcher.sessions
  /\ HasChloForConnection(dispatcher, c) \/ Deciding(dispatcher, c)
  /\ Arrives(p, BufferEarlyPacket(dispatcher, c, p))

PacketInTimeWait(c, p) ==
  /\ c \notin DOMAIN dispatcher.sessions
  /\ ~HasChloForConnection(dispatcher, c) /\ ~Deciding(dispatcher, c)
  /\ IsConnectionIdInTimeWait(dispatcher, c)
  /\ Arrives(p, IF p.kind = "reset" THEN dispatcher
                ELSE ProcessInTimeWait(dispatcher, c))

\* Nothing is remembered of a public reset or of an unsupported version.
PacketDropped(c, p) ==
  /\ Unknown(c)
  /\ p.kind \in {"reset", "unsupported"}
  /\ Arrives(p, dispatcher)

\* ValidityChecks fail.
StrayPacket(c, p) ==
  /\ Unknown(c)
  /\ p.kind = "stray"
  /\ Arrives(p, TimeWaitFate(dispatcher, c))

EarlyPacket(c, p) ==
  /\ Unknown(c)
  /\ p.kind = "early"
  /\ Arrives(p, BufferEarlyPacket(dispatcher, c, p))

\* A client hello that is decided at once.
Chlo(c, p, accepted) ==
  /\ Unknown(c)
  /\ p.kind = "chlo"
  /\ Arrives(p, Decided([dispatcher EXCEPT !.alpn = p.alpn], c, p, accepted))

\* A client hello the rejector has to wait for.
ChloToDecide(c, p) ==
  /\ AsyncProof
  /\ Unknown(c)
  /\ p.kind = "chlo"
  /\ Arrives(p, [dispatcher EXCEPT !.alpn = p.alpn,
                                   !.deciding = @ \cup {[conn |-> c, packet |-> p]}])

\* A mutant: the connection is not looked up again after the wait.
DecidedAnyway(d, r, accepted) == Decided(d, r.conn, r.packet, accepted)

\* A connection that has gone into time wait meanwhile stays there.
DecidedLate(d, r, accepted) ==
  IF IsConnectionIdInTimeWait(d, r.conn) THEN ProcessInTimeWait(d, r.conn)
  ELSE Decided(d, r.conn, r.packet, accepted)

OnStatelessRejectorProcessDone(r, accepted) ==
  /\ dispatcher' = DecidedLate([dispatcher EXCEPT !.deciding = @ \ {r}],
                               r, accepted)
  /\ UNCHANGED <<closed, alarm, scheduled, reading, arrived, now>>

-----------------------------------------------------------------------------
\* OnConnectionClosed and CleanUpSession: the session is deleted later, its
\* connection id goes into time wait at once.
Closed(d, c) ==
  [AddConnectionIdToTimeWait(d, c)
     EXCEPT !.sessions = [x \in DOMAIN @ \ {c} |-> @[x]]]

OnConnectionClosed(c) ==
  /\ c \in DOMAIN dispatcher.sessions
  /\ dispatcher' = Closed(dispatcher, c)
  /\ closed' = closed + 1
  /\ alarm' = (alarm \/ closed = 0)
  /\ UNCHANGED <<scheduled, reading, arrived, now>>

DeleteSessions ==
  /\ alarm
  /\ alarm' = FALSE
  /\ closed' = 0
  /\ UNCHANGED <<dispatcher, scheduled, reading, arrived, now>>

\* A mutant: the alarm that went off is not set again for what is left.
NotRearmed(d) == NoExpiration

\* The end of OnExpirationTimeout; the alarm that went off is not set.
Rearmed(d) ==
  IF d.store = <<>> THEN NoExpiration
  ELSE MaybeSetExpirationAlarm([d EXCEPT !.expiration = NoExpiration])

\* OnExpiredPackets, for the oldest entry of the store if it is too old.
ExpireOldest(d) ==
  LET c == Head(d.store).conn
  IN  IF d.store = <<>> \/ Head(d.store).created > now - LifeSpan THEN d
      ELSE DiscardPackets(AddConnectionIdToTimeWait(d, c), c)

\* The oldest are given up until one is young enough.
Expired(d) ==
  LET after[k \in 0 .. Len(d.store)] ==
        IF k = 0 THEN d ELSE ExpireOldest(after[k - 1])
  IN  after[Len(d.store)]

OnExpirationTimeout ==
  /\ dispatcher.expiration # NoExpiration
  /\ dispatcher.expiration <= now
  /\ dispatcher' = [Expired(dispatcher) EXCEPT !.expiration = Rearmed(Expired(dispatcher))]
  /\ UNCHANGED <<closed, alarm, scheduled, reading, arrived, now>>

\* StartReading as scheduled by itself: a read is pending already.
ScheduledStartReading ==
  /\ reading
  /\ scheduled > 0
  /\ scheduled' = scheduled - 1
  /\ dispatcher' = ProcessBufferedChlos(dispatcher)
  /\ UNCHANGED <<closed, alarm, reading, arrived, now>>

AllClosed(d, order) ==
  LET after[k \in 0 .. Len(order)] ==
        IF k = 0 THEN d ELSE Closed(after[k - 1], order[k])
  IN  after[Len(order)]

\* A read fails: every session is closed, in the order of the session map, and
\* deleted, and the socket is closed.
Shutdown ==
  /\ reading
  /\ reading' = FALSE
  /\ LET ids == DOMAIN dispatcher.sessions
     IN  \E order \in Injection(1 .. Cardinality(ids), ids) :
           dispatcher' = AllClosed(dispatcher, order)
  /\ closed' = 0
  /\ alarm' = (alarm \/ (closed = 0 /\ DOMAIN dispatcher.sessions # {}))
  /\ UNCHANGED <<scheduled, arrived, now>>

\* The simulator has nothing left to do at this time.
Tick ==
  /\ now < MaxTime
  /\ dispatcher.expiration # NoExpiration => now < dispatcher.expiration
  /\ ~alarm
  /\ reading => scheduled = 0
  /\ now' = now + 1
  /\ UNCHANGED <<dispatcher, closed, alarm, scheduled, reading, arrived>>

ReadPacket ==
  \E c \in Conns, p \in [n : {arrived + 1}, kind : Kinds, alpn : Alpns] :
    \/ PacketForSession(c, p)
    \/ PacketForWaiting(c, p)
    \/ PacketInTimeWait(c, p)
    \/ PacketDropped(c, p)
    \/ StrayPacket(c, p)
    \/ EarlyPacket(c, p)
    \/ \E accepted \in BOOLEAN : Chlo(c, p, accepted)
    \/ ChloToDecide(c, p)

Next ==
  \/ ReadPacket
  \/ \E r \in dispatcher.deciding, accepted \in BOOLEAN :
       OnStatelessRejectorProcessDone(r, accepted)
  \/ \E c \in Conns : OnConnectionClosed(c)
  \/ DeleteSessions
  \/ OnExpirationTimeout
  \/ ScheduledStartReading
  \/ Shutdown
  \/ Tick

Spec == Init /\ [][Next]_vars

-----------------------------------------------------------------------------
\* A connection that has a session has nothing else: no buffered packets (which
\* OnUnauthenticatedPublicHeader asserts), no undecided client hello, and its
\* id is not in time wait.
RoutesExclusive ==
  \A c \in DOMAIN dispatcher.sessions :
    /\ ~HasBufferedPackets(dispatcher, c)
    /\ ~Deciding(dispatcher, c)
    /\ ~IsConnectionIdInTimeWait(dispatcher, c)

\* A connection whose client hello is buffered has its packets in the store,
\* the hello first.  The number of connections without one, computed by
\* subtracting two sizes, never wraps and respects its limit, and so do the
\* sizes of the store, of its queues and of the time-wait list.
StoreConsistent ==
  /\ \A c \in Range(dispatcher.with_chlo) :
       /\ HasBufferedPackets(dispatcher, c)
       /\ Head(BufferedPackets(dispatcher, c)).kind = "chlo"
  /\ Len(dispatcher.store) - Len(dispatcher.with_chlo) \in 0 .. MaxWithoutChlo
  /\ Len(dispatcher.store) <= MaxStore
  /\ \A c \in Listed(dispatcher.store) :
       Len(BufferedPackets(dispatcher, c)) \in 1 .. MaxUndecryptable + 1
  /\ Len(dispatcher.time_wait) <= MaxTimeWait

\* A session is given its client hello first and everything else once and in
\* the order of arrival, although some of it waited in the store.
DeliveredInOrder ==
  \A c \in DOMAIN dispatcher.sessions :
    LET given == dispatcher.sessions[c].given
    IN  /\ Head(given).kind = "chlo"
        /\ \A i, j \in 2 .. Len(given) : i < j => given[i].n < given[j].n
        /\ \A i \in 2 .. Len(given) : given[i].n # given[1].n

\* Nothing waits for an alarm that is not set: no packet stays in the store
\* for two life spans, and closed sessions are about to be deleted.
NothingForgotten ==
  /\ \A c \in Listed(dispatcher.store) :
       now - Of(dispatcher.store, c).created < 2 * LifeSpan
  /\ closed > 0 => alarm

\* The replies to n packets for a connection in time wait are at most the
\* powers of two up to n, also when the connection was added more than once.
RepliesThrottled ==
  \A i \in DOMAIN dispatcher.time_wait :
    LET r == dispatcher.time_wait[i]
    IN  r.replies > 0 => PowerOfTwo[r.replies - 1] <= r.num_packets

(* What comments say and the code does not do.                             *)

\* "A connection_id lives in this state for time_wait_period_."
TimeWaitExpires ==
  \A i \in DOMAIN dispatcher.time_wait :
    now - dispatcher.time_wait[i].added <= TimeWaitPeriod

\* Current_* correspond to the packet which initiated the stateless reject.
AlpnOfItsChlo ==
  \A c \in DOMAIN dispatcher.sessions :
    dispatcher.sessions[c].alpn = Head(dispatcher.sessions[c].given).alpn

\* Packets buffered while the stateless rejector was running are discarded.
TimeWaitKeepsNoPackets ==
  \A c \in Listed(dispatcher.time_wait) :
    HasBufferedPackets(dispatcher, c) => Deciding(dispatcher, c)
=============================================================================
