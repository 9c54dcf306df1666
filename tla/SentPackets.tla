---------------------------- MODULE SentPackets ----------------------------
(***************************************************************************)
(* The sending half of a QuicConnection: QuicSentPacketManager with its    *)
(* map of unacked packets and loss detection, the packets queued behind a  *)
(* blocked writer, and the retransmission and send alarms.                 *)
(*                                                                         *)
(* The connection runs one handler at a time.  A handler that writes runs  *)
(* through QuicConnection::OnCanWrite, whose loops are the steps between   *)
(* two states with pc = "idle"; nothing else happens until it is back      *)
(* there.  ret is where OnCanWrite returns to.                             *)
(*                                                                         *)
(* Time is abstracted to the outcome of its comparisons.  The peer may     *)
(* acknowledge any packet that was sent, and any may be lost.  Congestion  *)
(* control is external: it may refuse to send while packets are in flight. *)
(***************************************************************************)
EXTENDS QuicUnackedPacketMap, Sequences

CONSTANTS
    Crypto,          \* the chunks of the crypto stream
    Plain,           \* those of them that are sent with ENCRYPTION_NONE
    Resettable,      \* the chunks of a stream that may be reset
    MaxPackets       \* bound: packet numbers in use

ASSUME ChunkSets == Plain \subseteq Crypto /\ Crypto \subseteq Chunks
                    /\ Resettable \subseteq Chunks \ Crypto

kMaxTailLossProbes == 2
kMaxRetransmissionsOnTimeout == 2
kNumberOfNacksBeforeRetransmission == 3

VARIABLES
    unacked,               \* unacked_packets_.unacked_packets_
    largest_sent,          \* unacked_packets_.largest_sent_packet_
    largest_retransmittable, \* ...largest_sent_retransmittable_packet_
    largest_observed,      \* unacked_packets_.largest_observed_
    bytes_in_flight,       \* unacked_packets_.bytes_in_flight_
    crypto_count,          \* unacked_packets_.pending_crypto_packet_count_
    pending,               \* pending_retransmissions_: number -> linked
    timer_count,           \* pending_timer_transmission_count_
    tlp_count,             \* consecutive_tlp_count_
    largest_newly_acked,   \* largest_newly_acked_
    loss_timeout,          \* loss_detection_timeout_ is set
    confirmed,             \* handshake_confirmed_, and forward secure
    queued,                \* queued_packets_
    packet_number,         \* the last number the packet creator used
    blocked,               \* writer_->IsWriteBlocked()
    alarm,                 \* retransmission_alarm_ is set
    send_alarm,            \* send_alarm_ is set
    pc, ret,               \* where the running handler is
    written,               \* history: the chunks given to the connection
    carried,               \* history: the chunks in each packet of unacked
    delivered,             \* history: the chunks in an acknowledged packet
    unlinked,              \* history: the chunks resent under new keys
    reset                  \* history: the stream of Resettable was reset

mapVars  == <<unacked, largest_sent, largest_retransmittable, largest_observed,
              bytes_in_flight, crypto_count>>
sendVars == <<pending, timer_count, tlp_count, largest_newly_acked,
              loss_timeout, confirmed>>
connVars == <<queued, packet_number, blocked, alarm, send_alarm>>
pcVars   == <<pc, ret>>
history  == <<written, carried, delivered, unlinked, reset>>
vars     == <<mapVars, sendVars, connVars, pcVars, history>>

\* SerializedPacket.  A retransmission has no frames of its own: the map moves
\* them from the original when it is sent.  payload is what is on the wire.
Packets == [number : Nat, original : Nat, linked : BOOLEAN,
            frames : SUBSET Chunks, payload : SUBSET Chunks]

TypeOK ==
    /\ \E first \in 1..(largest_sent + 1) : unacked \in [first..largest_sent -> Infos]
    /\ \A v \in {largest_sent, largest_retransmittable, largest_observed,
                 bytes_in_flight, crypto_count, timer_count,
                 largest_newly_acked, packet_number} : v \in Nat
    /\ tlp_count \in 0..kMaxTailLossProbes
    /\ pending \in [DOMAIN pending -> BOOLEAN]
    /\ queued \in Seq(Packets)
    /\ \A b \in {loss_timeout, confirmed, blocked, alarm, send_alarm, reset} : b \in BOOLEAN
    /\ pc \in {"idle", "queued", "pending", "reserialize", "visitor", "tlp", "check"}
    /\ ret \in {"idle", "tlp", "check"}
    /\ DOMAIN carried = DOMAIN unacked
    /\ \A S \in {written, delivered, unlinked} : S \subseteq Chunks

Init ==
    /\ unacked = [n \in 1..0 |-> NewInfo(0)]
    /\ largest_sent = 0 /\ largest_retransmittable = 0 /\ largest_observed = 0
    /\ bytes_in_flight = 0 /\ crypto_count = 0
    /\ pending = [n \in {} |-> TRUE]
    /\ timer_count = 0 /\ tlp_count = 0 /\ largest_newly_acked = 0
    /\ loss_timeout = FALSE /\ confirmed = FALSE
    /\ queued = <<>> /\ packet_number = 0
    /\ blocked = FALSE /\ alarm = FALSE /\ send_alarm = FALSE
    /\ pc = "idle" /\ ret = "idle"
    /\ written = {} /\ delivered = {} /\ unlinked = {} /\ reset = FALSE
    /\ carried = [n \in 1..0 |-> {}]
-----------------------------------------------------------------------------
\* Writing a packet.

IsRetransmittable(p) == p.original # 0 \/ p.frames # {}

\* A handshake packet is padded, so that sizes differ.
SizeOf(p) == IF p.payload \cap Crypto # {} THEN 2 ELSE 1

\* GetRetransmissionTime is not zero, in whatever mode.
AlarmIsDue(u, bytes, count) ==
    bytes > 0 /\ count = 0 /\ HasUnackedRetransmittableFrames(u)

\* The map before p is added to it: skipped numbers filled in, and the frames
\* of the packet that p replaces, if it is still there, taken out.
MakeRoom(p) ==
    LET padded == unacked @@ [n \in (largest_sent + 1)..(p.number - 1) |-> SkippedInfo]
    IN IF p.original \in DOMAIN unacked
       THEN RemoveObsoletePackets(
                Transfer(padded, p.original, p.number, p.linked), largest_observed)
       ELSE padded

InfoOf(p) ==
    [NewInfo(SizeOf(p)) EXCEPT
        !.frames = IF p.original \in DOMAIN unacked
                   THEN unacked[p.original].frames ELSE p.frames,
        !.has_crypto_handshake =
            IF p.original \in DOMAIN unacked
            THEN unacked[p.original].has_crypto_handshake
            ELSE p.frames \cap Crypto # {},
        !.in_flight = IsRetransmittable(p)]

\* OnPacketSent: what is still pending.
Sent(p) == [n \in DOMAIN pending \ {p.original} |-> pending[n]]

AddSentPacket(p) ==
    LET u == MakeRoom(p) @@ (p.number :> InfoOf(p))
    IN /\ unacked' = u
       /\ largest_sent' = p.number
       /\ bytes_in_flight' = bytes_in_flight + IF IsRetransmittable(p) THEN SizeOf(p) ELSE 0
       /\ largest_retransmittable' =
             IF IsRetransmittable(p) THEN p.number ELSE largest_retransmittable
       /\ crypto_count' = crypto_count + IF p.frames \cap Crypto # {} THEN 1 ELSE 0
       /\ carried' = [n \in DOMAIN u |-> IF n \in DOMAIN carried THEN carried[n]
                                         ELSE IF n = p.number THEN p.payload ELSE {}]

\* QuicConnection::WritePacket, once the packet is neither discarded nor held
\* back.  The writers of the lab buffer the packet on which they block.
WritePacket(p) ==
    /\ AddSentPacket(p)
    /\ pending' = Sent(p)
    /\ timer_count' = IF timer_count > 0 THEN timer_count - 1 ELSE 0
    /\ blocked' \in BOOLEAN
    /\ alarm' = IF IsRetransmittable(p) \/ ~alarm
                THEN AlarmIsDue(unacked', bytes_in_flight', timer_count') ELSE alarm
    /\ UNCHANGED <<largest_observed, tlp_count, largest_newly_acked, loss_timeout,
                   confirmed, delivered, reset>>

ShouldDiscardPacket(p) == confirmed /\ p.payload \cap Plain # {}

SendOrQueuePacket(p) ==
    \/ /\ queued = <<>> /\ ~blocked
       /\ WritePacket(p)
       /\ UNCHANGED queued
    \/ /\ queued # <<>> \/ blocked
       /\ queued' = Append(queued, p)
       /\ UNCHANGED <<mapVars, sendVars, blocked, alarm, carried, delivered, reset>>

NextNumber == packet_number + 1

\* A new packet.  Stream data and control frames are only packed when they can
\* be written; a handshake packet always, to keep its encryption level.
SendPacket(frames) ==
    /\ pc \in {"idle", "visitor"} /\ packet_number < MaxPackets
    /\ \/ frames \cap Crypto = {} /\ ~blocked /\ ~send_alarm
       \/ ~confirmed /\ frames \subseteq Crypto
    /\ reset => frames \cap Resettable = {}
    /\ SendOrQueuePacket([number |-> NextNumber, original |-> 0, linked |-> TRUE,
                          frames |-> frames, payload |-> frames])
    /\ packet_number' = NextNumber
    /\ written' = written \cup frames
    /\ UNCHANGED <<send_alarm, pcVars, unlinked>>

SendData == \E frames \in SUBSET (Chunks \ written) \ {{}} : SendPacket(frames)

AckPacket == [number |-> NextNumber, original |-> 0, linked |-> TRUE,
              frames |-> {}, payload |-> {}]

\* A packet with an ack and nothing to retransmit.
SendAck ==
    /\ pc = "idle" /\ packet_number < MaxPackets /\ ~blocked
    /\ SendOrQueuePacket(AckPacket)
    /\ packet_number' = NextNumber
    /\ UNCHANGED <<send_alarm, pcVars, written, unlinked>>
-----------------------------------------------------------------------------
\* QuicConnection::OnCanWrite: the queue, then what is pending, then new data.

WriteIfNotBlocked(to) ==
    /\ pc' = IF blocked THEN to ELSE "queued"
    /\ ret' = to

DropQueued ==
    /\ queued' = Tail(queued)
    /\ UNCHANGED <<mapVars, sendVars, packet_number, blocked, alarm, send_alarm, pcVars, history>>

WriteQueuedPackets ==
    /\ pc = "queued"
    /\ \/ /\ queued # <<>> /\ ShouldDiscardPacket(Head(queued))
          /\ DropQueued
       \/ /\ queued # <<>> /\ ~ShouldDiscardPacket(Head(queued)) /\ ~blocked
          /\ WritePacket(Head(queued))
          /\ queued' = Tail(queued)
          /\ UNCHANGED <<packet_number, send_alarm, pcVars, written, unlinked>>
       \/ /\ queued # <<>> => blocked /\ ~ShouldDiscardPacket(Head(queued))
          /\ pc' = "pending"
          /\ UNCHANGED <<mapVars, sendVars, connVars, ret, history>>

\* Congestion control lets a timer's transmission through, and what is sent
\* while nothing is in flight; otherwise it may refuse, for good or for a time.
MayRefuse == timer_count = 0 /\ bytes_in_flight > 0

\* CanWrite(HAS_RETRANSMITTABLE_DATA) is false.
CannotWrite ==
    \/ (blocked \/ send_alarm) /\ UNCHANGED send_alarm
    \/ ~blocked /\ ~send_alarm /\ MayRefuse /\ send_alarm' \in BOOLEAN

NextPendingRetransmission ==
    LET crypto == {n \in DOMAIN pending : unacked[n].has_crypto_handshake}
    IN IF crypto_count > 0 /\ crypto # {} THEN Min(crypto) ELSE Min(DOMAIN pending)

\* The loop of WritePendingRetransmissions ends.
EndRetransmissions ==
    /\ pc = "pending"
    /\ \/ DOMAIN pending = {} /\ UNCHANGED send_alarm
       \/ DOMAIN pending # {} /\ CannotWrite
    /\ pc' = "visitor"
    /\ UNCHANGED <<mapVars, sendVars, queued, packet_number, blocked, alarm, ret, history>>

\* FlushAllQueuedFrames: an ack that waits in the generator is sent first, and
\* may block the writer.
FlushAllQueuedFrames ==
    /\ pc = "pending" /\ DOMAIN pending # {} /\ ~blocked /\ ~send_alarm
    /\ packet_number < MaxPackets
    /\ SendOrQueuePacket(AckPacket)
    /\ packet_number' = NextNumber
    /\ pc' = "reserialize"
    /\ UNCHANGED <<send_alarm, ret, written, unlinked>>

ReserializeAllFrames ==
    /\ \/ pc = "pending" /\ DOMAIN pending # {} /\ ~blocked /\ ~send_alarm
       \/ pc = "reserialize"
    /\ packet_number < MaxPackets
    /\ \E n \in {NextPendingRetransmission} :
          /\ SendOrQueuePacket([number |-> NextNumber, original |-> n,
                                linked |-> pending[n], frames |-> {},
                                payload |-> unacked[n].frames])
          /\ unlinked' = IF pending[n] THEN unlinked ELSE unlinked \cup unacked[n].frames
    /\ packet_number' = NextNumber
    /\ pc' = "pending"
    /\ UNCHANGED <<send_alarm, ret, written>>

\* The visitor has written what it had, or CanWrite is false before or after.
EndOnCanWrite ==
    /\ pc = "visitor"
    /\ UNCHANGED send_alarm \/ CannotWrite
    /\ pc' = ret
    /\ UNCHANGED <<mapVars, sendVars, queued, packet_number, blocked, alarm, ret, history>>

\* The writer calls back once it can write again.
OnCanWrite ==
    /\ pc = "idle" /\ blocked
    /\ blocked' = FALSE
    /\ pc' = "queued" /\ ret' = "idle"
    /\ UNCHANGED <<mapVars, sendVars, queued, packet_number, alarm, send_alarm, history>>

OnSendAlarm ==
    /\ pc = "idle" /\ send_alarm
    /\ send_alarm' = FALSE
    /\ WriteIfNotBlocked("idle")
    /\ UNCHANGED <<mapVars, sendVars, queued, packet_number, blocked, alarm, history>>
-----------------------------------------------------------------------------
\* Loss detection and acknowledgements.

MarkForRetransmission(pend, S, linked) ==
    [n \in DOMAIN pend \cup S |-> IF n \in DOMAIN pend THEN pend[n] ELSE linked]

\* DetectLosses on the packets up to newest.
Candidates(u, newest) == {n \in InFlight(u) : n <= newest}

NackedEnough(newest, n) == newest - n >= kNumberOfNacksBeforeRetransmission

EarlyRetransmit(u, newest, n) ==
    u[n].frames # {} /\ largest_retransmittable <= newest

\* Early retransmit waits for these: their time is up, up to the number due.
Waiting(u, newest, due) ==
    {n \in Candidates(u, newest) :
        ~NackedEnough(newest, n) /\ EarlyRetransmit(u, newest, n) /\ n > due}

\* The packets up to late were sent a round trip before newest.
Lost(u, newest, due, late) ==
    LET waiting == Waiting(u, newest, due)
    IN {n \in Candidates(u, newest) :
          /\ \A w \in waiting : n < w
          /\ \/ NackedEnough(newest, n)
             \/ EarlyRetransmit(u, newest, n)
             \/ n <= late}

\* The possible outcomes, whatever the clock says.
DetectLosses(u, newest) ==
    LET numbers == {0} \cup InFlight(u)
    IN {[lost |-> Lost(u, newest, due, late), timeout |-> Waiting(u, newest, due) # {}]
           : due \in numbers, late \in numbers}

\* What InvokeLossDetection adds to the pending retransmissions pend.
MarkLost(u, pend, lost) ==
    MarkForRetransmission(pend, {n \in lost : u[n].frames # {}}, TRUE)

\* MarkPacketHandled, for the acknowledged packets S in ascending order.
\* Mutant: the newest retransmission keeps its frames.
HandledFirstOnly(u, S) ==
    [n \in DOMAIN u |-> IF n \notin S THEN u[n] ELSE
        [u[n] EXCEPT !.frames = {}, !.has_crypto_handshake = FALSE,
                     !.retransmission = 0, !.in_flight = FALSE, !.is_unackable = TRUE]]

Handled(u, S) ==
    LET v    == RemoveRetransmittability(u, S)
        ends == NewestRetransmissions(u, S)
    IN [n \in DOMAIN u |->
          [v[n] EXCEPT
             !.in_flight = @ /\ n \notin S /\ ~(n \in ends /\ u[n].has_crypto_handshake),
             !.is_unackable = @ \/ n \in S]]

\* The acknowledged packets that are still in flight when their turn comes: a
\* crypto packet leaves with the first of its transmissions that is handled.
AckedInFlight(u, S) ==
    {n \in S : /\ u[n].in_flight
               /\ ~(u[n].has_crypto_handshake /\ \E m \in S : m < n /\ n \in Chain(u, m))}

NewlyAcked(u, S) ==
    LET first  == AckedInFlight(u, S)
        others == {n \in S \ first : ~u[n].is_unackable}
    IN IF first # {} THEN Max(first)
       ELSE IF others # {} THEN Max(others) ELSE largest_newly_acked

Without(pend, S) == [n \in DOMAIN pend \ S |-> pend[n]]

\* QuicConnection::OnAckFrame and OnIncomingAck, for an ack frame that reports
\* the packets S of the map, then MaybeSendInResponseToPacket.
OnAckFrame(S) ==
    \E observed \in {Max(S \cup {largest_observed})} :
    \E handled \in {Handled(unacked, S)}, newest \in {NewlyAcked(unacked, S)} :
    \E losses \in DetectLosses(handled, newest) :
    \E u \in {RemoveObsoletePackets(RemoveFromInFlight(handled, losses.lost), observed)} :
    \E ends \in {NewestRetransmissions(unacked, S)} :
       /\ unacked' = u
       /\ largest_observed' = observed
       /\ bytes_in_flight' = bytes_in_flight
             - BytesOf(unacked, InFlight(unacked) \ (InFlight(handled) \ losses.lost))
       /\ crypto_count' = crypto_count
             - Cardinality({n \in ends : unacked[n].has_crypto_handshake})
       /\ pending' = MarkLost(handled, Without(pending, ends), losses.lost)
       /\ loss_timeout' = losses.timeout
       /\ largest_newly_acked' = newest
       /\ tlp_count' = IF IsUnacked(unacked, observed, largest_observed) THEN 0 ELSE tlp_count
       /\ alarm' = AlarmIsDue(u, bytes_in_flight', timer_count)
       /\ send_alarm' = FALSE
       /\ WriteIfNotBlocked("idle")
       /\ carried' = [n \in DOMAIN u |-> carried[n]]
       /\ delivered' = delivered \cup UNION {carried[n] : n \in S}
       /\ UNCHANGED <<largest_sent, largest_retransmittable, timer_count, confirmed,
                      queued, packet_number, blocked, written, unlinked, reset>>

\* The packets an ack frame can report with an effect: they were sent, and not
\* acknowledged before (or replaced since then).
Reportable ==
    {n \in DOMAIN unacked : /\ unacked[n].bytes_sent > 0
                            /\ unacked[n].is_unackable => unacked[n].retransmission # 0}

ReceiveAck ==
    /\ pc = "idle"
    /\ \E S \in SUBSET Reportable : /\ S # {} \/ largest_observed > 0
                                    /\ OnAckFrame(S)
-----------------------------------------------------------------------------
\* QuicConnection::OnRetransmissionTimeout, by GetRetransmissionMode.

HandshakeMode == ~confirmed /\ crypto_count > 0

LossMode == ~HandshakeMode /\ loss_timeout

TlpMode == /\ ~HandshakeMode /\ ~loss_timeout
           /\ tlp_count < kMaxTailLossProbes
           /\ HasUnackedRetransmittableFrames(unacked)

RtoMode == ~HandshakeMode /\ ~LossMode /\ ~TlpMode

\* Mutant: a packet that has already left flight leaves it again.
LeaveFlightTwice(S) ==
    /\ unacked' = RemoveFromInFlight(unacked, S)
    /\ bytes_in_flight' = bytes_in_flight - BytesOf(unacked, S)

\* RemoveFromInFlight of the map, for each packet of S.
LeaveFlight(S) ==
    /\ unacked' = RemoveFromInFlight(unacked, S)
    /\ bytes_in_flight' = bytes_in_flight - BytesOf(unacked, S \cap InFlight(unacked))

CryptoInFlight ==
    {n \in InFlight(unacked) : unacked[n].frames # {} /\ unacked[n].has_crypto_handshake}

RetransmitCryptoPackets ==
    /\ HandshakeMode
    /\ LeaveFlight(CryptoInFlight)
    /\ pending' = MarkForRetransmission(pending, CryptoInFlight, TRUE)
    /\ timer_count' = timer_count + Cardinality(CryptoInFlight)
    /\ UNCHANGED <<tlp_count, loss_timeout>>

LossTimeout ==
    /\ LossMode
    /\ \E losses \in DetectLosses(unacked, largest_newly_acked) :
          /\ pending' = MarkLost(unacked, pending, losses.lost)
          /\ loss_timeout' = losses.timeout
          /\ LeaveFlight(losses.lost)
    /\ UNCHANGED <<timer_count, tlp_count>>

TailLossTimeout ==
    /\ TlpMode
    /\ tlp_count' = tlp_count + 1
    /\ timer_count' = 1
    /\ UNCHANGED <<unacked, bytes_in_flight, pending, loss_timeout>>

HasFrames == {n \in DOMAIN unacked : unacked[n].frames # {}}

\* The oldest packets with data, as many as the timer may send.
Oldest == {n \in HasFrames : Cardinality({m \in HasFrames : m < n})
                             < kMaxRetransmissionsOnTimeout - timer_count}

Abandoned == {n \in DOMAIN unacked : unacked[n].frames = {} /\ unacked[n].retransmission = 0}

RetransmitRtoPackets ==
    /\ RtoMode
    /\ pending' = MarkForRetransmission(pending, Oldest, TRUE)
    /\ timer_count' = timer_count + Cardinality(Oldest)
    /\ LeaveFlight(Abandoned)
    /\ UNCHANGED <<tlp_count, loss_timeout>>

OnRetransmissionTimeout ==
    /\ pc = "idle" /\ alarm
    /\ \/ RetransmitCryptoPackets
       \/ LossTimeout
       \/ TailLossTimeout
       \/ RetransmitRtoPackets
    /\ alarm' = FALSE
    /\ WriteIfNotBlocked("tlp")
    /\ UNCHANGED <<largest_sent, largest_retransmittable, largest_observed, crypto_count,
                   largest_newly_acked, confirmed, queued, packet_number, blocked,
                   send_alarm, history>>

MaybeRetransmitTailLossProbe ==
    LET probes == {n \in InFlight(unacked) : unacked[n].frames # {}}
    IN /\ pc = "tlp"
       /\ \/ /\ timer_count = 0 \/ probes = {}
             /\ pc' = "check"
             /\ UNCHANGED <<pending, ret>>
          \/ /\ timer_count > 0 /\ probes # {}
             /\ pending' = MarkForRetransmission(pending, {Min(probes)}, TRUE)
             /\ WriteIfNotBlocked("check")
       /\ UNCHANGED <<mapVars, timer_count, tlp_count, largest_newly_acked, loss_timeout,
                      confirmed, connVars, history>>


EnsureAlarm == IF queued = <<>> /\ ~alarm
               THEN AlarmIsDue(unacked, bytes_in_flight, timer_count) ELSE alarm

EndTimeout ==
    /\ pc = "check"
    /\ alarm' = EnsureAlarm
    /\ pc' = "idle" /\ ret' = "idle"
    /\ UNCHANGED <<mapVars, sendVars, queued, packet_number, blocked, send_alarm, history>>
-----------------------------------------------------------------------------
\* What the session does to packets that were sent.

\* Mutant: the pending retransmissions of a reset stream stay.
KeepPending(u) == pending

StillPending(u) == [n \in {k \in DOMAIN pending : u[k].frames # {}} |-> pending[n]]

\* Queued packets that hold data of the reset stream only are thrown away, and
\* their numbers are skipped.
CancelQueued(S) ==
    SelectSeq([i \in DOMAIN queued |-> [queued[i] EXCEPT !.frames = @ \ S]],
              LAMBDA p : p.frames # {} \/ p.original # 0 \/ p.payload = {})

\* QuicConnection::SendRstStream with an error.  The RST_STREAM frame itself is
\* one of the chunks.
SendRstStream ==
    /\ pc = "idle" /\ ~reset
    /\ Resettable \cap written # {}
    /\ unacked' = CancelFrames(unacked, Resettable)
    /\ pending' = StillPending(unacked')
    /\ queued' = CancelQueued(Resettable)
    /\ reset' = TRUE
    /\ UNCHANGED <<largest_sent, largest_retransmittable, largest_observed, bytes_in_flight,
                   crypto_count, timer_count, tlp_count, largest_newly_acked, loss_timeout,
                   confirmed, packet_number, blocked, alarm, send_alarm, pcVars, written,
                   carried, delivered, unlinked>>

Unencrypted == {n \in DOMAIN unacked : unacked[n].frames \cap Plain # {}}

\* NeuterUnencryptedPackets when the handshake is confirmed: HANDSHAKE_CONFIRMED
\* of the session and OnHandshakeComplete, with forward secure keys in use.  A
\* packet of the peer causes it, in answer to all the unencrypted packets, and
\* MaybeSendInResponseToPacket follows.
OnHandshakeComplete ==
    /\ pc = "idle" /\ ~confirmed
    /\ Plain \subseteq written
    /\ \A i \in DOMAIN queued : queued[i].frames \cap Plain = {}
    /\ confirmed' = TRUE
    /\ unacked' = RemoveFromInFlight(RemoveRetransmittability(unacked, Unencrypted),
                                     Unencrypted)
    /\ bytes_in_flight' = bytes_in_flight
          - BytesOf(unacked, Unencrypted \cap InFlight(unacked))
    /\ crypto_count' = crypto_count - Cardinality(Unencrypted)
    /\ pending' = Without(pending, Unencrypted)
    /\ alarm' = AlarmIsDue(unacked', bytes_in_flight', timer_count)
    /\ WriteIfNotBlocked("idle")
    /\ UNCHANGED <<largest_sent, largest_retransmittable, largest_observed, timer_count,
                   tlp_count, largest_newly_acked, loss_timeout, queued, packet_number,
                   blocked, send_alarm, history>>

\* RetransmitUnackedPackets(ALL_INITIAL_RETRANSMISSION): the client, whose first
\* packets are unencrypted, has new keys.
RetransmitUnackedPackets ==
    LET S == HasFrames \ Unencrypted
    IN /\ pc = "idle" /\ ~confirmed /\ Plain # {} /\ S # {}
       /\ LeaveFlight(S)
       /\ pending' = MarkForRetransmission(pending, S, FALSE)
       /\ WriteIfNotBlocked("idle")
       /\ UNCHANGED <<largest_sent, largest_retransmittable, largest_observed, crypto_count,
                      timer_count, tlp_count, largest_newly_acked, loss_timeout, confirmed,
                      connVars, history>>

Next ==
    \/ SendData \/ SendAck
    \/ WriteQueuedPackets \/ EndRetransmissions \/ FlushAllQueuedFrames
    \/ ReserializeAllFrames \/ EndOnCanWrite
    \/ OnCanWrite \/ OnSendAlarm
    \/ ReceiveAck
    \/ OnRetransmissionTimeout \/ MaybeRetransmitTailLossProbe \/ EndTimeout
    \/ SendRstStream \/ OnHandshakeComplete \/ RetransmitUnackedPackets

Spec == Init /\ [][Next]_vars
-----------------------------------------------------------------------------
(***************************************************************************)
(* bytes_in_flight_ and pending_crypto_packet_count_ are what the map      *)
(* holds, whichever of acks, losses, timeouts, resets and new keys took    *)
(* the packets out of flight.  All variables keep their types.             *)
(***************************************************************************)
CountsAgree ==
    /\ TypeOK
    /\ bytes_in_flight = BytesOf(unacked, InFlight(unacked))
    /\ crypto_count = Cardinality({n \in DOMAIN unacked : unacked[n].has_crypto_handshake})

(***************************************************************************)
(* What the manager relies on when it follows numbers it has kept: a       *)
(* pending retransmission is in the map and has frames, as                 *)
(* NextPendingRetransmission asserts; a retransmission that is pointed to  *)
(* is in the map; a packet with frames has not been replaced; and the      *)
(* queue holds, in order, numbers above all those that were sent, so that  *)
(* WritePacket never closes the connection with "Packet written out of     *)
(* order."                                                                 *)
(***************************************************************************)
RetransmissionsSound ==
    /\ \A n \in DOMAIN pending : n \in DOMAIN unacked /\ unacked[n].frames # {}
    /\ \A n \in DOMAIN unacked :
          unacked[n].retransmission # 0 =>
              /\ unacked[n].retransmission \in DOMAIN unacked
              /\ unacked[n].retransmission > n
              /\ unacked[n].frames = {}
    /\ \A i \in DOMAIN queued :
          /\ largest_sent < queued[i].number /\ queued[i].number <= packet_number
          /\ \A j \in DOMAIN queued : i < j => queued[i].number < queued[j].number

Holders(c) == {n \in DOMAIN unacked : c \in unacked[n].frames}

Queued(c) == {i \in DOMAIN queued : c \in queued[i].frames}

Abandonable == (IF reset THEN Resettable ELSE {}) \cup (IF confirmed THEN Plain ELSE {})

(***************************************************************************)
(* A chunk that was given to the connection is held by exactly one packet, *)
(* sent or queued, until the peer has acknowledged a packet with it or it  *)
(* need not arrive any more.  Once acknowledged it is not held, and so not *)
(* sent again, unless it was resent under new keys.                        *)
(***************************************************************************)
NoDataLost ==
    \A c \in written :
        LET held == Cardinality(Holders(c)) + Cardinality(Queued(c))
        IN /\ held <= 1
           /\ c \notin delivered \cup Abandonable => held = 1
           /\ c \in delivered \ unlinked => held = 0


(***************************************************************************)
(* quic_connection.cc:1838: "Ensure the retransmission alarm is always set *)
(* if there are unacked packets and nothing waiting to be sent."           *)
(***************************************************************************)
AlarmAlwaysSet ==
    /\ pc = "idle" /\ ~blocked /\ ~send_alarm
    /\ DOMAIN pending = {} /\ queued = <<>>
    /\ HasUnackedRetransmittableFrames(unacked)
    => alarm

(***************************************************************************)
(* quic_sent_packet_manager.cc:637: DCHECK(packet_retransmitted) << "No    *)
(* crypto packets found to retransmit."                                    *)
(***************************************************************************)
CryptoPacketFound == pc = "idle" /\ alarm /\ HandshakeMode => CryptoInFlight # {}
=============================================================================
