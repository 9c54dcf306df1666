--------------------------- MODULE TcpCubicSender ---------------------------
(* The byte-counting congestion controller of a server connection:           *)
(* TcpCubicSenderBytes over TcpCubicSenderBase, its PrrSender and the part of *)
(* HybridSlowStart that decides when slow start ends, seeded from a client's  *)
(* history by QuicSimpleDispatcher::CreateQuicSession and driven by the       *)
(* QuicSentPacketManager.                                                     *)
(*                                                                            *)
(* A congestion event is one call of OnCongestionEvent.  The model takes it   *)
(* one packet per step, losses first and acks after them, both in the order   *)
(* of the packet numbers; nothing else runs between these steps.              *)
EXTENDS Integers, Sequences, Functions

CONSTANTS
    MSS,             \* kDefaultTCPMSS, in bytes
    Sizes,           \* the packet sizes, in bytes
    InitialWindow,   \* kInitialCongestionWindow, in packets
    MaxWindow,       \* kDefaultMaxCongestionWindowPackets
    MaxResumption,   \* kMaxResumptionCongestionWindow, in packets
    LowWindow,       \* kHybridStartLowWindow, in packets
    InitialWindows,  \* the windows the IW03..IW50 tags ask for, in packets
    Curve,           \* the windows the cubic curve may give, in bytes
    Estimates,       \* bandwidth times round-trip time, in bytes
    OptionSets,      \* the sets of connection options a client may send
    StreamCounts,    \* the numbers of open streams
    Disturbances,    \* of "timer", "block" and "migrate", what an instance lets happen
    Wrap,            \* the modulus of QuicByteCount, an unsigned type
    MaxPackets,      \* bound: packets sent
    CalmAfter        \* bound: packets sent after which nothing is disturbed

ASSUME SenderConstants ==
    /\ MSS \in Nat \ {0} /\ Sizes \subseteq 1..(MSS - 1)
    /\ {InitialWindow, MaxResumption} \cup InitialWindows \subseteq 2..MaxWindow
    /\ MaxWindow \in Nat /\ LowWindow \in Nat /\ MaxPackets \in Nat
    /\ CalmAfter \in Nat
    /\ Curve \subseteq MSS..(MaxWindow * MSS)
    /\ Estimates \subseteq Nat /\ StreamCounts \subseteq Nat
    /\ Wrap \in Nat /\ Wrap > (MaxWindow + 2) * MSS

VARIABLES
    congestion_window,
    slowstart_threshold,
    min_congestion_window,
    initial_window,       \* initial_tcp_congestion_window_
    min_exit_window,      \* min_slow_start_exit_window_
    largest_sent,         \* largest_sent_packet_number_
    largest_acked,        \* largest_acked_packet_number_
    cutback,              \* largest_sent_at_last_cutback_
    exited_slowstart,     \* last_cutback_exited_slowstart_
    hystart_found,
    reno,
    num_acked,            \* num_acked_packets_, counted by Reno
    num_connections,
    options,              \* the connection options in force
    prr                   \* PrrSender's sent, delivered, acks and before

VARIABLES
    sent,             \* the sizes of the packets sent, in order
    flight,           \* the packets that count as in flight
    bytes_in_flight,
    observed,         \* the largest packet the peer has acknowledged
    rto,              \* first_rto_transmission_ while consecutive_rto_count_ > 0, or 0
    timer_count,      \* pending_timer_transmission_count_
    held,             \* a checked packet waits for the writer
    phase             \* "new", "open" (no config yet), "configured"

VARIABLES
    pc,               \* "idle" or "event", inside OnIncomingAck
    lost, acked,      \* packets_lost_ and packets_acked_ still to handle
    prior,            \* prior_in_flight
    rtt_updated

\* History: the largest packet sent at the last cutback, the largest window
\* since, whether a packet has gone around PrrSender since, and whether the
\* sender was replaced or reset.
VARIABLES sent_at_cutback, recovery_window, around_prr, was_reset

windowVars == <<congestion_window, slowstart_threshold>>
limitVars == <<min_congestion_window, initial_window, min_exit_window>>
cutVars == <<cutback, exited_slowstart, sent_at_cutback, recovery_window>>
growthVars == <<hystart_found, num_acked>>
configVars == <<reno, num_connections, options, phase>>
flightVars == <<sent, flight, bytes_in_flight, observed>>
timerVars == <<rto, timer_count>>
eventVars == <<pc, lost, acked, prior, rtt_updated>>
vars == <<windowVars, limitVars, cutVars, growthVars, configVars, flightVars,
          timerVars, held, eventVars, largest_sent, largest_acked, prr, around_prr,
          was_reset>>

-----------------------------------------------------------------------------
Larger(a, b) == IF a >= b THEN a ELSE b

Smaller(a, b) == IF a <= b THEN a ELSE b

\* The difference of two unsigned numbers.
Minus(a, b) == IF a >= b THEN a - b ELSE a - b + Wrap

Bytes(S) == SumFunctionOnSet(sent, S)

InSlowStart == congestion_window < slowstart_threshold

RecoveryAt(largest) == largest <= cutback /\ largest # 0

InRecovery == RecoveryAt(largest_acked)

NoPrr == [sent |-> 0, delivered |-> 0, acks |-> 0, before |-> 0]

IsCwndLimited ==
    \/ prior >= congestion_window
    \/ InSlowStart /\ prior > congestion_window \div 2
    \/ congestion_window - prior <= 3 * MSS

\* Beta() and RenoBeta(): the effective back-off of num_connections flows.
Scaled(window) ==
    (window * (10 * num_connections - 3)) \div (10 * num_connections)

\* A window resumed from an estimate of bandwidth and round-trip time.
Resumed(estimate) ==
    Larger(min_congestion_window, Smaller(estimate, MaxResumption * MSS))

\* The mutated PrrSender of SendsWhenIdle: no limited transmit.
PrrWithoutLimitedTransmit ==
    \/ prr.sent = 0
    \/ /\ congestion_window > bytes_in_flight
       /\ prr.delivered + prr.acks * MSS > prr.sent
    \/ /\ congestion_window <= bytes_in_flight
       /\ prr.delivered * slowstart_threshold > prr.sent * prr.before

PrrCanSend ==
    \/ prr.sent = 0
    \/ bytes_in_flight < MSS
    \/ /\ congestion_window > bytes_in_flight
       /\ prr.delivered + prr.acks * MSS > prr.sent
    \/ /\ congestion_window <= bytes_in_flight
       /\ prr.delivered * slowstart_threshold > prr.sent * prr.before

\* TimeUntilSend is zero; otherwise it is infinite.
CanSend ==
    IF "NPRR" \notin options /\ InRecovery
    THEN PrrCanSend
    ELSE \/ congestion_window > bytes_in_flight
         \/ "MIN4" \in options /\ bytes_in_flight < 4 * MSS

-----------------------------------------------------------------------------
\* A fresh TcpCubicSenderBytes.
NewSender ==
    /\ congestion_window = InitialWindow * MSS
    /\ slowstart_threshold = MaxWindow * MSS
    /\ min_congestion_window = 2 * MSS
    /\ initial_window = InitialWindow * MSS
    /\ min_exit_window = 2 * MSS
    /\ largest_sent = 0
    /\ largest_acked = 0
    /\ cutback = 0
    /\ exited_slowstart = FALSE
    /\ hystart_found = FALSE
    /\ num_acked = 0
    /\ num_connections = 2
    /\ prr = NoPrr

Init ==
    /\ NewSender
    /\ reno = FALSE /\ options = {} /\ phase = "new"
    /\ sent = <<>> /\ flight = {} /\ bytes_in_flight = 0 /\ observed = 0
    /\ rto = 0 /\ timer_count = 0 /\ held = FALSE
    /\ pc = "idle" /\ lost = {} /\ acked = {} /\ prior = 0
    /\ rtt_updated = FALSE
    /\ sent_at_cutback = 0 /\ recovery_window = 0 /\ around_prr = FALSE
    /\ was_reset = FALSE

\* CreateQuicSession for a client without statistics.
QueryMisses ==
    /\ phase = "new"
    /\ phase' = "open"
    /\ UNCHANGED <<windowVars, limitVars, cutVars, growthVars, reno,
                   num_connections, options, flightVars, timerVars, held, eventVars,
                   largest_sent, largest_acked, prr, around_prr, was_reset>>

\* CreateQuicSession for a client with statistics: the largest bandwidth with
\* the largest and with the mean round-trip time, and the mean of both.
QueryHits ==
    /\ phase = "new"
    /\ phase' = "open"
    /\ \E largest, mixed, mean \in Estimates :
          /\ initial_window' = Resumed(largest)
          /\ congestion_window' = Resumed(mixed)
          /\ min_exit_window' =
                Smaller(congestion_window',
                        Larger(initial_window' \div 2, mean))
    /\ UNCHANGED <<slowstart_threshold, min_congestion_window, cutVars,
                   growthVars, reno, num_connections, options, flightVars,
                   timerVars, held, eventVars, largest_sent, largest_acked, prr,
                   around_prr, was_reset>>

\* SetFromConfig of the manager and of the sender, and ResumeConnectionState:
\* RENO (with BYTE) replaces the sender, IW.. sets the window, MIN1 and MIN4
\* lower the minimum, BWRE resumes a window the client reports.
ConfiguredWindows(tags, min) ==
    LET asked == IF "IW" \in tags THEN {k * MSS : k \in InitialWindows}
                 ELSE IF "RENO" \in tags THEN {InitialWindow * MSS}
                 ELSE {congestion_window}
    IN  IF "BWRE" \in tags
        THEN asked \cup {Larger(min, Smaller(e, MaxResumption * MSS)) : e \in Estimates}
        ELSE asked

SetFromConfig ==
    /\ pc = "idle" /\ phase = "open"
    /\ phase' = "configured"
    /\ \E tags \in OptionSets :
          LET replaced == "RENO" \in tags
          IN  /\ options' = tags
              /\ reno' = replaced
              /\ num_connections' =
                    IF "1CON" \in tags THEN 1 ELSE IF replaced THEN 2 ELSE num_connections
              /\ min_congestion_window' =
                    IF tags \cap {"MIN1", "MIN4"} # {} THEN MSS ELSE 2 * MSS
              /\ congestion_window' \in ConfiguredWindows(tags, min_congestion_window')
              /\ slowstart_threshold' = IF replaced THEN MaxWindow * MSS ELSE slowstart_threshold
              /\ initial_window' = IF replaced THEN InitialWindow * MSS ELSE initial_window
              /\ min_exit_window' = IF replaced THEN 2 * MSS ELSE min_exit_window
              /\ largest_sent' = IF replaced THEN 0 ELSE largest_sent
              /\ largest_acked' = IF replaced THEN 0 ELSE largest_acked
              /\ cutback' = IF replaced THEN 0 ELSE cutback
              /\ exited_slowstart' = (exited_slowstart /\ ~replaced)
              /\ hystart_found' = (hystart_found /\ ~replaced)
              /\ num_acked' = IF replaced THEN 0 ELSE num_acked
              /\ prr' = IF replaced THEN NoPrr ELSE prr
              /\ sent_at_cutback' = IF replaced THEN 0 ELSE sent_at_cutback
              /\ recovery_window' = Larger(recovery_window, congestion_window')
              /\ was_reset' = (was_reset \/ replaced)
    /\ UNCHANGED <<flightVars, timerVars, held, eventVars, around_prr>>

SetNumOpenStreams ==
    /\ pc = "idle" /\ "NCON" \in options
    /\ \E streams \in StreamCounts :
          num_connections' = Smaller(5, Larger(1, streams))
    /\ UNCHANGED <<windowVars, limitVars, cutVars, growthVars, reno, options, phase,
                   flightVars, timerVars, held, eventVars, largest_sent, largest_acked,
                   prr, around_prr, was_reset>>

\* Bound: what happens besides sending, acknowledgements and losses, and when.
Disturbed(kind) == kind \in Disturbances /\ Len(sent) <= CalmAfter

\* A client that moves to another address, not behind the same NAT.
OnConnectionMigration ==
    /\ pc = "idle" /\ phase = "configured" /\ ~was_reset /\ Disturbed("migrate")
    /\ congestion_window' = initial_window
    /\ slowstart_threshold' = MaxWindow * MSS
    /\ largest_sent' = 0 /\ largest_acked' = 0
    /\ cutback' = 0 /\ exited_slowstart' = FALSE
    /\ hystart_found' = FALSE /\ num_acked' = 0
    /\ prr' = NoPrr
    /\ rto' = 0
    /\ sent_at_cutback' = 0 /\ recovery_window' = 0
    /\ was_reset' = TRUE
    /\ UNCHANGED <<limitVars, configVars, flightVars, timer_count, held, eventVars,
                   around_prr>>

-----------------------------------------------------------------------------
(* Sending.                                                                  *)

\* A packet that passed the check stays behind a blocked writer.
HoldPacket ==
    /\ pc = "idle" /\ phase # "new"
    /\ Disturbed("block")
    /\ ~held /\ (timer_count > 0 \/ CanSend)
    /\ held' = TRUE
    /\ UNCHANGED <<windowVars, limitVars, cutVars, growthVars, configVars, flightVars,
                   timerVars, eventVars, largest_sent, largest_acked, prr, around_prr,
                   was_reset>>

\* The mutated accounting of RecoveryBounded: sent bytes are not counted.
PrrForgetsPacket(size) == prr

PrrOnPacketSent(size) ==
    IF InRecovery THEN [prr EXCEPT !.sent = @ + size] ELSE prr

\* OnPacketSent for a packet with retransmittable data.  A pending timer
\* transmission and a packet held by the writer go out unchecked.
SendPacket ==
    /\ pc = "idle" /\ phase # "new" /\ Len(sent) < MaxPackets
    /\ held \/ timer_count > 0 \/ CanSend
    /\ held' = FALSE
    /\ around_prr' = (cutback # 0 /\ (around_prr \/ ~CanSend \/ ~InRecovery))
    /\ \E size \in Sizes :
          /\ sent' = Append(sent, size)
          /\ flight' = flight \cup {Len(sent')}
          /\ bytes_in_flight' = bytes_in_flight + size
          /\ prr' = PrrOnPacketSent(size)
    /\ largest_sent' = Len(sent')
    /\ timer_count' = IF timer_count > 0 THEN timer_count - 1 ELSE 0
    /\ UNCHANGED <<windowVars, limitVars, cutVars, growthVars, configVars, observed,
                   rto, eventVars, largest_acked, was_reset>>

\* A packet of acks only is never in flight; the algorithm ignores it.
SendAck ==
    /\ pc = "idle" /\ phase # "new" /\ Len(sent) < MaxPackets /\ ~held
    /\ \E size \in Sizes : sent' = Append(sent, size)
    /\ timer_count' = IF timer_count > 0 THEN timer_count - 1 ELSE 0
    /\ UNCHANGED <<windowVars, limitVars, cutVars, growthVars, configVars, flight,
                   bytes_in_flight, observed, rto, held, eventVars,
                   largest_sent, largest_acked, prr, around_prr, was_reset>>

\* The retransmission alarm: a tail loss probe or crypto packets, or an RTO.
OnRetransmissionTimeout ==
    /\ pc = "idle" /\ flight # {} /\ timer_count = 0 /\ Disturbed("timer")
    /\ timer_count' \in 1..2
    /\ rto' \in {rto, IF rto = 0 THEN Len(sent) + 1 ELSE rto}
    /\ UNCHANGED <<windowVars, limitVars, cutVars, growthVars, configVars, flightVars,
                   held, eventVars, largest_sent, largest_acked, prr, around_prr, was_reset>>

-----------------------------------------------------------------------------
(* Congestion events.                                                        *)

\* HybridSlowStart::ShouldExitSlowStart.  A round whose delay rose is
\* remembered; with delay already found the window no longer matters.
MaybeExitSlowStart(updated) ==
    IF updated /\ InSlowStart
    THEN \E rose \in BOOLEAN :
            /\ hystart_found' = (hystart_found \/ rose)
            /\ slowstart_threshold' =
                  IF hystart_found \/ (rose /\ congestion_window \div MSS >= LowWindow)
                  THEN congestion_window ELSE slowstart_threshold
    ELSE UNCHANGED <<hystart_found, slowstart_threshold>>

BeginEvent(A, L, updated) ==
    /\ updated \/ A # {} \/ L # {}
    /\ pc' = "event"
    /\ prior' = bytes_in_flight
    /\ flight' = flight \ (A \cup L)
    /\ bytes_in_flight' = bytes_in_flight - Bytes(A \cup L)
    /\ acked' = A
    /\ rtt_updated' = updated
    /\ MaybeExitSlowStart(updated)
    /\ UNCHANGED <<congestion_window, limitVars, cutVars, num_acked, configVars, sent,
                   timerVars, held, largest_sent, largest_acked, prr, around_prr, was_reset>>

\* OnIncomingAck up to the congestion event.  Losses are ignored in RTO mode.
OnIncomingAck ==
    /\ pc = "idle"
    /\ \E largest \in Larger(observed, 1)..Len(sent) :
       \E A \in SUBSET {n \in flight : n <= largest} :
       \E L \in SUBSET {n \in flight \ A : n < largest} :
       \E updated \in IF largest \in A THEN {TRUE} ELSE BOOLEAN :
          /\ observed' = largest
          /\ lost' = IF rto # 0 /\ "NRTO" \notin options THEN {} ELSE L
          /\ BeginEvent(A, L, updated)

\* The alarm in LOSS_MODE.
OnLossTimeout ==
    /\ pc = "idle" /\ timer_count = 0
    /\ \E L \in (SUBSET {n \in flight : n < observed}) \ {{}} :
          /\ lost' = L
          /\ BeginEvent({}, L, FALSE)
    /\ UNCHANGED observed

\* The mutated comparison of OneCutPerFlight: off by one.
SentBeforeCutback(n) == n < cutback

\* A loss among the packets sent before the last cutback.
IgnoresLoss(n) == n <= cutback

\* The mutated reduction of WindowSound: no floor.
ReduceWithoutFloor(n) ==
    IF exited_slowstart /\ "SSLR" \in options
    THEN /\ congestion_window' = Minus(congestion_window, sent[n])
         /\ slowstart_threshold' = congestion_window'
         /\ recovery_window' = Larger(recovery_window, congestion_window')
    ELSE UNCHANGED <<windowVars, recovery_window>>

ReduceAgain(n) ==
    IF exited_slowstart /\ "SSLR" \in options
    THEN /\ congestion_window' =
               Larger(Minus(congestion_window, sent[n]), min_exit_window)
         /\ slowstart_threshold' = congestion_window'
         /\ recovery_window' = Larger(recovery_window, congestion_window')
    ELSE UNCHANGED <<windowVars, recovery_window>>

LargeReduction == "SSLR" \in options /\ InSlowStart

Reduced ==
    Larger(min_congestion_window,
           IF LargeReduction THEN Minus(congestion_window, MSS) ELSE Scaled(congestion_window))

CutBack ==
    /\ exited_slowstart' = InSlowStart
    /\ prr' = IF "NPRR" \in options THEN prr ELSE [NoPrr EXCEPT !.before = prior]
    /\ min_exit_window' =
          IF LargeReduction /\ congestion_window >= 2 * initial_window
          THEN congestion_window \div 2 ELSE min_exit_window
    /\ congestion_window' = Reduced
    /\ slowstart_threshold' = congestion_window'
    /\ cutback' = largest_sent
    /\ num_acked' = 0
    /\ sent_at_cutback' = Len(sent)
    /\ recovery_window' = congestion_window'
    /\ around_prr' = FALSE

\* The packet of a congestion vector that is handled next.
Least(S) == {n \in S : \A m \in S : n <= m}

OnPacketLost ==
    /\ pc = "event"
    /\ \E n \in Least(lost) :
          /\ lost' = lost \ {n}
          /\ \/ /\ IgnoresLoss(n)
                /\ ReduceAgain(n)
                /\ UNCHANGED <<min_exit_window, cutback, exited_slowstart,
                               sent_at_cutback, num_acked, prr, around_prr>>
             \/ /\ ~IgnoresLoss(n)
                /\ CutBack
    /\ UNCHANGED <<min_congestion_window, initial_window, hystart_found, configVars,
                   flightVars, timerVars, held, pc, acked, prior, rtt_updated,
                   largest_sent, largest_acked, was_reset>>

\* MaybeIncreaseCwnd.  The cubic curve and the TCP-friendly window are left
\* open: whatever they give is between one segment and the maximum.
MaybeIncreaseCwnd ==
    IF ~IsCwndLimited \/ congestion_window >= MaxWindow * MSS
    THEN UNCHANGED <<congestion_window, num_acked>>
    ELSE IF InSlowStart
    THEN congestion_window' = congestion_window + MSS /\ UNCHANGED num_acked
    ELSE IF reno
    THEN IF (num_acked + 1) * num_connections >= congestion_window \div MSS
         THEN congestion_window' = congestion_window + MSS /\ num_acked' = 0
         ELSE num_acked' = num_acked + 1 /\ UNCHANGED congestion_window
    ELSE congestion_window' \in Curve /\ UNCHANGED num_acked

OnPacketAcked ==
    /\ pc = "event" /\ lost = {}
    /\ \E n \in Least(acked) :
          /\ acked' = acked \ {n}
          /\ largest_acked' = Larger(largest_acked, n)
          /\ \/ /\ RecoveryAt(largest_acked')
                /\ prr' = IF "NPRR" \in options THEN prr
                          ELSE [prr EXCEPT !.delivered = @ + sent[n], !.acks = @ + 1]
                /\ UNCHANGED <<congestion_window, num_acked>>
             \/ /\ ~RecoveryAt(largest_acked')
                /\ MaybeIncreaseCwnd
                /\ UNCHANGED prr
    /\ UNCHANGED <<slowstart_threshold, limitVars, cutVars, hystart_found, configVars,
                   flightVars, timerVars, held, pc, lost, prior, rtt_updated,
                   largest_sent, around_prr, was_reset>>

\* The rest of OnIncomingAck: an RTO confirmed by the ack of a packet sent
\* after it collapses the window.
EndEvent ==
    /\ pc = "event" /\ lost = {} /\ acked = {}
    /\ pc' = "idle"
    /\ rto' = IF rtt_updated THEN 0 ELSE rto
    /\ prior' = 0 /\ rtt_updated' = FALSE
    /\ IF rtt_updated /\ rto # 0 /\ observed >= rto /\ "NRTO" \notin options
       THEN /\ cutback' = 0 /\ sent_at_cutback' = 0
            /\ hystart_found' = FALSE
            /\ slowstart_threshold' = congestion_window \div 2
            /\ congestion_window' = min_congestion_window
       ELSE UNCHANGED <<cutback, sent_at_cutback, hystart_found, windowVars>>
    /\ UNCHANGED <<limitVars, exited_slowstart, recovery_window, num_acked, configVars,
                   flightVars, timer_count, held, lost, acked, largest_sent,
                   largest_acked, prr, around_prr, was_reset>>

Next ==
    \/ QueryMisses \/ QueryHits
    \/ SetFromConfig \/ SetNumOpenStreams \/ OnConnectionMigration
    \/ HoldPacket \/ SendPacket \/ SendAck
    \/ OnRetransmissionTimeout
    \/ OnIncomingAck \/ OnLossTimeout
    \/ OnPacketLost \/ OnPacketAcked \/ EndEvent

Spec == Init /\ [][Next]_vars

-----------------------------------------------------------------------------
(* Properties.                                                               *)

\* The unsigned arithmetic on the window never wraps and the window never
\* leaves its range, whatever the client's statistics and options: the
\* subtractions of OnPacketLost stay above zero, at least one segment may
\* always be sent, and no growth or resumption passes the maximum by a segment.
WindowSound ==
    /\ congestion_window \in MSS..(MaxWindow * MSS + MSS - 1)
    /\ min_exit_window \in MSS..(MaxWindow * MSS)

\* TimeUntilSend is never infinite with nothing in flight: no ack, loss or
\* timeout would come to open the window again.
SendsWhenIdle == bytes_in_flight = 0 => CanSend

\* Losses among packets already sent when the window was cut are one loss
\* event: they never cut it a second time, in OnPacketLost, as long as the
\* sender was not reset and no RTO began a new epoch.
OneCutPerFlight ==
    ~was_reset => \A n \in lost : n <= sent_at_cutback => IgnoresLoss(n)

\* In recovery PrrSender lets no more into flight than there was when the loss
\* was found, or than the window since then, but for part of the last packet:
\* unless a timer, a blocked writer or a sender that has seen no ack yet sent
\* around it.
RecoveryBounded ==
    (InRecovery /\ "NPRR" \notin options /\ ~around_prr /\ ~was_reset)
        => bytes_in_flight < Larger(prr.before, recovery_window) + MSS - 1

\* OnPacketLost says "any losses in packets already sent should be treated as
\* a single loss event".
OneCutEver == \A n \in lost : n <= sent_at_cutback => IgnoresLoss(n)

\* OnPacketLost says it will "Reduce congestion window by lost_bytes for every
\* loss" after a large reduction: the window does not grow on a loss.
LossNeverGrowsWindow ==
    \A n \in Least(lost) :
       (IgnoresLoss(n) /\ exited_slowstart /\ "SSLR" \in options)
          => Larger(Minus(congestion_window, sent[n]), min_exit_window) <= congestion_window

\* The minimum window is a minimum for the reductions on a loss.
MinimumHeld ==
    congestion_window >= min_congestion_window

\* OnPacketLost checks DCHECK_LT(kDefaultTCPMSS, congestion_window_) before the
\* large reduction.
LargeReductionPossible ==
    \A n \in Least(lost) : (~IgnoresLoss(n) /\ LargeReduction) => MSS < congestion_window

=============================================================================
