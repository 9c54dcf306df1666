------------------------ MODULE TcpCubicSenderProofs ------------------------
(* The window of TcpCubicSender never wraps nor leaves its range, a sender    *)
(* with nothing in flight may send, one flight of packets cuts the window     *)
(* once, and PrrSender bounds what a recovery has in flight: for every        *)
(* segment size, every window limit, every statistic of the client and every  *)
(* combination of the connection options.                                     *)
EXTENDS TcpCubicSender, SumTheorems, SequenceTheorems, TLAPS

\* The largest window the maximum stands for, in bytes.
Ceiling == MaxWindow * MSS

\* The limits of the windows.  CreateQuicSession runs before SetFromConfig can
\* lower the minimum, so the initial window is two segments or more, and half
\* of it, a floor of min_slow_start_exit_window_, is one or more.
WindowInv ==
    /\ congestion_window \in MSS..(Ceiling + MSS - 1)
    /\ min_exit_window \in MSS..Ceiling
    /\ initial_window \in (2 * MSS)..Ceiling
    /\ min_congestion_window \in {MSS, 2 * MSS}
    /\ phase = "new" => min_congestion_window = 2 * MSS
    /\ slowstart_threshold \in Nat
    /\ num_connections \in Nat \ {0}

\* The packets of the model: numbers in flight or lost are numbers of packets.
PacketInv ==
    /\ sent \in Seq(Sizes)
    /\ flight \subseteq 1..Len(sent)
    /\ lost \subseteq 1..Len(sent)

\* Every packet in flight or lost was sent by this sender, and if it was sent
\* before the last cutback the sender knows.
CutInv ==
    /\ sent_at_cutback \in 0..Len(sent)
    /\ cutback \in Nat /\ largest_sent \in Nat
    /\ ~was_reset =>
          \A n \in flight \cup lost :
             n <= largest_sent /\ (n <= sent_at_cutback => n <= cutback)

IInv == WindowInv /\ PacketInv /\ CutInv

-----------------------------------------------------------------------------
(* Arithmetic.                                                               *)

\* Windows given in packets lie between two segments and the maximum.
LEMMA PacketsToBytes ==
    ASSUME NEW k \in 2..MaxWindow
    PROVE  k * MSS \in (2 * MSS)..Ceiling
  <1>1. MSS \in Nat /\ MaxWindow \in Nat BY SenderConstants
  <1>2. k \in Nat /\ 2 <= k /\ k <= MaxWindow BY <1>1
  <1>3. k * MSS \in Nat /\ MaxWindow * MSS \in Nat BY <1>1, <1>2
  <1>4. 2 * MSS <= k * MSS BY <1>1, <1>2
  <1>5. k * MSS <= MaxWindow * MSS BY <1>1, <1>2
  <1> QED BY <1>1, <1>3, <1>4, <1>5 DEF Ceiling

\* The maximum is a natural number of bytes, two segments or more.
LEMMA CeilingIsLarge == MSS \in Nat \ {0} /\ Ceiling \in Nat /\ 2 * MSS <= Ceiling
  <1>1. MSS \in Nat \ {0} /\ MaxWindow \in Nat BY SenderConstants
  <1>2. InitialWindow \in 2..MaxWindow BY SenderConstants
  <1>3. InitialWindow * MSS \in (2 * MSS)..Ceiling BY <1>2, PacketsToBytes
  <1>4. Ceiling \in Nat BY <1>1 DEF Ceiling
  <1> QED BY <1>1, <1>3, <1>4

\* Halving a window of two segments leaves one.
LEMMA Halved ==
    ASSUME NEW w \in Nat, NEW m \in Nat
    PROVE  /\ w \div 2 \in Nat /\ w \div 2 <= w
           /\ w >= 2 * m => w \div 2 >= m
  OBVIOUS

\* A window resumed from an estimate lies between the minimum and the maximum.
LEMMA ResumedInRange ==
    ASSUME NEW min \in {MSS, 2 * MSS}, NEW e \in Nat
    PROVE  Larger(min, Smaller(e, MaxResumption * MSS)) \in min..Ceiling
  <1>1. MaxResumption \in 2..MaxWindow BY SenderConstants
  <1>2. MaxResumption * MSS \in (2 * MSS)..Ceiling BY <1>1, PacketsToBytes
  <1> QED BY <1>2, CeilingIsLarge DEF Larger, Smaller

\* The multiplicative decrease gives a natural number.
LEMMA ScaledIsNat ==
    ASSUME NEW w \in Nat, num_connections \in Nat \ {0}
    PROVE  Scaled(w) \in Nat /\ Scaled(w) <= w
  <1> DEFINE d == 10 * num_connections
             k == w * (10 * num_connections - 3)
  <1>1. d \in Nat /\ d > 0 /\ d - 3 \in Nat BY Z3
  <1>2. k \in Nat BY <1>1
  <1>3. k <= w * d
    <2>1. w * (d - 3) <= w * d BY <1>1
    <2> QED BY <2>1
  <1> HIDE DEF d, k
  <1>4. k \div d \in Nat BY <1>1, <1>2
  <1>5. k \div d <= w BY <1>1, <1>2, <1>3
  <1> QED BY <1>4, <1>5 DEF Scaled, d, k

-----------------------------------------------------------------------------
(* The window.                                                               *)

\* A fresh sender satisfies the limits.
LEMMA WindowInit == Init => WindowInv
  <1> SUFFICES ASSUME Init PROVE WindowInv OBVIOUS
  <1>1. InitialWindow * MSS \in (2 * MSS)..Ceiling BY SenderConstants, PacketsToBytes
  <1> QED BY <1>1, CeilingIsLarge DEF Init, NewSender, WindowInv, Ceiling

\* CreateQuicSession's seeds keep the limits.
LEMMA WindowQueryHits == WindowInv /\ QueryHits => WindowInv'
  <1> SUFFICES ASSUME WindowInv, QueryHits PROVE WindowInv' OBVIOUS
  <1>1. PICK largest \in Estimates, mixed \in Estimates, mean \in Estimates :
          /\ initial_window' = Resumed(largest)
          /\ congestion_window' = Resumed(mixed)
          /\ min_exit_window' =
                Smaller(congestion_window', Larger(initial_window' \div 2, mean))
    BY DEF QueryHits
  <1>2. largest \in Nat /\ mixed \in Nat /\ mean \in Nat BY SenderConstants
  <1>3. min_congestion_window = 2 * MSS BY DEF QueryHits, WindowInv
  <1>4. initial_window' \in (2 * MSS)..Ceiling
    BY <1>1, <1>2, <1>3, ResumedInRange DEF Resumed
  <1>5. congestion_window' \in (2 * MSS)..Ceiling
    BY <1>1, <1>2, <1>3, ResumedInRange DEF Resumed
  <1>6. initial_window' \div 2 \in Nat /\ initial_window' \div 2 >= MSS
    <2>1. initial_window' \in Nat /\ initial_window' >= 2 * MSS BY <1>4, CeilingIsLarge
    <2> HIDE DEF QueryHits, WindowInv
    <2> QED BY <2>1, CeilingIsLarge, Halved
  <1>7. min_exit_window' \in MSS..Ceiling
    BY <1>1, <1>2, <1>5, <1>6, CeilingIsLarge DEF Smaller, Larger
  <1> QED BY <1>3, <1>4, <1>5, <1>7, CeilingIsLarge DEF QueryHits, WindowInv

\* The options of the client keep them.
LEMMA WindowSetFromConfig == WindowInv /\ SetFromConfig => WindowInv'
  <1> SUFFICES ASSUME WindowInv, SetFromConfig PROVE WindowInv' OBVIOUS
  <1> DEFINE W(tags) == ConfiguredWindows(tags, min_congestion_window')
  <1>1. PICK tags \in OptionSets :
          /\ num_connections' =
                IF "1CON" \in tags THEN 1 ELSE IF "RENO" \in tags THEN 2 ELSE num_connections
          /\ min_congestion_window' =
                IF tags \cap {"MIN1", "MIN4"} # {} THEN MSS ELSE 2 * MSS
          /\ congestion_window' \in W(tags)
          /\ slowstart_threshold' =
                IF "RENO" \in tags THEN MaxWindow * MSS ELSE slowstart_threshold
          /\ initial_window' =
                IF "RENO" \in tags THEN InitialWindow * MSS ELSE initial_window
          /\ min_exit_window' = IF "RENO" \in tags THEN 2 * MSS ELSE min_exit_window
    BY DEF SetFromConfig
  <1>2. InitialWindow * MSS \in (2 * MSS)..Ceiling BY SenderConstants, PacketsToBytes
  <1>3. min_congestion_window' \in {MSS, 2 * MSS} BY <1>1
  <1>4. \A k \in InitialWindows : k * MSS \in (2 * MSS)..Ceiling
    BY SenderConstants, PacketsToBytes
  <1>5. \A e \in Estimates :
           Larger(min_congestion_window', Smaller(e, MaxResumption * MSS))
              \in min_congestion_window'..Ceiling
    BY <1>3, SenderConstants, ResumedInRange
  <1>6. congestion_window' \in MSS..(Ceiling + MSS - 1)
    <2>1. CASE \E e \in Estimates : congestion_window' =
                 Larger(min_congestion_window', Smaller(e, MaxResumption * MSS))
      BY <2>1, <1>3, <1>5, CeilingIsLarge
    <2>2. CASE \E k \in InitialWindows : congestion_window' = k * MSS
      BY <2>2, <1>4, CeilingIsLarge
    <2>3. CASE congestion_window' = InitialWindow * MSS
      BY <2>3, <1>2, CeilingIsLarge
    <2>4. CASE congestion_window' = congestion_window
      BY <2>4 DEF WindowInv
    <2> QED BY <1>1, <2>1, <2>2, <2>3, <2>4 DEF ConfiguredWindows
  <1>7. slowstart_threshold' \in Nat BY <1>1, CeilingIsLarge DEF WindowInv, Ceiling
  <1>8. phase' # "new" BY DEF SetFromConfig
  <1> HIDE DEF W
  <1> QED BY <1>1, <1>2, <1>3, <1>6, <1>7, <1>8, CeilingIsLarge DEF WindowInv

\* A loss keeps them: the large reduction takes one segment of a window of one
\* or more, a later loss takes a packet, smaller than a segment.
LEMMA WindowOnPacketLost == WindowInv /\ PacketInv /\ OnPacketLost => WindowInv'
  <1> SUFFICES ASSUME WindowInv, PacketInv, OnPacketLost PROVE WindowInv' OBVIOUS
  <1> USE CeilingIsLarge
  <1>1. PICK n \in 1..Len(sent) :
          \/ /\ IgnoresLoss(n) /\ ReduceAgain(n)
             /\ UNCHANGED <<min_exit_window, min_congestion_window, initial_window,
                            phase, num_connections>>
          \/ CutBack /\ UNCHANGED <<min_congestion_window, initial_window,
                                    phase, num_connections>>
    BY DEF OnPacketLost, PacketInv, Least, configVars
  <1>2. sent[n] \in 1..(MSS - 1)
    <2>1. sent[n] \in Sizes BY ElementOfSeq DEF PacketInv
    <2> QED BY <2>1, SenderConstants
  <1>3. CASE IgnoresLoss(n) /\ ReduceAgain(n)
             /\ UNCHANGED <<min_exit_window, min_congestion_window, initial_window,
                            phase, num_connections>>
    <2>1. CASE UNCHANGED windowVars
      BY <1>3, <2>1 DEF WindowInv, windowVars
    <2>2. CASE /\ congestion_window' =
                    Larger(Minus(congestion_window, sent[n]), min_exit_window)
               /\ slowstart_threshold' = congestion_window'
      <3>1. Minus(congestion_window, sent[n]) \in 1..(Ceiling + MSS - 1)
        BY <1>2 DEF Minus, WindowInv
      <3>2. congestion_window' \in MSS..(Ceiling + MSS - 1)
        BY <2>2, <3>1 DEF Larger, WindowInv
      <3> QED BY <1>3, <2>2, <3>2 DEF WindowInv
    <2> QED BY <1>3, <2>1, <2>2 DEF ReduceAgain
  <1>4. CASE CutBack /\ UNCHANGED <<min_congestion_window, initial_window,
                                    phase, num_connections>>
    <2>1. Scaled(congestion_window) \in Nat /\ Scaled(congestion_window) <= congestion_window
      BY ScaledIsNat DEF WindowInv
    <2>2. Minus(congestion_window, MSS) \in 0..(Ceiling + MSS - 1)
      BY DEF Minus, WindowInv
    <2>3. Reduced \in MSS..(Ceiling + MSS - 1)
      BY <2>1, <2>2 DEF Reduced, Larger, WindowInv
    <2>4. min_exit_window' \in MSS..Ceiling
      <3>1. CASE min_exit_window' = min_exit_window BY <3>1 DEF WindowInv
      <3>2. CASE /\ congestion_window >= 2 * initial_window
                 /\ min_exit_window' = congestion_window \div 2
        <4>1. congestion_window \in Nat /\ initial_window \in Nat /\ initial_window >= MSS
              /\ congestion_window <= 2 * Ceiling
          BY DEF WindowInv
        <4>2. congestion_window \div 2 >= initial_window BY <3>2, <4>1, Halved
        <4>3. congestion_window \div 2 \in Nat /\ congestion_window \div 2 <= Ceiling
          BY <4>1
        <4> QED BY <3>2, <4>1, <4>2, <4>3
      <3> QED BY <1>4, <3>1, <3>2 DEF CutBack
    <2> QED BY <1>4, <2>3, <2>4 DEF CutBack, WindowInv
  <1> QED BY <1>1, <1>3, <1>4

\* An ack keeps them: slow start and Reno add a segment below the maximum.
LEMMA WindowOnPacketAcked == WindowInv /\ OnPacketAcked => WindowInv'
  <1> SUFFICES ASSUME WindowInv, OnPacketAcked PROVE WindowInv' OBVIOUS
  <1> USE CeilingIsLarge
  <1>1. UNCHANGED <<slowstart_threshold, limitVars, phase, num_connections>>
    BY DEF OnPacketAcked, configVars
  <1>2. congestion_window' \in MSS..(Ceiling + MSS - 1)
    <2>1. CASE congestion_window' = congestion_window BY <2>1 DEF WindowInv
    <2>2. CASE congestion_window' = congestion_window + MSS /\ congestion_window < Ceiling
      BY <2>2 DEF WindowInv
    <2>3. CASE congestion_window' \in Curve
      BY <2>3, SenderConstants DEF Ceiling
    <2>4. MaybeIncreaseCwnd => <2>1!1 \/ <2>2!1 \/ <2>3!1
      BY DEF MaybeIncreaseCwnd, WindowInv, Ceiling
    <2> QED BY <2>1, <2>2, <2>3, <2>4 DEF OnPacketAcked
  <1> QED BY <1>1, <1>2 DEF WindowInv, limitVars

\* The end of an event keeps them: an RTO sets the window to the minimum.
LEMMA WindowEndEvent == WindowInv /\ EndEvent => WindowInv'
  <1> SUFFICES ASSUME WindowInv, EndEvent PROVE WindowInv' OBVIOUS
  <1> USE CeilingIsLarge
  <1>1. UNCHANGED <<limitVars, phase, num_connections>> BY DEF EndEvent, configVars
  <1>2. CASE UNCHANGED windowVars BY <1>1, <1>2 DEF WindowInv, limitVars, windowVars
  <1>3. CASE /\ slowstart_threshold' = congestion_window \div 2
             /\ congestion_window' = min_congestion_window
    <2>1. slowstart_threshold' \in Nat BY <1>3, Halved DEF WindowInv
    <2> QED BY <1>1, <1>3, <2>1 DEF WindowInv, limitVars
  <1> QED BY <1>2, <1>3 DEF EndEvent

\* The beginning of an event may end slow start.
LEMMA WindowBeginEvent ==
    ASSUME NEW A, NEW L, NEW updated, WindowInv, BeginEvent(A, L, updated)
    PROVE  WindowInv'
  <1>1. UNCHANGED <<congestion_window, limitVars, phase, num_connections>>
    BY DEF BeginEvent, configVars
  <1>2. slowstart_threshold' \in {congestion_window, slowstart_threshold}
    BY DEF BeginEvent, MaybeExitSlowStart
  <1> QED BY <1>1, <1>2, CeilingIsLarge DEF WindowInv, limitVars

\* The limits hold of every step.
LEMMA WindowStep == WindowInv /\ PacketInv /\ [Next]_vars => WindowInv'
  <1> SUFFICES ASSUME WindowInv, PacketInv, [Next]_vars PROVE WindowInv' OBVIOUS
  <1> USE CeilingIsLarge
  <1>1. CASE QueryMisses BY <1>1 DEF QueryMisses, WindowInv, windowVars, limitVars
  <1>2. CASE QueryHits BY <1>2, WindowQueryHits
  <1>3. CASE SetFromConfig BY <1>3, WindowSetFromConfig
  <1>4. CASE SetNumOpenStreams
    <2>1. PICK k \in StreamCounts : num_connections' = Smaller(5, Larger(1, k))
      BY <1>4 DEF SetNumOpenStreams
    <2>2. num_connections' \in Nat \ {0} BY <2>1, SenderConstants DEF Smaller, Larger
    <2> QED BY <1>4, <2>2 DEF SetNumOpenStreams, WindowInv, windowVars, limitVars
  <1>5. CASE OnConnectionMigration
    BY <1>5 DEF OnConnectionMigration, WindowInv, limitVars, configVars, Ceiling
  <1>6. CASE HoldPacket
    BY <1>6 DEF HoldPacket, WindowInv, windowVars, limitVars, configVars
  <1>7. CASE SendPacket
    BY <1>7 DEF SendPacket, WindowInv, windowVars, limitVars, configVars
  <1>8. CASE SendAck
    BY <1>8 DEF SendAck, WindowInv, windowVars, limitVars, configVars
  <1>9. CASE OnRetransmissionTimeout
    BY <1>9 DEF OnRetransmissionTimeout, WindowInv, windowVars, limitVars, configVars
  <1>10. CASE OnIncomingAck
    <2>1. PICK A, L, updated : BeginEvent(A, L, updated) BY <1>10 DEF OnIncomingAck
    <2> QED BY <2>1, WindowBeginEvent
  <1>11. CASE OnLossTimeout
    <2>1. PICK L : BeginEvent({}, L, FALSE) BY <1>11 DEF OnLossTimeout
    <2> QED BY <2>1, WindowBeginEvent
  <1>12. CASE OnPacketLost BY <1>12, WindowOnPacketLost
  <1>13. CASE OnPacketAcked BY <1>13, WindowOnPacketAcked
  <1>14. CASE EndEvent BY <1>14, WindowEndEvent
  <1>15. CASE UNCHANGED vars
    BY <1>15 DEF vars, WindowInv, windowVars, limitVars, configVars
  <1> QED
    BY <1>1, <1>2, <1>3, <1>4, <1>5, <1>6, <1>7, <1>8, <1>9, <1>10, <1>11, <1>12,
       <1>13, <1>14, <1>15 DEF Next

-----------------------------------------------------------------------------
(* The packets and the cutbacks.                                             *)

\* The steps of a congestion event that handle one packet or none.
LEMMA CutHandling ==
    ASSUME PacketInv, CutInv, OnPacketLost \/ OnPacketAcked \/ EndEvent
    PROVE  PacketInv' /\ CutInv'
  <1>1. UNCHANGED flightVars /\ UNCHANGED <<largest_sent, was_reset>>
    BY ZenonT(30) DEF OnPacketLost, OnPacketAcked, EndEvent
  <1>2. lost' \subseteq lost BY DEF OnPacketLost, OnPacketAcked, EndEvent
  <1>3. PacketInv' BY <1>1, <1>2 DEF PacketInv, flightVars
  <1>4. CASE UNCHANGED <<cutback, sent_at_cutback>>
    BY <1>1, <1>2, <1>3, <1>4 DEF CutInv, flightVars
  <1>5. CASE cutback' = largest_sent /\ sent_at_cutback' = Len(sent)
    BY <1>1, <1>2, <1>3, <1>5 DEF CutInv, PacketInv, flightVars
  <1>6. CASE cutback' = 0 /\ sent_at_cutback' = 0
    BY <1>1, <1>2, <1>3, <1>6 DEF CutInv, PacketInv, flightVars
  <1>7. <1>4!1 \/ <1>5!1 \/ <1>6!1
    <2>1. CASE OnPacketLost BY SMTT(30), <2>1 DEF OnPacketLost, CutBack
    <2>2. CASE OnPacketAcked BY <2>2 DEF OnPacketAcked, cutVars
    <2>3. CASE EndEvent BY <2>3 DEF EndEvent
    <2> QED BY <2>1, <2>2, <2>3
  <1> QED BY SMTT(30), <1>3, <1>4, <1>5, <1>6, <1>7

\* The beginning of an event moves packets out of flight, some of them to lost.
LEMMA CutBeginEvent ==
    ASSUME NEW A, NEW L, NEW updated, PacketInv, CutInv,
           BeginEvent(A, L, updated), L \subseteq flight, lost' \in {{}, L}
    PROVE  PacketInv' /\ CutInv'
  <1>1. UNCHANGED <<sent, cutVars, largest_sent, was_reset>> BY DEF BeginEvent
  <1>2. flight' \subseteq flight /\ lost' \subseteq flight BY DEF BeginEvent
  <1>3. PacketInv' BY <1>1, <1>2 DEF PacketInv
  <1>4. CutInv' BY <1>1, <1>2 DEF CutInv, cutVars
  <1> QED BY <1>3, <1>4

\* A packet that is sent has a number above every cutback.
LEMMA CutSendPacket ==
    ASSUME PacketInv, CutInv, SendPacket
    PROVE  PacketInv' /\ CutInv'
  <1>1. PICK size \in Sizes :
          sent' = Append(sent, size) /\ flight' = flight \cup {Len(sent')}
    BY DEF SendPacket
  <1>2. /\ sent' \in Seq(Sizes) /\ Len(sent') = Len(sent) + 1 /\ Len(sent) \in Nat
    BY <1>1 DEF PacketInv
  <1>3. largest_sent' = Len(sent') /\ UNCHANGED <<cutVars, lost, was_reset>>
    BY DEF SendPacket, eventVars
  <1>4. PacketInv'
    <2>1. 1..Len(sent) \subseteq 1..Len(sent') /\ Len(sent') \in 1..Len(sent') BY <1>2
    <2>2. flight' \subseteq 1..Len(sent') BY <1>1, <2>1 DEF PacketInv
    <2>3. lost' \subseteq 1..Len(sent') BY <1>3, <2>1 DEF PacketInv
    <2> QED BY <1>2, <2>2, <2>3 DEF PacketInv
  <1>5. CutInv' BY <1>1, <1>2, <1>3 DEF CutInv, PacketInv, cutVars
  <1> QED BY <1>4, <1>5

\* So it is of every step.
LEMMA CutStep == PacketInv /\ CutInv /\ [Next]_vars => PacketInv' /\ CutInv'
  <1> SUFFICES ASSUME PacketInv, CutInv, [Next]_vars PROVE PacketInv' /\ CutInv' OBVIOUS
  <1>1. CASE /\ UNCHANGED <<flightVars, lost, largest_sent, cutback, sent_at_cutback>>
             /\ was_reset => was_reset'
    BY <1>1 DEF PacketInv, CutInv, flightVars
  <1>2. CASE /\ UNCHANGED <<flightVars, lost>>
             /\ largest_sent' = 0 /\ cutback' = 0 /\ sent_at_cutback' = 0 /\ was_reset'
    BY <1>2 DEF PacketInv, CutInv, flightVars
  <1>3. CASE SetFromConfig
    <2>1. PICK tags \in OptionSets :
            /\ largest_sent' = IF "RENO" \in tags THEN 0 ELSE largest_sent
            /\ cutback' = IF "RENO" \in tags THEN 0 ELSE cutback
            /\ sent_at_cutback' = IF "RENO" \in tags THEN 0 ELSE sent_at_cutback
            /\ was_reset' = (was_reset \/ "RENO" \in tags)
      BY <1>3 DEF SetFromConfig
    <2>2. UNCHANGED <<flightVars, lost>> BY <1>3 DEF SetFromConfig, eventVars
    <2>3. CASE "RENO" \in tags BY <2>1, <2>2, <2>3, <1>2
    <2>4. CASE "RENO" \notin tags BY <2>1, <2>2, <2>4, <1>1
    <2> QED BY <2>3, <2>4
  <1>4. CASE OnConnectionMigration
    BY <1>2, <1>4 DEF OnConnectionMigration, eventVars
  <1>5. CASE SendPacket BY <1>5, CutSendPacket
  <1>6. CASE SendAck
    <2>1. PICK size \in Sizes : sent' = Append(sent, size) BY <1>6 DEF SendAck
    <2>2. sent' \in Seq(Sizes) /\ Len(sent') = Len(sent) + 1 /\ Len(sent) \in Nat
      BY <2>1 DEF PacketInv
    <2>3. UNCHANGED <<flight, lost, cutVars, largest_sent, was_reset>>
      BY <1>6 DEF SendAck, eventVars
    <2>4. PacketInv' BY <2>2, <2>3 DEF PacketInv
    <2>5. CutInv' BY <2>2, <2>3 DEF CutInv, cutVars
    <2> QED BY <2>4, <2>5
  <1>7. CASE OnIncomingAck
    <2>1. PICK A, L, updated : /\ L \subseteq flight
                              /\ lost' \in {{}, L}
                              /\ BeginEvent(A, L, updated)
      BY <1>7 DEF OnIncomingAck
    <2> QED BY <2>1, CutBeginEvent
  <1>8. CASE OnLossTimeout
    <2>1. PICK L : L \subseteq flight /\ lost' \in {{}, L} /\ BeginEvent({}, L, FALSE)
      BY <1>8 DEF OnLossTimeout
    <2> QED BY <2>1, CutBeginEvent
  <1>9. CASE OnPacketLost \/ OnPacketAcked \/ EndEvent BY <1>9, CutHandling
  <1>10. CASE QueryMisses BY <1>1, <1>10 DEF QueryMisses, eventVars, cutVars
  <1>11. CASE QueryHits BY <1>1, <1>11 DEF QueryHits, eventVars, cutVars
  <1>12. CASE SetNumOpenStreams BY <1>1, <1>12 DEF SetNumOpenStreams, eventVars, cutVars
  <1>13. CASE HoldPacket BY <1>1, <1>13 DEF HoldPacket, eventVars, cutVars
  <1>14. CASE OnRetransmissionTimeout
    BY <1>1, <1>14 DEF OnRetransmissionTimeout, eventVars, cutVars
  <1>15. CASE UNCHANGED vars BY <1>1, <1>15 DEF vars, eventVars, cutVars
  <1> QED
    BY <1>3, <1>4, <1>5, <1>6, <1>7, <1>8, <1>9, <1>10, <1>11, <1>12, <1>13, <1>14,
       <1>15 DEF Next

-----------------------------------------------------------------------------
(* Bytes.                                                                    *)

\* Finitely many packets of the sizes that the model allows.
Sized(s, S) == IsFiniteSet(S) /\ \A n \in S : s[n] \in 1..(MSS - 1)

\* The packets that were sent are such.
LEMMA SentIsSized ==
    ASSUME NEW s \in Seq(Sizes), NEW S \in SUBSET (1..Len(s))
    PROVE  Sized(s, S)
  <1>1. IsFiniteSet(S)
    <2>1. Len(s) \in Nat BY LenProperties
    <2>2. IsFiniteSet(1..Len(s)) BY <2>1, FS_Interval
    <2> QED BY <2>2, FS_Subset
  <1>2. ASSUME NEW n \in S PROVE s[n] \in 1..(MSS - 1)
    <2>1. s[n] \in Sizes BY ElementOfSeq
    <2>2. Sizes \subseteq 1..(MSS - 1) BY Zenon, SenderConstants
    <2> QED BY Zenon, <2>1, <2>2
  <1> QED BY Zenon, <1>1, <1>2 DEF Sized

\* Their bytes are a number.
LEMMA BytesNat ==
    ASSUME NEW s, NEW S, Sized(s, S)
    PROVE  /\ SumFunctionOnSet(s, S) \in Nat /\ IsFiniteSet(S)
           /\ \A n \in S : s[n] \in Int /\ s[n] \in Nat /\ 1 <= s[n] /\ s[n] <= MSS - 1
  <1>1. MSS \in Nat BY SenderConstants
  <1>2. \A n \in S : s[n] \in Int /\ s[n] \in Nat /\ 1 <= s[n] /\ s[n] <= MSS - 1
    BY <1>1 DEF Sized
  <1>3. IsFiniteSet(S) BY Zenon DEF Sized
  <1>4. SumFunctionOnSet(s, S) \in Nat BY <1>2, <1>3, SumNat
  <1> QED BY Zenon, <1>2, <1>3, <1>4

\* The bytes of a part of some packets, and of the rest.
LEMMA BytesSplit ==
    ASSUME NEW s, NEW S, Sized(s, S), NEW P, P \in SUBSET S
    PROVE  /\ SumFunctionOnSet(s, S) = SumFunctionOnSet(s, P) + SumFunctionOnSet(s, S \ P)
           /\ SumFunctionOnSet(s, P) <= SumFunctionOnSet(s, S)
           /\ SumFunctionOnSet(s, S) \in Nat /\ SumFunctionOnSet(s, P) \in Nat
           /\ SumFunctionOnSet(s, S \ P) \in Nat
  <1>1. IsFiniteSet(S) /\ SumFunctionOnSet(s, S) \in Nat /\ \A n \in S : s[n] \in Int
    BY Zenon, BytesNat
  <1>2. Sized(s, P) /\ Sized(s, S \ P)
    <2>1. IsFiniteSet(P) /\ IsFiniteSet(S \ P) BY <1>1, FS_Subset
    <2> QED BY Zenon, <2>1 DEF Sized
  <1>3. SumFunctionOnSet(s, P) \in Nat /\ SumFunctionOnSet(s, S \ P) \in Nat
    BY Zenon, <1>2, BytesNat
  <1>4. SumFunctionOnSet(s, S) = SumFunctionOnSet(s, P) + SumFunctionOnSet(s, S \ P)
    BY <1>1, SumSplit
  <1> QED BY <1>1, <1>3, <1>4

\* The bytes of some packets are those of one of them, at least one byte, and
\* those of the others.
OneOf(s, S, n) ==
    /\ SumFunctionOnSet(s, S) = s[n] + SumFunctionOnSet(s, S \ {n})
    /\ SumFunctionOnSet(s, S) \in Nat /\ SumFunctionOnSet(s, S \ {n}) \in Nat
    /\ s[n] \in Nat /\ 1 <= s[n] /\ s[n] <= MSS - 1

\* The bytes of one packet among others.
LEMMA BytesRemove ==
    ASSUME NEW s, NEW S, Sized(s, S), NEW n, n \in S
    PROVE  OneOf(s, S, n)
  <1>1. /\ IsFiniteSet(S) /\ \A m \in S : s[m] \in Int
    BY Zenon, BytesNat
  <1>2. SumFunctionOnSet(s, S) = s[n] + SumFunctionOnSet(s, S \ {n})
    BY <1>1, SumRemove
  <1>3. S \ {n} \in SUBSET S OBVIOUS
  <1>4. SumFunctionOnSet(s, S) \in Nat /\ SumFunctionOnSet(s, S \ {n}) \in Nat
    BY Zenon, <1>3, BytesSplit, BytesNat DEF Sized
  <1> QED BY Zenon, <1>2, <1>4, BytesNat DEF OneOf

\* The bytes of packets S are the same before and after another one is sent,
\* and with it they are more by its size.
OneMore(s, t, size, S) ==
    /\ t \in Seq(Sizes) /\ Len(t) = Len(s) + 1 /\ Len(s) \in Nat
    /\ SumFunctionOnSet(t, S) = SumFunctionOnSet(s, S)
    /\ SumFunctionOnSet(t, S \cup {Len(t)}) = SumFunctionOnSet(s, S) + size
    /\ SumFunctionOnSet(s, S) \in Nat
    /\ size \in Nat /\ 1 <= size /\ size <= MSS - 1

\* Sending one more packet leaves the bytes of the others alone.
LEMMA BytesAppend ==
    ASSUME NEW s \in Seq(Sizes), NEW size \in Sizes, NEW S \in SUBSET (1..Len(s)),
           NEW t, t = Append(s, size)
    PROVE  OneMore(s, t, size, S)
  <1>1. /\ t \in Seq(Sizes) /\ Len(t) = Len(s) + 1 /\ Len(s) \in Nat
        /\ \A n \in 1..Len(s) : t[n] = s[n]
        /\ t[Len(t)] = size
    BY AppendProperties, LenProperties
  <1>2. size \in Nat /\ 1 <= size /\ size <= MSS - 1 BY SenderConstants
  <1>3. /\ IsFiniteSet(S) /\ SumFunctionOnSet(s, S) \in Nat /\ \A n \in S : s[n] \in Int
    BY Zenon, SentIsSized, BytesNat
  <1>4. \A n \in S : s[n] \in Int /\ s[n] = t[n] BY <1>1, <1>3
  <1>5. SumFunctionOnSet(s, S) = SumFunctionOnSet(t, S) BY <1>3, <1>4, SumEqual
  <1>6. Len(t) \notin S BY <1>1
  <1>7. SumFunctionOnSet(t, S \cup {Len(t)}) = t[Len(t)] + SumFunctionOnSet(t, S)
    <2>1. \A n \in S : t[n] \in Int BY <1>4
    <2>2. t[Len(t)] \in Int BY <1>1, <1>2
    <2> DEFINE z == Len(t)
    <2>3. z \notin S /\ t[z] \in Int BY <1>6, <2>2
    <2> HIDE DEF z
    <2>4. SumFunctionOnSet(t, S \cup {z}) = t[z] + SumFunctionOnSet(t, S)
      BY <1>3, <2>1, <2>3, SumAdd
    <2> QED BY <2>4 DEF z
  <1> QED BY <1>1, <1>2, <1>3, <1>5, <1>7 DEF OneMore

-----------------------------------------------------------------------------
(* Recovery.                                                                 *)

\* The counters of PrrSender.
PrrCounts == [sent : Nat, delivered : Nat, acks : Nat, before : Nat]

\* The counters are numbers, and the cutback was at a packet that was sent.
NumberInv ==
    /\ acked \subseteq 1..Len(sent)
    /\ cutback <= Len(sent) /\ largest_sent <= Len(sent)
    /\ largest_acked \in Nat /\ prior \in Nat /\ recovery_window \in Nat
    /\ prr \in PrrCounts

\* The statistics of a client are read before anything is sent, and its
\* options come once.
PhaseInv ==
    /\ phase # "configured" => options = {}
    /\ phase = "new" => Len(sent) = 0 /\ cutback = 0

\* The bytes in flight are those of the packets in flight, and during an event
\* the packets still to handle were in flight when it began.
FlightInv ==
    /\ bytes_in_flight = Bytes(flight)
    /\ acked \cap flight = {}
    /\ pc = "idle" => lost = {} /\ acked = {}
    /\ pc # "idle" => bytes_in_flight + Bytes(acked) + Bytes(lost) <= prior

\* The sender has cut its window, PrrSender watches it, and no packet sent
\* after the cutback has been acknowledged: the next ack may find it in recovery.
Recovering ==
    cutback # 0 /\ largest_acked <= cutback /\ ~was_reset /\ "NPRR" \notin options

\* The packets of the flight that was cut whose acks PrrSender will count.
Expected == {n \in flight \cup acked : n <= cutback}

\* What PrrSender counts as delivered and what it still expects is less than
\* what was in flight, since at least one packet was lost; and as long as
\* every packet passed it, what is in flight is made up of what was and what
\* was sent, less what was delivered.
Conserved ==
    /\ slowstart_threshold <= recovery_window /\ congestion_window <= recovery_window
    /\ prr.delivered + Bytes(Expected) < prr.before
    /\ ~around_prr =>
          /\ bytes_in_flight + Bytes(acked) + prr.delivered < prr.before + prr.sent
          /\ bytes_in_flight < Larger(prr.before, recovery_window) + MSS - 1

RecoveryInv == Recovering => Conserved

\* All of it.
RInv == NumberInv /\ PhaseInv /\ FlightInv /\ RecoveryInv

\* The proportional rule of PrrSender, with D bytes delivered of B and S sent
\* since: with as much in flight as B and as the threshold T it says no.
LEMMA PrrSaysNo ==
    ASSUME NEW D \in Nat, NEW T \in Nat, NEW S \in Nat, NEW B \in Nat, NEW F \in Nat,
           D < B, B <= F, T <= F, F + D < B + S
    PROVE  ~(D * T > S * B)
  <1> DEFINE x == F - B
  <1>1. x \in Nat /\ F = B + x OBVIOUS
  <1>2. S >= D + x + 1 BY <1>1
  <1> HIDE DEF x
  <1>3. D * T <= D * F OBVIOUS
  <1>4. D * F = D * B + D * x BY <1>1
  <1>5. S * B >= (D + x + 1) * B BY <1>1, <1>2
  <1>6. (D + x + 1) * B = D * B + x * B + B BY <1>1
  <1>7. D * x <= x * B BY <1>1
  <1>8. D * T \in Nat /\ D * F \in Nat /\ D * B \in Nat /\ D * x \in Nat /\ S * B \in Nat
        /\ x * B \in Nat /\ (D + x + 1) * B \in Nat
    BY <1>1
  <1> QED BY <1>3, <1>4, <1>5, <1>6, <1>7, <1>8

\* Packets that were sent have sizes, and bytes.
LEMMA BytesOfSent ==
    ASSUME PacketInv, NEW S, S \subseteq 1..Len(sent)
    PROVE  Sized(sent, S) /\ Bytes(S) \in Nat
  <1>1. sent \in Seq(Sizes) BY Zenon DEF PacketInv
  <1>2. S \in SUBSET (1..Len(sent)) OBVIOUS
  <1>3. Sized(sent, S) BY Zenon, <1>1, <1>2, SentIsSized
  <1> QED BY Zenon, <1>3, BytesNat DEF Bytes

\* The packets of the invariants are such.
LEMMA BytesOfSets ==
    ASSUME PacketInv, NumberInv
    PROVE  /\ Sized(sent, flight) /\ Sized(sent, lost) /\ Sized(sent, acked)
           /\ Sized(sent, Expected)
           /\ Bytes(flight) \in Nat /\ Bytes(lost) \in Nat /\ Bytes(acked) \in Nat
           /\ Bytes(Expected) \in Nat
  <1>1. flight \subseteq 1..Len(sent) /\ lost \subseteq 1..Len(sent)
        /\ acked \subseteq 1..Len(sent)
    BY Zenon DEF PacketInv, NumberInv
  <1>2. Expected \subseteq 1..Len(sent) BY Zenon, <1>1 DEF Expected
  <1> QED BY Zenon, <1>1, <1>2, BytesOfSent

\* Steps that leave the flight and PrrSender alone, and let the window grow no
\* further than the largest window since the cutback.
LEMMA QuietRecovery ==
    ASSUME PacketInv, NumberInv, NumberInv', FlightInv, RecoveryInv,
           UNCHANGED <<sent, flight, bytes_in_flight, acked, cutback, prr, around_prr>>,
           Recovering' =>
             /\ Recovering
             /\ slowstart_threshold' <= recovery_window'
             /\ congestion_window' <= recovery_window'
             /\ recovery_window <= recovery_window'
    PROVE  RecoveryInv'
  <1>1. UNCHANGED <<Bytes(acked), Bytes(Expected)>> BY Zenon DEF Bytes, Expected
  <1> SUFFICES ASSUME Recovering' PROVE Conserved' BY DEF RecoveryInv
  <1>2. Conserved BY Zenon DEF RecoveryInv
  <1>3. /\ prr.before \in Nat /\ recovery_window \in Nat /\ recovery_window' \in Nat
        /\ MSS \in Nat /\ bytes_in_flight \in Nat
    BY SenderConstants, BytesOfSets DEF NumberInv, FlightInv, PrrCounts
  <1>4. Larger(prr.before, recovery_window) <= Larger(prr.before, recovery_window')
    BY <1>3 DEF Larger
  <1>5. Larger(prr.before, recovery_window) \in Nat /\ Larger(prr.before, recovery_window') \in Nat
    BY <1>3 DEF Larger
  <1>6. ~around_prr => bytes_in_flight < Larger(prr.before, recovery_window') + MSS - 1
    BY <1>2, <1>3, <1>4, <1>5 DEF Conserved
  <1> QED BY <1>1, <1>2, <1>6 DEF Conserved

\* Counting a packet leaves the counters numbers.
LEMMA PrrAdds ==
    ASSUME NEW p \in PrrCounts, NEW k \in Nat
    PROVE  /\ [p EXCEPT !.sent = @ + k] \in PrrCounts
           /\ [p EXCEPT !.delivered = @ + k, !.acks = @ + 1] \in PrrCounts
  <1>1. p = [sent |-> p.sent, delivered |-> p.delivered, acks |-> p.acks, before |-> p.before]
        /\ p.sent \in Nat /\ p.delivered \in Nat /\ p.acks \in Nat /\ p.before \in Nat
    BY DEF PrrCounts
  <1>2. p.sent + k \in Nat /\ p.delivered + k \in Nat /\ p.acks + 1 \in Nat
    BY <1>1
  <1>3. [p EXCEPT !.sent = @ + k] \in PrrCounts BY <1>2 DEF PrrCounts
  <1>4. [p EXCEPT !.delivered = @ + k, !.acks = @ + 1] \in PrrCounts
    BY <1>2 DEF PrrCounts
  <1> QED BY <1>3, <1>4

\* An event begins with packets of the flight: some acknowledged, others lost.
LEMMA EventBegins ==
    ASSUME OnIncomingAck \/ OnLossTimeout
    PROVE  \E A, L, updated : /\ pc = "idle"
                             /\ A \subseteq flight /\ L \subseteq flight \ A
                             /\ lost' \in {{}, L}
                             /\ BeginEvent(A, L, updated)
  <1>1. CASE OnIncomingAck BY <1>1 DEF OnIncomingAck
  <1>2. CASE OnLossTimeout
    <2>1. PICK L \in SUBSET flight : lost' = L /\ BeginEvent({}, L, FALSE)
      BY <1>2 DEF OnLossTimeout
    <2>2. pc = "idle" BY <1>2 DEF OnLossTimeout
    <2>3. {} \subseteq flight /\ L \subseteq flight \ {} OBVIOUS
    <2> QED BY <2>1, <2>2, <2>3
  <1> QED BY <1>1, <1>2

\* The numbers of the sender stay numbers.
LEMMA NumberStep ==
    ASSUME IInv, IInv', NumberInv, FlightInv, [Next]_vars
    PROVE  NumberInv'
  <1>1. congestion_window \in Nat /\ congestion_window' \in Nat
    <2>1. MSS \in Nat /\ Ceiling \in Nat BY CeilingIsLarge
    <2> QED BY <2>1 DEF IInv, WindowInv
  <1>2. Len(sent) \in Nat /\ Len(sent') \in Nat BY DEF IInv, PacketInv
  <1>3. cutback \in Nat /\ largest_sent \in Nat BY DEF IInv, CutInv
  <1>4. bytes_in_flight \in Nat BY Zenon, BytesOfSets DEF IInv, FlightInv
  <1>5. \A n \in acked : sent[n] \in Nat
    BY Zenon, BytesOfSets, BytesNat DEF IInv
  <1>6. \A n \in acked : n \in Nat BY DEF NumberInv
  <1>7. CASE UNCHANGED <<sent, acked, cutback, largest_sent, largest_acked, prior,
                         recovery_window, prr>>
    BY <1>7 DEF NumberInv
  <1>8. CASE SetFromConfig
    <2>1. UNCHANGED <<sent, acked, prior>> BY <1>8 DEF SetFromConfig, flightVars, eventVars
    <2>2. /\ cutback' \in {0, cutback} /\ largest_sent' \in {0, largest_sent}
          /\ largest_acked' \in {0, largest_acked} /\ prr' \in {NoPrr, prr}
          /\ recovery_window' = Larger(recovery_window, congestion_window')
      BY <1>8 DEF SetFromConfig
    <2> QED BY <1>1, <1>2, <2>1, <2>2 DEF NumberInv, NoPrr, Larger, PrrCounts
  <1>9. CASE OnConnectionMigration
    BY <1>2, <1>9 DEF OnConnectionMigration, NumberInv, NoPrr, PrrCounts, flightVars, eventVars
  <1>10. CASE SendPacket
    <2>1. PICK size \in Sizes : sent' = Append(sent, size) /\ prr' = PrrOnPacketSent(size)
      BY <1>10 DEF SendPacket
    <2>2. Len(sent') = Len(sent) + 1 /\ size \in Nat
      BY SMTT(30), <2>1, SenderConstants DEF IInv, PacketInv
    <2>3. prr' \in PrrCounts
      BY <2>1, <2>2, PrrAdds DEF PrrOnPacketSent, NumberInv
    <2>4. /\ largest_sent' = Len(sent')
          /\ UNCHANGED <<acked, cutback, largest_acked, prior, recovery_window>>
      BY <1>10 DEF SendPacket, eventVars, cutVars
    <2> QED BY <1>2, <1>3, <2>2, <2>3, <2>4 DEF NumberInv
  <1>11. CASE SendAck
    <2>1. PICK size \in Sizes : sent' = Append(sent, size) BY <1>11 DEF SendAck
    <2>2. Len(sent') = Len(sent) + 1 BY <2>1 DEF IInv, PacketInv
    <2>3. UNCHANGED <<acked, cutback, largest_sent, largest_acked, prior,
                      recovery_window, prr>>
      BY <1>11 DEF SendAck, eventVars, cutVars
    <2> QED BY <1>2, <1>3, <2>2, <2>3 DEF NumberInv
  <1>12. ASSUME NEW A, NEW L, NEW updated, A \subseteq flight, BeginEvent(A, L, updated)
         PROVE  NumberInv'
    <2>1. /\ acked' = A /\ prior' = bytes_in_flight
          /\ UNCHANGED <<sent, cutback, largest_sent, largest_acked, recovery_window, prr>>
      BY <1>12 DEF BeginEvent, cutVars
    <2>2. A \subseteq 1..Len(sent) BY <1>12 DEF IInv, PacketInv
    <2> QED BY <1>4, <2>1, <2>2 DEF NumberInv
  <1>13. CASE OnIncomingAck \/ OnLossTimeout
    <2>1. PICK A, L, updated : A \subseteq flight /\ BeginEvent(A, L, updated)
      BY <1>13, EventBegins
    <2> QED BY <2>1, <1>12
  <1>15. CASE OnPacketLost
    <2>1. UNCHANGED <<sent, acked, prior, largest_sent, largest_acked>>
      BY <1>15 DEF OnPacketLost, flightVars
    <2>2. CASE UNCHANGED <<cutback, prr>>
               /\ recovery_window' \in {recovery_window, congestion_window'}
      BY <1>1, <2>1, <2>2 DEF NumberInv
    <2>3. CASE CutBack
      <3>1. [NoPrr EXCEPT !.before = prior] \in PrrCounts
        BY DEF NoPrr, NumberInv, PrrCounts
      <3> QED BY <1>1, <2>1, <2>3, <3>1 DEF NumberInv, CutBack
    <2> QED BY <1>15, <2>2, <2>3 DEF OnPacketLost, ReduceAgain, Larger
  <1>16. CASE OnPacketAcked
    <2>1. UNCHANGED <<sent, prior, largest_sent, cutback, recovery_window>>
      BY SMTT(30), <1>16 DEF OnPacketAcked, flightVars, cutVars
    <2>2. PICK n \in acked : /\ acked' = acked \ {n}
                            /\ largest_acked' = Larger(largest_acked, n)
                            /\ prr' \in {prr, [prr EXCEPT !.delivered = @ + sent[n], !.acks = @ + 1]}
      BY ZenonT(30), <1>16 DEF OnPacketAcked, Least
    <2>3. prr' \in PrrCounts
      BY <1>5, <2>2, PrrAdds DEF NumberInv
    <2>4. largest_acked' \in Nat BY <1>6, <2>2 DEF NumberInv, Larger
    <2> QED BY <2>1, <2>2, <2>3, <2>4 DEF NumberInv
  <1>17. CASE EndEvent
    <2>1. /\ UNCHANGED <<sent, acked, largest_sent, largest_acked, recovery_window, prr>>
          /\ prior' = 0 /\ cutback' \in {0, cutback}
      BY SMTT(30), <1>17 DEF EndEvent, flightVars
    <2> QED BY <1>2, <2>1 DEF NumberInv
  <1>18. CASE \/ QueryMisses \/ QueryHits \/ SetNumOpenStreams \/ HoldPacket
              \/ OnRetransmissionTimeout \/ UNCHANGED vars
    BY <1>7, <1>18 DEF QueryMisses, QueryHits, SetNumOpenStreams, HoldPacket,
       OnRetransmissionTimeout, vars, flightVars, eventVars, cutVars
  <1> QED
    BY <1>8, <1>9, <1>10, <1>11, <1>13, <1>15, <1>16, <1>17, <1>18 DEF Next

\* The statistics are read before a packet is sent, the options come once.
LEMMA PhaseStep ==
    ASSUME PacketInv, PhaseInv, [Next]_vars
    PROVE  PhaseInv'
  <1>1. CASE QueryMisses \/ QueryHits
    BY <1>1 DEF QueryMisses, QueryHits, PhaseInv
  <1>2. CASE SetFromConfig BY <1>2 DEF SetFromConfig, PhaseInv
  <1>3. CASE OnConnectionMigration
    BY <1>3 DEF OnConnectionMigration, PhaseInv, configVars
  <1>4. CASE SendPacket \/ SendAck BY <1>4 DEF SendPacket, SendAck, PhaseInv, configVars
  <1>5. CASE OnPacketLost
    <2>1. Len(sent) # 0 BY <1>5 DEF OnPacketLost, PacketInv, Least
    <2> QED BY <1>5, <2>1 DEF OnPacketLost, PhaseInv, configVars
  <1>6. CASE EndEvent
    <2>1. cutback' \in {0, cutback} /\ UNCHANGED <<phase, options, sent>>
      BY <1>6 DEF EndEvent, configVars, flightVars
    <2> QED BY <2>1 DEF PhaseInv
  <1>7. CASE UNCHANGED <<phase, options, sent, cutback>> BY <1>7 DEF PhaseInv
  <1>8. CASE OnIncomingAck \/ OnLossTimeout
    <2>1. PICK A, L, updated : BeginEvent(A, L, updated) BY ZenonT(30), <1>8, EventBegins
    <2> QED BY <1>7, <2>1 DEF BeginEvent, configVars, cutVars
  <1>10. CASE \/ SetNumOpenStreams \/ HoldPacket \/ OnRetransmissionTimeout
              \/ OnPacketAcked \/ UNCHANGED vars
    BY <1>7, <1>10 DEF SetNumOpenStreams, HoldPacket, OnRetransmissionTimeout,
       OnPacketAcked, vars, flightVars, configVars, cutVars
  <1> QED
    BY SMTT(30), <1>1, <1>2, <1>3, <1>4, <1>5, <1>6, <1>8, <1>10 DEF Next

\* A packet is sent: it is in flight, and it was sent after the cutback.
LEMMA FlightSendPacket ==
    ASSUME PacketInv, NumberInv, FlightInv, cutback \in Nat, SendPacket
    PROVE  /\ FlightInv'
           /\ UNCHANGED <<Bytes(acked), Bytes(Expected)>>
           /\ \E size \in Sizes : /\ bytes_in_flight' = bytes_in_flight + size
                                  /\ prr' = PrrOnPacketSent(size)
  <1>1. PICK size \in Sizes : /\ sent' = Append(sent, size)
                             /\ flight' = flight \cup {Len(sent')}
                             /\ bytes_in_flight' = bytes_in_flight + size
                             /\ prr' = PrrOnPacketSent(size)
    BY DEF SendPacket
  <1>2. UNCHANGED <<acked, lost, pc, prior, cutback>> /\ pc = "idle"
    BY DEF SendPacket, eventVars, cutVars
  <1>3. sent \in Seq(Sizes) /\ flight \in SUBSET (1..Len(sent))
        /\ acked \in SUBSET (1..Len(sent)) /\ Expected \in SUBSET (1..Len(sent))
    BY Zenon DEF PacketInv, NumberInv, Expected
  <1>4. /\ SumFunctionOnSet(sent', acked) = SumFunctionOnSet(sent, acked)
        /\ SumFunctionOnSet(sent', Expected) = SumFunctionOnSet(sent, Expected)
        /\ SumFunctionOnSet(sent', flight \cup {Len(sent')})
              = SumFunctionOnSet(sent, flight) + size
        /\ Len(sent') = Len(sent) + 1 /\ Len(sent) \in Nat
    <2> DEFINE t == sent'
    <2>1. t = Append(sent, size) BY <1>1
    <2> HIDE DEF t
    <2>2. ASSUME NEW S \in SUBSET (1..Len(sent))
          PROVE  OneMore(sent, t, size, S)
      BY Zenon, <1>3, <2>1, BytesAppend
    <2> QED BY Zenon, <1>3, <2>2 DEF t, OneMore
  <1>5. Expected' = Expected
    <2>1. cutback < Len(sent') BY <1>4 DEF NumberInv
    <2> QED BY <1>1, <1>2, <1>4, <2>1 DEF Expected
  <1>6. Len(sent') \notin acked BY <1>3, <1>4
  <1>7. FlightInv'
    <2>1. bytes_in_flight' = (Bytes(flight))' BY <1>1, <1>4 DEF Bytes, FlightInv
    <2>2. acked' \cap flight' = {} BY <1>1, <1>2, <1>6 DEF FlightInv
    <2> QED BY <1>2, <2>1, <2>2 DEF FlightInv
  <1> QED BY <1>1, <1>2, <1>4, <1>5, <1>7 DEF Bytes

\* An ack is sent: it is never in flight.
LEMMA FlightSendAck ==
    ASSUME PacketInv, NumberInv, FlightInv, SendAck
    PROVE  FlightInv' /\ UNCHANGED <<Bytes(acked), Bytes(Expected)>>
  <1>1. PICK size \in Sizes : sent' = Append(sent, size) BY DEF SendAck
  <1>2. UNCHANGED <<flight, bytes_in_flight, acked, lost, pc, prior, cutback>> /\ pc = "idle"
    BY DEF SendAck, eventVars, cutVars
  <1>3. sent \in Seq(Sizes) /\ flight \in SUBSET (1..Len(sent))
        /\ acked \in SUBSET (1..Len(sent)) /\ Expected \in SUBSET (1..Len(sent))
    BY Zenon DEF PacketInv, NumberInv, Expected
  <1>4. /\ SumFunctionOnSet(sent', acked) = SumFunctionOnSet(sent, acked)
        /\ SumFunctionOnSet(sent', Expected) = SumFunctionOnSet(sent, Expected)
        /\ SumFunctionOnSet(sent', flight) = SumFunctionOnSet(sent, flight)
    <2> DEFINE t == sent'
    <2>1. t = Append(sent, size) BY <1>1
    <2> HIDE DEF t
    <2>2. ASSUME NEW S \in SUBSET (1..Len(sent))
          PROVE  OneMore(sent, t, size, S)
      BY Zenon, <1>3, <2>1, BytesAppend
    <2> QED BY Zenon, <1>3, <2>2 DEF t, OneMore
  <1>5. Expected' = Expected BY <1>2 DEF Expected
  <1>6. FlightInv'
    <2>1. bytes_in_flight' = (Bytes(flight))' BY SMTT(30), <1>2, <1>4 DEF Bytes, FlightInv
    <2> QED BY <1>2, <2>1 DEF FlightInv
  <1> QED BY <1>2, <1>4, <1>5, <1>6 DEF Bytes

\* An event begins: it takes the packets that it handles out of flight.
LEMMA FlightBeginEvent ==
    ASSUME PacketInv, NumberInv, FlightInv, NEW A, NEW L, NEW updated, pc = "idle",
           A \subseteq flight, L \subseteq flight \ A, lost' \in {{}, L},
           BeginEvent(A, L, updated)
    PROVE  /\ FlightInv'
           /\ (Bytes(Expected))' <= Bytes(Expected)
           /\ bytes_in_flight' + (Bytes(acked))' <= bytes_in_flight + Bytes(acked)
           /\ bytes_in_flight' <= bytes_in_flight
           /\ bytes_in_flight' \in Nat /\ (Bytes(acked))' \in Nat
           /\ (Bytes(Expected))' \in Nat
  <1>1. /\ flight' = flight \ (A \cup L) /\ acked' = A /\ prior' = bytes_in_flight
        /\ bytes_in_flight' = bytes_in_flight - Bytes(A \cup L)
        /\ pc' = "event" /\ UNCHANGED <<sent, cutback>>
    BY DEF BeginEvent, cutVars
  <1>2. Sized(sent, flight) /\ A \cup L \in SUBSET flight BY Zenon, BytesOfSets
  <1>3. /\ Bytes(flight) = Bytes(A \cup L) + Bytes(flight \ (A \cup L))
        /\ Bytes(flight) \in Nat /\ Bytes(A \cup L) \in Nat
        /\ Bytes(flight \ (A \cup L)) \in Nat
    BY <1>2, BytesSplit DEF Bytes
  <1>4. Sized(sent, A \cup L) /\ A \in SUBSET (A \cup L) /\ (A \cup L) \ A = L
    <2>1. A \cup L \subseteq 1..Len(sent) BY Zenon, <1>2 DEF PacketInv
    <2> QED BY <2>1, BytesOfSent
  <1>5. /\ Bytes(A \cup L) = Bytes(A) + Bytes(L) /\ Bytes(A) \in Nat /\ Bytes(L) \in Nat
    BY <1>4, BytesSplit DEF Bytes
  <1>6. Bytes({}) = 0 BY SumEmpty DEF Bytes
  <1>7. (Bytes(lost))' \in Nat /\ (Bytes(lost))' <= Bytes(L)
    <2>1. (Bytes(lost))' \in {Bytes({}), Bytes(L)} BY Zenon, <1>1 DEF Bytes
    <2> QED BY <1>5, <1>6, <2>1
  <1>8. (Bytes(acked))' = Bytes(A) /\ (Bytes(flight))' = Bytes(flight \ (A \cup L))
    BY <1>1 DEF Bytes
  <1>9. bytes_in_flight = Bytes(flight) /\ acked = {} BY DEF FlightInv
  <1>10. FlightInv'
    <2>1. bytes_in_flight' = (Bytes(flight))' BY <1>1, <1>3, <1>8, <1>9
    <2>2. acked' \cap flight' = {} BY <1>1
    <2>3. bytes_in_flight' + (Bytes(acked))' + (Bytes(lost))' <= prior'
      BY SMTT(30), <1>1, <1>3, <1>5, <1>7, <1>8, <1>9
    <2> QED BY <1>1, <2>1, <2>2, <2>3 DEF FlightInv
  <1>11. (Bytes(Expected))' <= Bytes(Expected) /\ (Bytes(Expected))' \in Nat
    <2>1. Expected' \in SUBSET Expected BY <1>1 DEF Expected
    <2>2. Sized(sent, Expected) BY Zenon, BytesOfSets
    <2>3. /\ SumFunctionOnSet(sent, Expected') <= SumFunctionOnSet(sent, Expected)
          /\ SumFunctionOnSet(sent, Expected') \in Nat
      <3> DEFINE E == Expected'
      <3>1. E \in SUBSET Expected BY <2>1
      <3> HIDE DEF E
      <3>2. /\ SumFunctionOnSet(sent, E) <= SumFunctionOnSet(sent, Expected)
            /\ SumFunctionOnSet(sent, E) \in Nat
        BY Zenon, <2>2, <3>1, BytesSplit
      <3> QED BY <3>2 DEF E
    <2> QED BY <1>1, <2>3 DEF Bytes
  <1> QED BY SMTT(30), <1>1, <1>3, <1>5, <1>6, <1>8, <1>9, <1>10, <1>11

\* A lost packet is handled: it had at least a byte.
LEMMA FlightOnPacketLost ==
    ASSUME PacketInv, NumberInv, FlightInv, OnPacketLost
    PROVE  /\ FlightInv'
           /\ bytes_in_flight + Bytes(acked) < prior
  <1>1. PICK n \in lost : lost' = lost \ {n} BY DEF OnPacketLost, Least
  <1>2. UNCHANGED <<sent, flight, bytes_in_flight, acked, pc, prior>> /\ pc = "event"
    BY DEF OnPacketLost, flightVars
  <1>3. Sized(sent, lost) /\ Bytes(acked) \in Nat /\ Bytes(flight) \in Nat
    BY Zenon, BytesOfSets
  <1>4. /\ Bytes(lost) = sent[n] + Bytes(lost \ {n}) /\ Bytes(lost) \in Nat
        /\ Bytes(lost \ {n}) \in Nat /\ sent[n] \in Nat /\ 1 <= sent[n]
    <2>1. OneOf(sent, lost, n) BY Zenon, <1>3, BytesRemove
    <2> QED BY Zenon, <2>1 DEF OneOf, Bytes
  <1>5. bytes_in_flight \in Nat /\ prior \in Nat
        /\ bytes_in_flight + Bytes(acked) + Bytes(lost) <= prior
    BY <1>2, <1>3 DEF FlightInv, NumberInv
  <1>6. UNCHANGED Bytes(acked) /\ UNCHANGED Bytes(flight)
        /\ (Bytes(lost))' = Bytes(lost \ {n})
    BY SMTT(30), <1>1, <1>2 DEF Bytes
  <1>7. bytes_in_flight' + (Bytes(acked))' + (Bytes(lost))' <= prior'
    BY SMTT(30), <1>2, <1>3, <1>4, <1>5, <1>6
  <1>8. FlightInv' BY <1>2, <1>6, <1>7 DEF FlightInv
  <1> QED BY <1>3, <1>4, <1>5, <1>8

\* A step that handles the acknowledged packet n.
Handles(n) ==
    /\ acked' = acked \ {n}
    /\ largest_acked' = Larger(largest_acked, n)
    /\ (RecoveryAt(largest_acked') /\ "NPRR" \notin options) =>
          prr' = [prr EXCEPT !.delivered = @ + sent[n], !.acks = @ + 1]

\* An acknowledged packet is handled: its bytes go from what was acknowledged
\* to what PrrSender counts as delivered.
LEMMA FlightOnPacketAcked ==
    ASSUME PacketInv, NumberInv, FlightInv, cutback \in Nat, OnPacketAcked,
           NEW n \in acked, Handles(n)
    PROVE  /\ FlightInv'
           /\ sent[n] \in Nat /\ n \in Nat /\ 1 <= n
           /\ Bytes(acked) = (Bytes(acked))' + sent[n] /\ (Bytes(acked))' \in Nat
           /\ n <= cutback => /\ Bytes(Expected) = (Bytes(Expected))' + sent[n]
                              /\ (Bytes(Expected))' \in Nat
  <1>1. acked' = acked \ {n} BY DEF Handles
  <1>2. /\ UNCHANGED <<sent, flight, bytes_in_flight, lost, pc, prior, cutback>>
        /\ pc = "event"
    BY DEF OnPacketAcked, flightVars, cutVars
  <1>3. /\ Sized(sent, acked) /\ Sized(sent, Expected)
        /\ Bytes(flight) \in Nat /\ Bytes(lost) \in Nat
    BY Zenon, BytesOfSets
  <1>4. n \in Nat /\ 1 <= n
    <2>1. Len(sent) \in Nat /\ n \in 1..Len(sent) BY DEF PacketInv, NumberInv
    <2> QED BY <2>1
  <1>5. OneOf(sent, acked, n) BY Zenon, <1>3, BytesRemove
  <1>6. Bytes(acked) = sent[n] + Bytes(acked \ {n}) /\ sent[n] \in Nat
        /\ Bytes(acked \ {n}) \in Nat
    BY Zenon, <1>5 DEF OneOf, Bytes
  <1>7. (Bytes(acked))' = Bytes(acked \ {n}) /\ UNCHANGED Bytes(flight)
        /\ UNCHANGED Bytes(lost)
    BY Zenon, <1>1, <1>2 DEF Bytes
  <1>8. Bytes(acked) = (Bytes(acked))' + sent[n] /\ (Bytes(acked))' \in Nat
    BY <1>6, <1>7
  <1>9. ASSUME n <= cutback
        PROVE  Bytes(Expected) = (Bytes(Expected))' + sent[n] /\ (Bytes(Expected))' \in Nat
    <2>1. n \in Expected /\ n \notin flight BY <1>9 DEF Expected, FlightInv
    <2>2. Expected' = Expected \ {n} BY <1>1, <1>2, <2>1 DEF Expected
    <2>3. OneOf(sent, Expected, n) BY Zenon, <1>3, <2>1, BytesRemove
    <2>4. Bytes(Expected) = sent[n] + Bytes(Expected \ {n}) /\ Bytes(Expected \ {n}) \in Nat
      BY Zenon, <2>3 DEF OneOf, Bytes
    <2>5. (Bytes(Expected))' = Bytes(Expected \ {n}) BY <1>2, <2>2 DEF Bytes
    <2> QED BY <1>6, <2>4, <2>5
  <1>10. FlightInv'
    <2>1. bytes_in_flight' = (Bytes(flight))' BY <1>2, <1>7 DEF FlightInv
    <2>2. bytes_in_flight' + (Bytes(acked))' + (Bytes(lost))' <= prior'
      <3>1. bytes_in_flight \in Nat /\ prior \in Nat
            /\ bytes_in_flight + Bytes(acked) + Bytes(lost) <= prior
        BY <1>2, <1>3 DEF FlightInv, NumberInv
      <3> QED BY SMTT(30), <1>2, <1>3, <1>6, <1>7, <3>1
    <2>3. acked' \cap flight' = {} BY <1>1, <1>2 DEF FlightInv
    <2> QED BY <1>2, <2>1, <2>2, <2>3 DEF FlightInv
  <1> QED BY <1>4, <1>6, <1>8, <1>9, <1>10

\* PrrSender lets a packet of a recovery go only below what was in flight at
\* the cutback or below the window.
LEMMA PrrBounds ==
    ASSUME IInv, NumberInv, FlightInv, Conserved, ~around_prr, PrrCanSend
    PROVE  bytes_in_flight < Larger(prr.before, recovery_window)
  <1> DEFINE F == bytes_in_flight
             B == prr.before
             D == prr.delivered
             S == prr.sent
             W == recovery_window
  <1>1. F \in Nat /\ B \in Nat /\ D \in Nat /\ S \in Nat /\ W \in Nat
        /\ Bytes(acked) \in Nat /\ Bytes(Expected) \in Nat
    BY BytesOfSets DEF IInv, NumberInv, PrrCounts, FlightInv
  <1>2. MSS \in Nat /\ congestion_window \in Nat /\ MSS <= congestion_window
        /\ slowstart_threshold \in Nat
    BY CeilingIsLarge DEF IInv, WindowInv
  <1>3. slowstart_threshold <= W /\ congestion_window <= W /\ D + Bytes(Expected) < B
        /\ F + Bytes(acked) + D < B + S
    BY DEF Conserved
  <1>4. \/ S = 0 \/ F < MSS \/ congestion_window > F \/ D * slowstart_threshold > S * B
    BY DEF PrrCanSend
  <1> HIDE DEF F, B, D, S, W
  <1>5. F < B \/ F < W
    <2> SUFFICES ASSUME B <= F, W <= F PROVE FALSE BY <1>1
    <2>1. D < B /\ F + D < B + S /\ slowstart_threshold <= F BY <1>1, <1>2, <1>3
    <2>2. ~(D * slowstart_threshold > S * B) BY <1>1, <1>2, <2>1, PrrSaysNo
    <2>3. ~(S = 0) BY <1>1, <1>3
    <2>4. ~(F < MSS) /\ ~(congestion_window > F) BY <1>1, <1>2, <1>3
    <2> QED BY <1>4, <2>2, <2>3, <2>4
  <1>6. F < Larger(B, W) BY <1>1, <1>5 DEF Larger
  <1> QED BY <1>6 DEF F, B, W

\* A packet is sent in recovery.
LEMMA RecoverySendPacket ==
    ASSUME IInv, NumberInv, FlightInv, RecoveryInv, SendPacket
    PROVE  RecoveryInv'
  <1>1. PacketInv /\ cutback \in Nat BY DEF IInv, CutInv
  <1>2. UNCHANGED <<Bytes(acked), Bytes(Expected)>> BY Zenon, <1>1, FlightSendPacket
  <1>3. PICK size \in Sizes : /\ bytes_in_flight' = bytes_in_flight + size
                             /\ prr' = PrrOnPacketSent(size)
    BY Zenon, <1>1, FlightSendPacket
  <1>4. /\ UNCHANGED <<congestion_window, slowstart_threshold, recovery_window, cutback,
                       largest_acked, options, was_reset>>
        /\ around_prr' = (cutback # 0 /\ (around_prr \/ ~CanSend \/ ~InRecovery))
    BY DEF SendPacket, windowVars, cutVars, configVars
  <1> SUFFICES ASSUME Recovering' PROVE Conserved' BY DEF RecoveryInv
  <1>5. Recovering /\ Conserved BY <1>4 DEF Recovering, RecoveryInv
  <1>6. size \in Nat /\ size <= MSS - 1 /\ MSS \in Nat BY SenderConstants
  <1>7. prr \in PrrCounts /\ prr.sent \in Nat /\ prr.delivered \in Nat /\ prr.before \in Nat
        /\ recovery_window \in Nat
    BY DEF NumberInv, PrrCounts
  <1>8. prr'.delivered = prr.delivered /\ prr'.before = prr.before
        /\ (InRecovery => prr'.sent = prr.sent + size)
    BY <1>3, <1>7 DEF PrrOnPacketSent, PrrCounts
  <1>9. bytes_in_flight \in Nat /\ Bytes(acked) \in Nat
    BY Zenon, <1>1, BytesOfSets DEF FlightInv
  <1>10. ASSUME ~around_prr'
         PROVE  /\ bytes_in_flight' + (Bytes(acked))' + prr'.delivered < prr'.before + prr'.sent
                /\ bytes_in_flight' < Larger(prr'.before, recovery_window') + MSS - 1
    <2>1. ~around_prr /\ CanSend /\ InRecovery
      BY <1>4, <1>5, <1>10 DEF Recovering
    <2>2. PrrCanSend BY <1>5, <2>1 DEF CanSend, Recovering
    <2>3. bytes_in_flight < Larger(prr.before, recovery_window)
      BY Zenon, <1>5, <2>1, <2>2, PrrBounds
    <2>4. Larger(prr.before, recovery_window) \in Nat BY <1>7 DEF Larger
    <2>5. bytes_in_flight + Bytes(acked) + prr.delivered < prr.before + prr.sent
      BY <1>5, <2>1 DEF Conserved
    <2>6. bytes_in_flight' + (Bytes(acked))' + prr'.delivered < prr'.before + prr'.sent
      BY <1>2, <1>3, <1>6, <1>7, <1>8, <1>9, <2>1, <2>5
    <2>7. Larger(prr'.before, recovery_window') = Larger(prr.before, recovery_window)
      BY Zenon, <1>4, <1>8
    <2>8. bytes_in_flight + size < Larger(prr.before, recovery_window) + MSS - 1
      BY SMTT(30), <1>6, <1>9, <2>3, <2>4
    <2> QED BY <1>3, <2>6, <2>7, <2>8
  <1>11. prr'.delivered + (Bytes(Expected))' < prr'.before
    BY <1>2, <1>5, <1>8 DEF Conserved
  <1> QED BY <1>4, <1>5, <1>10, <1>11 DEF Conserved

\* A loss cuts the window, or falls into the flight that was cut.
LEMMA RecoveryOnPacketLost ==
    ASSUME IInv, IInv', NumberInv, NumberInv', FlightInv, RecoveryInv, OnPacketLost
    PROVE  RecoveryInv'
  <1>1. UNCHANGED <<sent, flight, bytes_in_flight, acked, largest_acked, options, was_reset>>
    BY DEF OnPacketLost, flightVars, configVars
  <1>2. congestion_window' \in Nat /\ congestion_window \in Nat /\ MSS \in Nat /\ MSS # 0
    BY CeilingIsLarge DEF IInv, WindowInv
  <1>3. ASSUME NEW n, ReduceAgain(n), UNCHANGED <<cutback, prr, around_prr>>
        PROVE  RecoveryInv'
    <2>1. recovery_window \in Nat /\ PacketInv BY DEF NumberInv, IInv
    <2>2. Recovering' => Recovering BY <1>1, <1>3 DEF Recovering
    <2>3. CASE UNCHANGED <<windowVars, recovery_window>>
      <3>1. UNCHANGED <<congestion_window, slowstart_threshold, recovery_window>>
        BY <2>3 DEF windowVars
      <3>2. Recovering => slowstart_threshold' <= recovery_window'
                          /\ congestion_window' <= recovery_window'
        BY <3>1 DEF RecoveryInv, Conserved
      <3>3. recovery_window <= recovery_window' BY <2>1, <3>1
      <3> QED BY SMTT(30), <1>1, <1>3, <2>1, <2>2, <3>2, <3>3, QuietRecovery
    <2>4. CASE /\ slowstart_threshold' = congestion_window'
               /\ recovery_window' = Larger(recovery_window, congestion_window')
      <3>1. /\ slowstart_threshold' <= recovery_window'
            /\ congestion_window' <= recovery_window'
            /\ recovery_window <= recovery_window'
        BY <1>2, <2>1, <2>4 DEF Larger
      <3> QED BY <1>1, <1>3, <2>1, <2>2, <3>1, QuietRecovery
    <2> QED BY <1>3, <2>3, <2>4 DEF ReduceAgain
  <1>4. CASE CutBack
    <2> SUFFICES ASSUME Recovering' PROVE Conserved' BY DEF RecoveryInv
    <2>1. PacketInv BY DEF IInv
    <2>2. bytes_in_flight + Bytes(acked) < prior BY Zenon, <2>1, FlightOnPacketLost
    <2>3. prr' = [NoPrr EXCEPT !.before = prior]
      BY <1>1, <1>4 DEF CutBack, Recovering
    <2>4. prr'.sent = 0 /\ prr'.delivered = 0 /\ prr'.before = prior BY <2>3 DEF NoPrr
    <2>5. /\ slowstart_threshold' = congestion_window'
          /\ recovery_window' = congestion_window'
      BY <1>4 DEF CutBack
    <2>6. UNCHANGED Bytes(acked) BY <1>1 DEF Bytes
    <2>7. bytes_in_flight \in Nat /\ Bytes(acked) \in Nat /\ prior \in Nat
      BY <2>1, BytesOfSets DEF FlightInv, NumberInv
    <2>8. (Bytes(Expected))' \in Nat /\ (Bytes(Expected))' <= bytes_in_flight + Bytes(acked)
      <3> DEFINE E == Expected'
      <3>1. E \in SUBSET (flight \cup acked) BY <1>1 DEF Expected
      <3> HIDE DEF E
      <3>2. flight \cup acked \subseteq 1..Len(sent) BY Zenon DEF IInv, PacketInv, NumberInv
      <3>3. Sized(sent, flight \cup acked) BY Zenon, <2>1, <3>2, BytesOfSent
      <3>4. /\ SumFunctionOnSet(sent, E) <= SumFunctionOnSet(sent, flight \cup acked)
            /\ SumFunctionOnSet(sent, E) \in Nat
        BY Zenon, <3>1, <3>3, BytesSplit
      <3>5. flight \in SUBSET (flight \cup acked) /\ (flight \cup acked) \ flight = acked
        BY DEF FlightInv
      <3>6. SumFunctionOnSet(sent, flight \cup acked)
              = SumFunctionOnSet(sent, flight) + SumFunctionOnSet(sent, (flight \cup acked) \ flight)
        BY <3>3, <3>5, BytesSplit
      <3>7. SumFunctionOnSet(sent, flight \cup acked) = Bytes(flight) + Bytes(acked)
        BY Zenon, <3>5, <3>6 DEF Bytes
      <3>8. (Bytes(Expected))' = SumFunctionOnSet(sent, E) BY <1>1 DEF Bytes, E
      <3>9. bytes_in_flight = Bytes(flight) BY DEF FlightInv
      <3> QED BY <3>4, <3>7, <3>8, <3>9
    <2>9. prior <= Larger(prior, congestion_window')
          /\ Larger(prior, congestion_window') \in Nat
      BY <1>2, <2>7 DEF Larger
    <2>10. bytes_in_flight < Larger(prior, congestion_window') + MSS - 1
      BY <1>2, <2>2, <2>7, <2>9
    <2>11. prr'.delivered + (Bytes(Expected))' < prr'.before BY <2>2, <2>4, <2>7, <2>8
    <2>12. bytes_in_flight' + (Bytes(acked))' + prr'.delivered < prr'.before + prr'.sent
      BY <1>1, <2>2, <2>4, <2>6, <2>7
    <2>13. bytes_in_flight' < Larger(prr'.before, recovery_window') + MSS - 1
      BY SMTT(30), <1>1, <2>4, <2>5, <2>10
    <2> QED BY <1>2, <2>5, <2>11, <2>12, <2>13 DEF Conserved
  <1> QED BY <1>3, <1>4 DEF OnPacketLost

\* An ack in recovery is counted; an ack of a later packet ends the recovery.
LEMMA RecoveryOnPacketAcked ==
    ASSUME IInv, NumberInv, FlightInv, RecoveryInv, OnPacketAcked
    PROVE  RecoveryInv'
  <1>1. PacketInv /\ cutback \in Nat BY DEF IInv, CutInv
  <1>2. PICK n \in acked : Handles(n) BY DEF OnPacketAcked, Least, Handles
  <1>3. /\ sent[n] \in Nat /\ n \in Nat /\ 1 <= n
        /\ Bytes(acked) = (Bytes(acked))' + sent[n] /\ (Bytes(acked))' \in Nat
        /\ n <= cutback => /\ Bytes(Expected) = (Bytes(Expected))' + sent[n]
                           /\ (Bytes(Expected))' \in Nat
    BY <1>1, <1>2, FlightOnPacketAcked
  <1>4. UNCHANGED <<bytes_in_flight, slowstart_threshold, recovery_window, cutback,
                    options, was_reset, around_prr>>
    BY DEF OnPacketAcked, flightVars, cutVars, configVars
  <1> SUFFICES ASSUME Recovering' PROVE Conserved' BY DEF RecoveryInv
  <1>5. largest_acked' = Larger(largest_acked, n) /\ largest_acked \in Nat
    BY <1>2 DEF Handles, NumberInv
  <1>6. largest_acked' <= cutback /\ largest_acked <= cutback /\ n <= cutback
        /\ largest_acked' # 0
    BY <1>1, <1>3, <1>4, <1>5 DEF Recovering, Larger
  <1>7. RecoveryAt(largest_acked') BY <1>6 DEF RecoveryAt
  <1>8. Recovering /\ Conserved BY <1>4, <1>6 DEF Recovering, RecoveryInv
  <1>9. UNCHANGED congestion_window BY <1>7 DEF OnPacketAcked
  <1>10. prr' = [prr EXCEPT !.delivered = @ + sent[n], !.acks = @ + 1]
    BY <1>2, <1>7, <1>8 DEF Handles, Recovering
  <1>11. prr'.sent = prr.sent /\ prr'.before = prr.before
         /\ prr'.delivered = prr.delivered + sent[n]
         /\ prr.sent \in Nat /\ prr.before \in Nat /\ prr.delivered \in Nat
    BY <1>10 DEF NumberInv, PrrCounts
  <1>12. bytes_in_flight \in Nat BY Zenon, <1>1, BytesOfSets DEF FlightInv
  <1>13. prr'.delivered + (Bytes(Expected))' < prr'.before
    BY SMTT(30), <1>3, <1>6, <1>8, <1>11 DEF Conserved
  <1>14. ~around_prr => bytes_in_flight' + (Bytes(acked))' + prr'.delivered < prr'.before + prr'.sent
    BY SMTT(30), <1>3, <1>4, <1>8, <1>11, <1>12 DEF Conserved
  <1>15. ~around_prr => bytes_in_flight' < Larger(prr'.before, recovery_window') + MSS - 1
    BY <1>4, <1>8, <1>11 DEF Conserved
  <1>16. slowstart_threshold' <= recovery_window' /\ congestion_window' <= recovery_window'
    BY SMTT(30), <1>4, <1>8, <1>9 DEF Conserved
  <1> QED BY SMTT(30), <1>4, <1>13, <1>14, <1>15, <1>16 DEF Conserved

\* An event begins, and may end slow start with the window as the threshold.
LEMMA RecoveryBeginEvent ==
    ASSUME IInv, NumberInv, NumberInv', FlightInv, FlightInv', IInv', RecoveryInv,
           NEW A, NEW L, NEW updated, pc = "idle",
           A \subseteq flight, L \subseteq flight \ A, lost' \in {{}, L},
           BeginEvent(A, L, updated)
    PROVE  RecoveryInv'
  <1>1. PacketInv /\ PacketInv' BY DEF IInv
  <1>2. /\ (Bytes(Expected))' <= Bytes(Expected)
        /\ bytes_in_flight' + (Bytes(acked))' <= bytes_in_flight + Bytes(acked)
        /\ bytes_in_flight' <= bytes_in_flight
    BY <1>1, FlightBeginEvent
  <1>3. UNCHANGED <<congestion_window, recovery_window, cutback, largest_acked, prr,
                    options, was_reset, around_prr>>
    BY DEF BeginEvent, cutVars, configVars
  <1>4. slowstart_threshold' \in {congestion_window, slowstart_threshold}
    BY DEF BeginEvent, MaybeExitSlowStart
  <1> SUFFICES ASSUME Recovering' PROVE Conserved' BY DEF RecoveryInv
  <1>5. Conserved BY <1>3 DEF Recovering, RecoveryInv
  <1>6. /\ bytes_in_flight \in Nat /\ Bytes(acked) \in Nat /\ Bytes(Expected) \in Nat
    BY Zenon, <1>1, BytesOfSets DEF FlightInv
  <1>7. /\ bytes_in_flight' \in Nat /\ (Bytes(acked))' \in Nat /\ (Bytes(Expected))' \in Nat
    BY Zenon, <1>1, FlightBeginEvent
  <1>8. prr.sent \in Nat /\ prr.before \in Nat /\ prr.delivered \in Nat
        /\ recovery_window \in Nat /\ MSS \in Nat
        /\ Larger(prr.before, recovery_window) \in Nat
    BY SenderConstants DEF NumberInv, PrrCounts, Larger
  <1>9. prr.delivered + (Bytes(Expected))' < prr.before
    BY SMTT(30), <1>2, <1>5, <1>6, <1>7, <1>8 DEF Conserved
  <1>10. ~around_prr => /\ bytes_in_flight' + (Bytes(acked))' + prr.delivered < prr.before + prr.sent
                        /\ bytes_in_flight' < Larger(prr.before, recovery_window) + MSS - 1
    BY <1>2, <1>5, <1>6, <1>7, <1>8 DEF Conserved
  <1> QED BY <1>3, <1>4, <1>5, <1>9, <1>10 DEF Conserved

\* The options of the client, once: the sender is replaced, or its window is set.
LEMMA RecoverySetFromConfig ==
    ASSUME IInv, IInv', NumberInv, NumberInv', PhaseInv, FlightInv, RecoveryInv,
           SetFromConfig
    PROVE  RecoveryInv'
  <1>1. PICK tags \in OptionSets :
          /\ slowstart_threshold' = IF "RENO" \in tags THEN MaxWindow * MSS ELSE slowstart_threshold
          /\ largest_acked' = IF "RENO" \in tags THEN 0 ELSE largest_acked
          /\ cutback' = IF "RENO" \in tags THEN 0 ELSE cutback
          /\ prr' = IF "RENO" \in tags THEN NoPrr ELSE prr
          /\ recovery_window' = Larger(recovery_window, congestion_window')
          /\ was_reset' = (was_reset \/ "RENO" \in tags)
    BY DEF SetFromConfig
  <1>2. CASE "RENO" \in tags BY <1>1, <1>2 DEF RecoveryInv, Recovering
  <1>3. CASE "RENO" \notin tags
    <2>1. UNCHANGED <<sent, flight, bytes_in_flight, acked, around_prr>>
      BY DEF SetFromConfig, flightVars, eventVars
    <2>2. /\ UNCHANGED <<slowstart_threshold, largest_acked, cutback, prr>>
          /\ was_reset => was_reset'
      BY <1>1, <1>3
    <2>3. options = {} BY DEF SetFromConfig, PhaseInv
    <2>4. Recovering' => Recovering BY <2>2, <2>3 DEF Recovering
    <2>5. congestion_window' \in Nat /\ recovery_window \in Nat /\ PacketInv
          /\ slowstart_threshold \in Nat
      BY CeilingIsLarge DEF IInv, WindowInv, NumberInv
    <2>6. recovery_window <= recovery_window' /\ congestion_window' <= recovery_window'
          /\ recovery_window' \in Nat
      BY <1>1, <2>5 DEF Larger
    <2>7. Recovering => slowstart_threshold' <= recovery_window'
      BY <2>2, <2>5, <2>6 DEF RecoveryInv, Conserved
    <2> QED BY SMTT(30), <2>1, <2>2, <2>4, <2>5, <2>6, <2>7, QuietRecovery
  <1> QED BY SMTT(30), <1>2, <1>3

\* The flight is accounted for in every step.
LEMMA FlightStep ==
    ASSUME IInv, NumberInv, FlightInv, [Next]_vars
    PROVE  FlightInv'
  <1>1. PacketInv /\ cutback \in Nat BY DEF IInv, CutInv
  <1>2. CASE SendPacket BY Zenon, <1>1, <1>2, FlightSendPacket
  <1>3. CASE SendAck BY Zenon, <1>1, <1>3, FlightSendAck
  <1>4. CASE OnIncomingAck \/ OnLossTimeout
    <2>1. PICK A, L, updated : /\ pc = "idle"
                              /\ A \subseteq flight /\ L \subseteq flight \ A
                              /\ lost' \in {{}, L}
                              /\ BeginEvent(A, L, updated)
      BY Zenon, <1>4, EventBegins
    <2> QED BY <1>1, <2>1, FlightBeginEvent
  <1>5. CASE OnPacketLost BY Zenon, <1>1, <1>5, FlightOnPacketLost
  <1>6. CASE OnPacketAcked
    <2>1. PICK n \in acked : Handles(n) BY <1>6 DEF OnPacketAcked, Least, Handles
    <2> QED BY SMTT(30), <1>1, <1>6, <2>1, FlightOnPacketAcked
  <1>7. CASE EndEvent
    <2>1. /\ UNCHANGED <<sent, flight, bytes_in_flight, lost, acked>>
          /\ pc' = "idle" /\ lost = {} /\ acked = {}
      BY <1>7 DEF EndEvent, flightVars
    <2> QED BY <2>1 DEF FlightInv, Bytes
  <1>8. CASE UNCHANGED <<sent, flight, bytes_in_flight, lost, acked, pc, prior>>
    BY SMTT(30), <1>8 DEF FlightInv, Bytes
  <1>9. CASE \/ QueryMisses \/ QueryHits \/ SetFromConfig \/ SetNumOpenStreams
             \/ OnConnectionMigration \/ HoldPacket \/ OnRetransmissionTimeout
             \/ UNCHANGED vars
    BY <1>8, <1>9 DEF QueryMisses, QueryHits, SetFromConfig, SetNumOpenStreams,
       OnConnectionMigration, HoldPacket, OnRetransmissionTimeout, vars, flightVars,
       eventVars
  <1> QED BY SMTT(30), <1>2, <1>3, <1>4, <1>5, <1>6, <1>7, <1>9 DEF Next

\* Recovery conserves bytes in every step.
LEMMA RecoveryStep ==
    ASSUME IInv, IInv', NumberInv, NumberInv', PhaseInv, FlightInv, FlightInv',
           RecoveryInv, [Next]_vars
    PROVE  RecoveryInv'
  <1>1. PacketInv /\ cutback \in Nat /\ recovery_window \in Nat
    BY DEF IInv, CutInv, NumberInv
  <1>2. CASE SendPacket BY Zenon, <1>2, RecoverySendPacket
  <1>3. CASE SendAck
    <2>1. UNCHANGED <<Bytes(acked), Bytes(Expected)>> BY Zenon, <1>1, <1>3, FlightSendAck
    <2>2. UNCHANGED <<congestion_window, slowstart_threshold, recovery_window, cutback,
                      bytes_in_flight, largest_acked, prr, options, was_reset, around_prr>>
      BY <1>3 DEF SendAck, windowVars, cutVars, configVars
    <2> QED BY <2>1, <2>2 DEF RecoveryInv, Recovering, Conserved
  <1>4. CASE OnIncomingAck \/ OnLossTimeout
    <2>1. PICK A, L, updated : /\ pc = "idle"
                              /\ A \subseteq flight /\ L \subseteq flight \ A
                              /\ lost' \in {{}, L}
                              /\ BeginEvent(A, L, updated)
      BY Zenon, <1>4, EventBegins
    <2> QED BY <2>1, RecoveryBeginEvent
  <1>5. CASE OnPacketLost BY Zenon, <1>5, RecoveryOnPacketLost
  <1>6. CASE OnPacketAcked BY Zenon, <1>6, RecoveryOnPacketAcked
  <1>7. CASE SetFromConfig BY Zenon, <1>7, RecoverySetFromConfig
  <1>8. CASE UNCHANGED <<congestion_window, slowstart_threshold, recovery_window, cutback,
                         sent, flight, bytes_in_flight, acked, largest_acked, prr,
                         options, was_reset, around_prr>>
    <2>1. UNCHANGED <<Bytes(acked), Bytes(Expected)>> BY Zenon, <1>8 DEF Bytes, Expected
    <2> QED BY <1>8, <2>1 DEF RecoveryInv, Recovering, Conserved
  <1>9. CASE EndEvent
    <2>1. CASE cutback' = 0 BY SMTT(30), <2>1 DEF RecoveryInv, Recovering
    <2>2. CASE UNCHANGED <<cutback, windowVars>>
      BY SMTT(30), <1>8, <1>9, <2>2 DEF EndEvent, windowVars, flightVars, configVars
    <2> QED BY <1>9, <2>1, <2>2 DEF EndEvent
  <1>10. CASE QueryHits
    BY <1>10 DEF QueryHits, PhaseInv, RecoveryInv, Recovering, cutVars
  <1>11. CASE OnConnectionMigration
    BY SMTT(30), <1>11 DEF OnConnectionMigration, RecoveryInv, Recovering
  <1>12. CASE \/ QueryMisses \/ SetNumOpenStreams \/ HoldPacket
              \/ OnRetransmissionTimeout \/ UNCHANGED vars
    BY <1>8, <1>12 DEF QueryMisses, SetNumOpenStreams, HoldPacket,
       OnRetransmissionTimeout, vars, windowVars, cutVars, configVars, flightVars,
       eventVars
  <1> QED
    BY SMTT(30), <1>2, <1>3, <1>4, <1>5, <1>6, <1>7, <1>9, <1>10, <1>11, <1>12 DEF Next

-----------------------------------------------------------------------------
(* The theorems.                                                             *)

\* The inductive invariant holds of every reachable state.
THEOREM SenderInvariant == Spec => []IInv
  <1>1. Init => IInv
    <2>1. Init => PacketInv /\ CutInv
      BY DEF Init, NewSender, PacketInv, CutInv
    <2> QED BY <2>1, WindowInit DEF IInv
  <1>2. IInv /\ [Next]_vars => IInv' BY WindowStep, CutStep DEF IInv
  <1> QED BY <1>1, <1>2, PTL DEF Spec

\* The window never wraps and never leaves its range: the subtractions of
\* OnPacketLost (tcp_cubic_sender_bytes.cc) stay above zero for every option,
\* every seed of CreateQuicSession and every sequence of acks and losses.
THEOREM WindowIsSound == Spec => []WindowSound
  <1>1. IInv => WindowSound BY DEF IInv, WindowInv, WindowSound, Ceiling
  <1> QED BY <1>1, SenderInvariant, PTL

\* A sender with nothing in flight may send.
THEOREM IdleSenderSends == Spec => []SendsWhenIdle
  <1>1. IInv => SendsWhenIdle
    BY CeilingIsLarge DEF IInv, WindowInv, SendsWhenIdle, CanSend, PrrCanSend
  <1> QED BY <1>1, SenderInvariant, PTL

\* One flight of packets cuts the window once, unless the sender was reset.
THEOREM OneCut == Spec => []OneCutPerFlight
  <1>1. IInv => OneCutPerFlight BY DEF IInv, CutInv, OneCutPerFlight, IgnoresLoss
  <1> QED BY <1>1, SenderInvariant, PTL

\* The flight is accounted for, and recovery conserves bytes, in every reachable
\* state.
THEOREM RecoveryInvariant == Spec => []RInv
  <1>1. Init => RInv
    <2> SUFFICES ASSUME Init PROVE RInv OBVIOUS
    <2>1. Bytes({}) = 0 BY SMTT(30), SumEmpty DEF Bytes
    <2>2. NumberInv BY DEF Init, NewSender, NumberInv, NoPrr, PrrCounts
    <2>3. PhaseInv BY DEF Init, NewSender, PhaseInv
    <2>4. FlightInv BY <2>1 DEF Init, FlightInv
    <2>5. RecoveryInv BY DEF Init, NewSender, RecoveryInv, Recovering
    <2> QED BY <2>2, <2>3, <2>4, <2>5 DEF RInv
  <1>2. IInv /\ IInv' /\ RInv /\ [Next]_vars => RInv'
    <2> SUFFICES ASSUME IInv, IInv', RInv, [Next]_vars PROVE RInv' OBVIOUS
    <2>1. NumberInv /\ PhaseInv /\ FlightInv /\ RecoveryInv BY DEF RInv
    <2>2. PacketInv BY DEF IInv
    <2>3. NumberInv' BY Zenon, <2>1, NumberStep
    <2>4. PhaseInv' BY Zenon, <2>1, <2>2, PhaseStep
    <2>5. FlightInv' BY Zenon, <2>1, FlightStep
    <2>6. RecoveryInv' BY Zenon, <2>1, <2>3, <2>5, RecoveryStep
    <2> QED BY Zenon, <2>3, <2>4, <2>5, <2>6 DEF RInv
  <1> QED BY <1>1, <1>2, SenderInvariant, PTL DEF Spec

\* In recovery PrrSender (prr_sender.cc) lets no more into flight than there
\* was when the loss was found, or than the largest window since, but for part
\* of the last packet, as long as every packet passed its check.
THEOREM RecoveryIsBounded == Spec => []RecoveryBounded
  <1>1. RInv => RecoveryBounded
    BY DEF RInv, RecoveryInv, NumberInv, Recovering, Conserved, RecoveryBounded, InRecovery,
       RecoveryAt
  <1> QED BY <1>1, RecoveryInvariant, PTL

=============================================================================
