------------------------ MODULE QuicUnackedPacketMap ------------------------
(***************************************************************************)
(* QuicUnackedPacketMap of model/net/quic/core/quic_unacked_packet_map.cc  *)
(* as operators on its deque: a function from the packet numbers           *)
(* least_unacked_ .. largest_sent_packet_ to transmission infos.           *)
(*                                                                         *)
(* A retransmission takes the frames of the packet it replaces, and the    *)
(* replaced packet points to it.  A frame is a chunk: a piece of stream or *)
(* handshake data, or a control frame, that the peer has to receive.       *)
(***************************************************************************)
EXTENDS Integers, FiniteSetsExt, TLC

CONSTANT Chunks

\* QuicTransmissionInfo.  retransmission is 0 while there is none.
Infos == [frames : SUBSET Chunks, has_crypto_handshake : BOOLEAN,
          in_flight : BOOLEAN, is_unackable : BOOLEAN,
          retransmission : Nat, bytes_sent : Nat]

NewInfo(bytes) ==
    [frames |-> {}, has_crypto_handshake |-> FALSE, in_flight |-> FALSE,
     is_unackable |-> FALSE, retransmission |-> 0, bytes_sent |-> bytes]

\* A packet number that was used up without a packet being sent.
SkippedInfo == [NewInfo(0) EXCEPT !.is_unackable = TRUE]

IsPacketUsefulForMeasuringRtt(u, n, observed) == ~u[n].is_unackable /\ n > observed

IsPacketUsefulForCongestionControl(u, n) == u[n].in_flight

IsPacketUsefulForRetransmittableData(u, n, observed) ==
    u[n].frames # {} \/ u[n].retransmission > observed

IsPacketUseless(u, n, observed) ==
    /\ ~IsPacketUsefulForMeasuringRtt(u, n, observed)
    /\ ~IsPacketUsefulForCongestionControl(u, n)
    /\ ~IsPacketUsefulForRetransmittableData(u, n, observed)

IsUnacked(u, n, observed) == n \in DOMAIN u /\ ~IsPacketUseless(u, n, observed)

HasUnackedRetransmittableFrames(u) ==
    \E n \in DOMAIN u : u[n].in_flight /\ u[n].frames # {}

\* The numbers that RemoveObsoletePackets leaves: all from the first useful one.
Useful(u, observed) == {n \in DOMAIN u : ~IsPacketUseless(u, n, observed)}

RemoveObsoletePackets(u, observed) ==
    LET useful == Useful(u, observed)
    IN [n \in {k \in DOMAIN u : \E m \in useful : m <= k} |-> u[n]]

BytesOf(u, S) == MapThenSumSet(LAMBDA n : u[n].bytes_sent, S)

InFlight(u) == {n \in DOMAIN u : u[n].in_flight}

RemoveFromInFlight(u, S) ==
    [n \in DOMAIN u |-> [u[n] EXCEPT !.in_flight = @ /\ n \notin S]]
-----------------------------------------------------------------------------
(***************************************************************************)
(* The retransmissions of a packet, itself included: what is reached from  *)
(* it along the retransmission field, the least set closed under it.       *)
(***************************************************************************)
Closed(u, S) ==
    \A n \in S : u[n].retransmission # 0 => u[n].retransmission \in S

Chain(u, n) ==
    IF u[n].retransmission = 0 THEN {n}
    ELSE {m \in DOMAIN u : \A S \in SUBSET DOMAIN u : n \in S /\ Closed(u, S) => m \in S}

\* GetNewestRetransmission, for each packet of S: the ends of their chains.
NewestRetransmissions(u, S) ==
    {m \in UNION {Chain(u, n) : n \in S} : u[m].retransmission = 0}

RemoveRetransmittability(u, S) ==
    LET chains == UNION {Chain(u, n) : n \in S}
        ends   == NewestRetransmissions(u, S)
    IN [n \in DOMAIN u |->
          [u[n] EXCEPT !.retransmission = IF n \in chains THEN 0 ELSE @,
                       !.frames = IF n \in ends THEN {} ELSE @,
                       !.has_crypto_handshake = @ /\ n \notin ends]]

\* TransferRetransmissionInfo: what is left of old once new has its frames.
Transfer(u, old, new, linked) ==
    [u EXCEPT ![old].frames = {}, ![old].has_crypto_handshake = FALSE,
              ![old].retransmission = IF linked THEN new ELSE @,
              ![old].is_unackable = @ \/ ~linked]

\* CancelRetransmissionsForStream, the chunks of which are S.
CancelFrames(u, S) ==
    RemoveRetransmittability(
        [n \in DOMAIN u |-> [u[n] EXCEPT !.frames = @ \ S]],
        {n \in DOMAIN u : u[n].frames # {} /\ u[n].frames \subseteq S})
=============================================================================
