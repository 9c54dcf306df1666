---------------------------- MODULE QuicSession ----------------------------
(***************************************************************************)
(* The stream bookkeeping of one endpoint: QuicSession with the client and *)
(* server sessions derived from it, and the part of QuicStream that opens, *)
(* half-closes and closes streams.  A session is a record and every method *)
(* an operator from sessions to sessions.                                  *)
(*                                                                         *)
(* A message on a stream is HEADERS, sent in order on the headers stream,  *)
(* then chunks of body in STREAM frames; the last frame carries the FIN.   *)
(***************************************************************************)
EXTENDS Integers, FiniteSets, Sequences

CONSTANTS
    Ids,                   \* the data stream ids: FirstId, FirstId + 2, ...
    FirstId,               \* first id of a client, after the headers stream
    MaxIncoming,           \* max_open_incoming_streams_
    MaxOutgoing,           \* max_open_outgoing_streams_
    AvailableMultiplier,   \* kMaxAvailableStreamsMultiplier
    RequestChunks,         \* body chunks of a request
    ResponseChunks,        \* body chunks of a response
    Unknown                \* no close offset yet

ASSUME IdsAssumption ==
    /\ FirstId \in Nat /\ FirstId > 3 /\ FirstId % 2 = 1
    /\ Ids \subseteq {i \in Nat : i >= FirstId /\ i % 2 = 1}
    /\ IsFiniteSet(Ids)
ASSUME LimitsAssumption ==
    {MaxIncoming, MaxOutgoing, AvailableMultiplier, RequestChunks,
     ResponseChunks} \subseteq Nat
ASSUME UnknownAssumption == Unknown \notin Nat

Streams ==
    [headers : BOOLEAN,      \* headers consumed: the sequencer is unblocked
     got : SUBSET Nat,       \* chunks received
     close : Nat \cup {Unknown},
     written : Nat,          \* chunks sent
     finBuffered : BOOLEAN,
     finSent : BOOLEAN, finReceived : BOOLEAN,
     rstSent : BOOLEAN, rstReceived : BOOLEAN,
     readClosed : BOOLEAN, writeClosed : BOOLEAN]

NewStream ==
    [headers |-> FALSE, got |-> {}, close |-> Unknown, written |-> 0,
     finBuffered |-> FALSE, finSent |-> FALSE, finReceived |-> FALSE,
     rstSent |-> FALSE, rstReceived |-> FALSE, readClosed |-> FALSE,
     writeClosed |-> FALSE]

HeadersFrame(id, fin) == [id |-> id, fin |-> fin]
StreamFrame(id, pos, fin) ==
    [type |-> "STREAM", id |-> id, pos |-> pos, fin |-> fin]
Rst(id, code) == [type |-> code, id |-> id, pos |-> 0, fin |-> TRUE]
RstCodes == {"REFUSED", "CANCELLED", "ACKNOWLEDGEMENT"}

Sessions ==
    [server : BOOLEAN,
     dynamic : SUBSET Ids,          \* dynamic_stream_map_
     draining : SUBSET Ids,         \* draining_streams_
     locallyClosed : SUBSET Ids,    \* locally_closed_streams_highest_offset_
     available : SUBSET Ids,        \* available_streams_
     largestPeer : Nat,             \* largest_peer_created_stream_id_
     nextOutgoing : Nat,            \* next_outgoing_stream_id_
     numDynamicIn : Nat,            \* num_dynamic_incoming_streams_
     numDrainingIn : Nat,           \* num_draining_incoming_streams_
     numLocallyClosedIn : Nat,      \* num_locally_closed_incoming_streams_...
     stream : [Ids -> Streams],     \* the stream, kept after it is closed
     connected : BOOLEAN,
     headersOut : Seq([id : Ids, fin : BOOLEAN]),  \* the headers stream
     frames : SUBSET [type : {"STREAM"} \cup RstCodes, id : Ids, pos : Nat,
                      fin : BOOLEAN],              \* other frames sent
     log : [Ids -> Nat]]            \* lines of log.txt for each stream

\* The constructors and QuicSpdySession::Initialize, which takes id 3 for
\* the headers stream at both ends.
NewSession(server) ==
    [server |-> server, dynamic |-> {}, draining |-> {}, locallyClosed |-> {},
     available |-> {}, largestPeer |-> IF server THEN FirstId - 2 ELSE 0,
     nextOutgoing |-> IF server THEN 2 ELSE FirstId,
     numDynamicIn |-> 0, numDrainingIn |-> 0, numLocallyClosedIn |-> 0,
     stream |-> [i \in Ids |-> NewStream], connected |-> TRUE,
     headersOut |-> <<>>, frames |-> {}, log |-> [i \in Ids |-> 0]]

IsIncomingStream(x, id) == id % 2 # x.nextOutgoing % 2

Incoming(x, S) == {i \in S : IsIncomingStream(x, i)}

IsClosedStream(x, id) ==
    /\ id \notin x.dynamic
    /\ IF IsIncomingStream(x, id)
       THEN id <= x.largestPeer /\ id \notin x.available
       ELSE id < x.nextOutgoing

GetNumOpenIncomingStreams(x) ==
    x.numDynamicIn - x.numDrainingIn + x.numLocallyClosedIn

GetNumOpenOutgoingStreams(x) ==
    (Cardinality(x.dynamic) - x.numDynamicIn)
        + (Cardinality(x.locallyClosed) - x.numLocallyClosedIn)
        - (Cardinality(x.draining) - x.numDrainingIn)

\* Mutant: the final offset that was sent is taken for the one received.
HasFinalByteOffset(st) == st.finReceived \/ st.rstReceived \/ st.finSent

HasFinalReceivedByteOffset(st) == st.finReceived \/ st.rstReceived

-----------------------------------------------------------------------------
\* CloseStreamInner with QuicStream::OnClose, for each stream of S: one in
\* CloseStream and SendRstStream, all of them in OnConnectionClosed.  The
\* calls that OnClose makes back find the stream gone and do nothing.
CloseStreams(x, S, locallyReset) ==
    LET closed == S \cap x.dynamic
        unknown == {i \in closed : ~HasFinalReceivedByteOffset(x.stream[i])}
        reset == {i \in closed : ~x.stream[i].finSent
                                  /\ ~x.stream[i].rstSent /\ ~locallyReset}
    IN [x EXCEPT
         !.dynamic = @ \ closed,
         !.draining = @ \ closed,
         !.locallyClosed = @ \cup unknown,
         !.numDynamicIn = @ - Cardinality(Incoming(x, closed)),
         !.numDrainingIn = @ - Cardinality(Incoming(x, closed \cap x.draining)),
         !.numLocallyClosedIn = @ + Cardinality(Incoming(x, unknown)),
         !.stream = [i \in Ids |-> IF i \in closed
                      THEN [x.stream[i] EXCEPT !.readClosed = TRUE,
                              !.writeClosed = TRUE,
                              !.rstSent = @ \/ locallyReset \/ i \in reset]
                      ELSE x.stream[i]],
         !.frames = IF x.connected
                    THEN @ \cup {Rst(i, "ACKNOWLEDGEMENT") : i \in reset} ELSE @,
         !.log = [i \in Ids |-> IF x.server /\ i \in closed THEN x.log[i] + 1
                                ELSE x.log[i]]]

\* Mutant: the RST_STREAM frame is not sent.
SendRstStreamSilent(x, id, code) == CloseStreams(x, {id}, TRUE)

\* Mutant: SendRstStream does not say that the stream was reset, so OnClose
\* sends, and closes, a second time; the log is written twice.
SendRstStreamReentered(x, id, code) ==
    LET y == CloseStreams([x EXCEPT !.frames = @ \cup {Rst(id, code)}], {id}, FALSE)
    IN [y EXCEPT !.log[id] = IF x.server THEN @ + 1 ELSE @]

SendRstStream(x, id, code) ==
    CloseStreams([x EXCEPT !.frames = IF x.connected THEN @ \cup {Rst(id, code)}
                                      ELSE @],
                 {id}, TRUE)

CloseReadSide(x, id) ==
    LET y == [x EXCEPT !.stream[id].readClosed = TRUE]
    IN IF x.stream[id].readClosed THEN x
       ELSE IF x.stream[id].writeClosed THEN CloseStreams(y, {id}, FALSE) ELSE y

CloseWriteSide(x, id) ==
    LET y == [x EXCEPT !.stream[id].writeClosed = TRUE]
    IN IF x.stream[id].writeClosed THEN x
       ELSE IF x.stream[id].readClosed THEN CloseStreams(y, {id}, FALSE) ELSE y

StreamDraining(x, id) ==
    [x EXCEPT !.draining = @ \cup {id},
              !.numDrainingIn = @ + Cardinality(Incoming(x, {id} \ x.draining))]

\* CloseConnection of the connection, with the OnConnectionClosed it makes.
CloseConnection(x) ==
    CloseStreams([x EXCEPT !.connected = FALSE], x.dynamic, FALSE)

\* Mutant: a final offset that comes again is counted again.
OnFinalByteOffsetReceivedAgain(x, id) ==
    [x EXCEPT !.locallyClosed = @ \ {id},
              !.numLocallyClosedIn = @ - Cardinality(Incoming(x, {id}))]

OnFinalByteOffsetReceived(x, id) ==
    [x EXCEPT !.locallyClosed = @ \ {id},
              !.numLocallyClosedIn =
                    @ - Cardinality(Incoming(x, {id} \cap x.locallyClosed))]

-----------------------------------------------------------------------------
\* Opening streams.

ActivateStream(x, id) ==
    [x EXCEPT !.dynamic = @ \cup {id},
              !.numDynamicIn = @ + Cardinality(Incoming(x, {id}))]

\* The ids between the largest id seen and a new one become available.
NewlyAvailable(x, id) == {i \in Ids : x.largestPeer < i /\ i < id}

\* Mutant: both parities are counted between the two ids.
TooManyAvailableBothParities(x, id) ==
    /\ id > x.largestPeer
    /\ Cardinality(x.available) + ((id - x.largestPeer) - 1)
            > MaxIncoming * AvailableMultiplier

TooManyAvailable(x, id) ==
    /\ id > x.largestPeer
    /\ Cardinality(x.available) + ((id - x.largestPeer) \div 2 - 1)
            > MaxIncoming * AvailableMultiplier

\* Mutant: the id is taken as the largest though a larger one was seen.
MaybeIncreaseLargestPeerStreamIdAlways(x, id) ==
    [x EXCEPT !.available = @ \cup NewlyAvailable(x, id), !.largestPeer = id]

MaybeIncreaseLargestPeerStreamId(x, id) ==
    IF id <= x.largestPeer THEN x
    ELSE [x EXCEPT !.available = @ \cup NewlyAvailable(x, id),
                   !.largestPeer = id]

\* The stream exists in the result if the code returns one.
GetOrCreateDynamicStream(x, id) ==
    LET w == [x EXCEPT !.available = @ \ {id}]
        y == MaybeIncreaseLargestPeerStreamId(w, id)
    IN IF id \in x.dynamic \/ IsClosedStream(x, id) THEN x
       ELSE IF ~IsIncomingStream(x, id) THEN CloseConnection(x)
       ELSE IF TooManyAvailable(w, id) THEN CloseConnection(w)
       ELSE IF GetNumOpenIncomingStreams(y) >= MaxIncoming
            THEN SendRstStream(y, id, "REFUSED")
       ELSE ActivateStream(y, id)

-----------------------------------------------------------------------------
\* Writing.  chunks is the length of the message this endpoint sends.

Chunks(x) == IF x.server THEN ResponseChunks ELSE RequestChunks

\* WritevData of the queued chunks, of which the connection takes n.
WritevData(x, id, n) ==
    LET st == x.stream[id]
        end == st.written + n
        fin == end = Chunks(x)
        y == [x EXCEPT !.stream[id].written = end,
                       !.stream[id].finSent = fin,
                       !.frames = @ \cup {StreamFrame(id, p, p + 1 = Chunks(x)) :
                                             p \in st.written..(end - 1)}]
        z == IF st.finReceived THEN StreamDraining(y, id) ELSE y
    IN IF fin THEN CloseWriteSide(z, id) ELSE y

\* WriteHeaders and, when there is a body, WriteOrBufferData: SendRequest of
\* the client stream and SendHeadersAndBody of the server stream.
SendMessage(x, id, n) ==
    LET fin == Chunks(x) = 0
        y == [x EXCEPT !.headersOut = Append(@, HeadersFrame(id, fin))]
    IN IF fin THEN CloseWriteSide([y EXCEPT !.stream[id].finSent = TRUE], id)
       ELSE WritevData([y EXCEPT !.stream[id].finBuffered = TRUE], id, n)

ShouldCreateOutgoingDynamicStream(x) ==
    x.connected /\ GetNumOpenOutgoingStreams(x) < MaxOutgoing

\* QuicSpdyClientBase::SendRequest.
SendRequest(x, n) ==
    SendMessage(ActivateStream([x EXCEPT !.nextOutgoing = @ + 2], x.nextOutgoing),
                x.nextOutgoing, n)

-----------------------------------------------------------------------------
\* Reading.  n is what the connection takes of a response written at once.

\* Everything up to the FIN is there.
Complete(st) == st.headers /\ st.close # Unknown /\ 0..(st.close - 1) \subseteq st.got

\* OnDataAvailable of the two kinds of stream, when all of the message can be
\* read; before, it only moves bytes.
OnDataAvailable(x, id, n) ==
    LET y == CloseReadSide([x EXCEPT !.stream[id].finReceived = TRUE], id)
    IN IF ~Complete(x.stream[id]) \/ x.stream[id].readClosed THEN x
       ELSE IF x.server /\ ~y.stream[id].writeClosed /\ ~y.stream[id].finBuffered
            THEN SendMessage(y, id, n)
       ELSE y

StreamFinReceived(x, id) ==
    LET y == [x EXCEPT !.stream[id].finReceived = TRUE]
    IN IF x.stream[id].finSent THEN StreamDraining(y, id) ELSE y

\* QuicSession::OnStreamFrame and QuicStream::OnStreamFrame.
OnStreamFrame(x, f, n) ==
    LET y == GetOrCreateDynamicStream(x, f.id)
        z == IF f.fin THEN StreamFinReceived(y, f.id) ELSE y
        read == [z EXCEPT !.stream[f.id].got = @ \cup {f.pos},
                          !.stream[f.id].close = IF f.fin THEN f.pos + 1 ELSE @]
    IN IF f.id \notin y.dynamic
       THEN IF f.fin THEN OnFinalByteOffsetReceived(y, f.id) ELSE y
       ELSE IF z.stream[f.id].readClosed THEN z
       ELSE OnDataAvailable(read, f.id, n)

\* OnStreamHeaderList, OnInitialHeadersComplete and ConsumeHeaderList.
OnStreamHeaderList(x, f, n) ==
    LET y == GetOrCreateDynamicStream(x, f.id)
        z == IF f.fin THEN StreamFinReceived(y, f.id) ELSE y
        read == [z EXCEPT !.stream[f.id].headers = TRUE,
                          !.stream[f.id].close =
                              IF f.fin /\ ~z.stream[f.id].readClosed THEN 0 ELSE @]
    IN IF f.id \notin y.dynamic THEN y ELSE OnDataAvailable(read, f.id, n)

\* OnRstStream, HandleRstOnValidNonexistentStream and OnStreamReset.
OnRstStream(x, id) ==
    LET y == GetOrCreateDynamicStream(x, id)
        z == [y EXCEPT !.stream[id].rstReceived = TRUE]
    IN IF id \in y.dynamic THEN CloseReadSide(CloseWriteSide(z, id), id)
       ELSE IF IsClosedStream(y, id) THEN OnFinalByteOffsetReceived(y, id)
       ELSE y

-----------------------------------------------------------------------------
\* The three counters of a session equal what they count, and draining and
\* locally closed streams are open and closed ones respectively.
SessionConsistent(x) ==
    /\ x.draining \subseteq x.dynamic
    /\ x.locallyClosed \cap x.dynamic = {}
    /\ x.available \cap (x.dynamic \cup x.locallyClosed) = {}
    /\ x.numDynamicIn = Cardinality(Incoming(x, x.dynamic))
    /\ x.numDrainingIn = Cardinality(Incoming(x, x.draining))
    /\ x.numLocallyClosedIn = Cardinality(Incoming(x, x.locallyClosed))

\* The streams that GetNumOpenIncomingStreams and GetNumOpenOutgoingStreams
\* count.
CountedOpen(x) == (x.dynamic \ x.draining) \cup x.locallyClosed
=============================================================================
