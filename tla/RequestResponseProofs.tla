----------------------- MODULE RequestResponseProofs ------------------------
(***************************************************************************)
(* Proofs about RequestResponse for every set of stream ids, every limit   *)
(* on open streams and every length of message.  Each call on a session    *)
(* keeps SessionGood, by QuicSessionProofs; the two sessions meet only in  *)
(* the ids that one has named and in the streams whose end one has         *)
(* announced to the other.                                                 *)
(***************************************************************************)
EXTENDS RequestResponse, QuicSessionProofs

-----------------------------------------------------------------------------
\* The two sessions together.

\* The ids that the client has opened.
Known(x) == {i \in Ids : i < x.nextOutgoing}

\* The inductive invariant of a client c and a server s that have read so
\* much of each other's headers stream.
Together(c, s, cRead, sRead) ==
    /\ ~c.server /\ SessionGood(c, {}, Ended(s)) /\ Tidy(c)
    /\ s.server /\ SessionGood(s, Known(c), Ended(c)) /\ Tidy(s)
    /\ cRead \in 0..Len(s.headersOut)
    /\ sRead \in 0..Len(c.headersOut)

RInv == Together(client, server, clientRead, serverRead)

\* A session loses nothing when its peer names or ends more streams.
LEMMA PeerMoves ==
  ASSUME NEW x, NEW known, NEW ended, NEW k \in SUBSET Ids, NEW e \in SUBSET Ids,
         SessionGood(x, known, ended), known \subseteq k, ended \subseteq e
  PROVE  SessionGood(x, k, e)
<1>1. ASSUME NEW i \in Ids PROVE StreamGood(x, i, e)
  <2>1. StreamGood(x, i, ended)
    BY Zenon DEF SessionGood
  <2> QED BY Zenon, <2>1 DEF StreamGood
<1>2. \A i \in Ids : x.server /\ Seen(x, i) => i \in k
  BY Zenon DEF SessionGood
<1> QED BY Zenon, <1>1, <1>2 DEF SessionGood

\* The lengths of the headers streams are numbers.
LEMMA HeadersLength ==
  ASSUME NEW x \in Sessions
  PROVE  Len(x.headersOut) \in Nat /\ x.nextOutgoing \in Nat
BY Fields

\* The client makes a call, and reads headers up to m.
LEMMA ClientMoves ==
  ASSUME NEW c, NEW s, NEW cRead, NEW sRead, Together(c, s, cRead, sRead),
         NEW d, SessionGood(d, {}, Ended(s)), Goes(c, d), Tidy(d), NEW m \in 0..Len(s.headersOut)
  PROVE  Together(d, s, m, sRead)
<1>1. /\ SessionGood(s, Known(c), Ended(c)) /\ c \in Sessions /\ d \in Sessions
      /\ ~d.server
  BY Zenon DEF Together, SessionGood, Goes
<1>2. Known(c) \subseteq Known(d) /\ sRead \in 0..Len(d.headersOut)
  <2>1. /\ c.nextOutgoing \in Nat /\ d.nextOutgoing \in Nat
        /\ Len(c.headersOut) \in Nat /\ Len(d.headersOut) \in Nat
    BY <1>1, HeadersLength
  <2>2. /\ c.nextOutgoing <= d.nextOutgoing /\ Len(c.headersOut) <= Len(d.headersOut)
        /\ sRead \in 0..Len(c.headersOut)
    BY Zenon DEF Goes, Together
  <2>3. \A i \in Ids : i \in Nat
    BY IdsAssumption
  <2> QED BY <2>1, <2>2, <2>3 DEF Known
<1>3. Ended(c) \subseteq Ended(d)
  BY Zenon DEF Goes
<1>4. Known(d) \in SUBSET Ids /\ Ended(d) \in SUBSET Ids
  BY Zenon DEF Known, Ended
<1>5. SessionGood(s, Known(d), Ended(d))
  BY Zenon, <1>1, <1>2, <1>3, <1>4, PeerMoves
<1> QED BY Zenon, <1>1, <1>2, <1>5 DEF Together

\* The server makes a call, and reads headers up to m.
LEMMA ServerMoves ==
  ASSUME NEW c, NEW s, NEW cRead, NEW sRead, Together(c, s, cRead, sRead),
         NEW t, Served(s, t, Known(c), Ended(c)), NEW m \in 0..Len(c.headersOut)
  PROVE  Together(c, t, cRead, m) /\ Follows(s, t)
<1>1. /\ SessionGood(c, {}, Ended(s)) /\ s \in Sessions /\ t \in Sessions
      /\ Follows(s, t) /\ SessionGood(t, Known(c), Ended(c)) /\ Tidy(t) /\ t.server
  BY Zenon DEF Together, Served, SessionGood, Follows, Goes
<1>2. cRead \in 0..Len(t.headersOut)
  <2>1. Len(s.headersOut) \in Nat /\ Len(t.headersOut) \in Nat
    BY <1>1, HeadersLength
  <2>2. Len(s.headersOut) <= Len(t.headersOut) /\ cRead \in 0..Len(s.headersOut)
    BY Zenon, <1>1 DEF Follows, Goes, Together
  <2> QED BY <2>1, <2>2
<1>3. Ended(s) \subseteq Ended(t)
  BY Zenon, <1>1 DEF Follows, Goes
<1>4. Ended(t) \in SUBSET Ids
  BY Zenon DEF Ended
<1>5. SessionGood(c, {}, Ended(t))
  <2> DEFINE none == {}
  <2>1. none \in SUBSET Ids /\ none \subseteq none /\ SessionGood(c, none, Ended(s))
    BY Zenon, <1>1
  <2> HIDE DEF none
  <2>2. SessionGood(c, none, Ended(t))
    BY Zenon, <1>3, <1>4, <2>1, PeerMoves
  <2> QED BY Zenon, <2>2 DEF none
<1> QED BY Zenon, <1>1, <1>2, <1>5 DEF Together

\* What the frames of a session say about it.
LEMMA FrameSays ==
  ASSUME NEW x, NEW known, NEW ended, SessionGood(x, known, ended), NEW f \in x.frames
  PROVE  /\ f \in Frames /\ f.id \in Ids /\ Seen(x, f.id)
         /\ f.type = "STREAM" /\ f.fin => f.id \in Ended(x)
         /\ f.type \in RstCodes => f.id \in Ended(x)
<1>1. x \in Sessions /\ FramesGood(x)
  BY Zenon DEF SessionGood
<1>2. f \in Frames
  BY Zenon, <1>1, Fields
<1>3. f.id \in Ids
  BY <1>2 DEF Frames
<1> QED BY Zenon, <1>1, <1>2, <1>3 DEF FramesGood, Ended, RstFramed

\* What the headers that a session has sent say about it.
LEMMA HeadersSay ==
  ASSUME NEW x, NEW known, NEW ended, SessionGood(x, known, ended),
         NEW k \in 1..Len(x.headersOut), NEW f, f = x.headersOut[k]
  PROVE  /\ f.id \in Ids /\ f.fin \in BOOLEAN /\ Seen(x, f.id)
         /\ f.fin => f.id \in Ended(x)
<1>1. x \in Sessions /\ FramesGood(x)
  BY Zenon DEF SessionGood
<1>2. x.headersOut \in Seq([id : Ids, fin : BOOLEAN])
  BY Zenon, <1>1, Fields
<1>3. f \in [id : Ids, fin : BOOLEAN]
  BY Zenon, <1>2, ElementIn
<1>4. f.id \in Ids /\ f.fin \in BOOLEAN
  BY <1>3
<1> QED BY Zenon, <1>1, <1>4 DEF FramesGood, Ended

\* The client has opened every stream that either end has seen.
LEMMA SeenIsKnown ==
  ASSUME NEW c, NEW s, NEW cRead, NEW sRead, Together(c, s, cRead, sRead), NEW i \in Ids
  PROVE  (Seen(c, i) => i \in Known(c)) /\ (Seen(s, i) => i \in Known(c))
BY Zenon DEF Together, SessionGood, Seen, Known

\* The two new sessions.
LEMMA NewSessionGood ==
  ASSUME NEW b \in BOOLEAN, NEW known, NEW ended, NEW x, x = NewSession(b)
  PROVE  SessionGood(x, known, ended) /\ Tidy(x) /\ x.server = b /\ x.headersOut = <<>>
<1>1. /\ x.server = b /\ x.dynamic = {} /\ x.draining = {} /\ x.locallyClosed = {}
      /\ x.available = {} /\ x.largestPeer = (IF b THEN FirstId - 2 ELSE 0)
      /\ x.nextOutgoing = (IF b THEN 2 ELSE FirstId)
      /\ x.numDynamicIn = 0 /\ x.numDrainingIn = 0 /\ x.numLocallyClosedIn = 0
      /\ x.stream = [i \in Ids |-> NewStream] /\ x.connected = TRUE
      /\ x.headersOut = <<>> /\ x.frames = {} /\ x.log = [i \in Ids |-> 0]
  BY Zenon DEF NewSession
<1>2. NewStream \in Streams
  BY DEF NewStream, Streams
<1>3. x \in Sessions
  <2>1. /\ (IF b THEN FirstId - 2 ELSE 0) \in Nat /\ (IF b THEN 2 ELSE FirstId) \in Nat
        /\ 0 \in Nat /\ <<>> \in Seq([id : Ids, fin : BOOLEAN])
    BY IdsAssumption
  <2>2. [i \in Ids |-> NewStream] \in [Ids -> Streams] /\ [i \in Ids |-> 0] \in [Ids -> Nat]
    BY <1>2
  <2> QED BY Zenon, <2>1, <2>2 DEF NewSession, Sessions
<1>4. ParityGood(x)
  BY <1>1, IdsAssumption DEF ParityGood
<1>5. SessionConsistent(x)
  <2>1. Incoming(x, {}) = {}
    BY Zenon DEF Incoming
  <2>2. Cardinality({}) = 0
    BY FS_EmptySet
  <2> QED BY Zenon, <1>1, <2>1, <2>2 DEF SessionConsistent
<1>6. FramesGood(x)
  <2>1. 1..Len(x.headersOut) = {}
    BY <1>1
  <2> QED BY Zenon, <1>1, <2>1 DEF FramesGood
<1>7. ASSUME NEW i \in Ids PROVE ~Seen(x, i) /\ StreamGood(x, i, ended)
  <2>1. ~Seen(x, i)
    BY <1>1, IdsAssumption DEF Seen
  <2>2. x.stream[i] = NewStream /\ x.log[i] = 0 /\ ~RstFramed(x, i)
    <3>1. x.stream[i] = NewStream
      BY Zenon, <1>1
    <3>2. x.log[i] = 0
      BY Zenon, <1>1
    <3>3. ~RstFramed(x, i)
      BY Zenon, <1>1 DEF RstFramed
    <3> QED BY Zenon, <3>1, <3>2, <3>3
  <2>3. ~Heard(NewStream) /\ NewStream.written = 0 /\ ~NewStream.finBuffered
    BY DEF NewStream, Heard
  <2>4. 0 <= Chunks(x)
    BY LimitsAssumption DEF Chunks
  <2>5. i \notin x.dynamic /\ i \notin x.locallyClosed /\ i \notin x.draining
    BY Zenon, <1>1
  <2> QED BY Zenon, <2>1, <2>2, <2>3, <2>4, <2>5 DEF StreamGood
<1>8. Tidy(x)
  BY Zenon, <1>1 DEF Tidy, StreamTidy
<1> QED BY Zenon, <1>1, <1>3, <1>4, <1>5, <1>6, <1>7, <1>8 DEF SessionGood

\* The invariant holds at the start.
LEMMA StartsTogether == Init => RInv
<1> SUFFICES ASSUME Init PROVE RInv
  OBVIOUS
<1>1. /\ client = NewSession(FALSE) /\ server = NewSession(TRUE)
      /\ clientRead = 0 /\ serverRead = 0
  BY Zenon DEF Init
<1>2. /\ SessionGood(client, {}, Ended(server)) /\ Tidy(client) /\ client.server = FALSE
      /\ client.headersOut = <<>>
  BY Zenon, <1>1, NewSessionGood
<1>3. /\ SessionGood(server, Known(client), Ended(client)) /\ Tidy(server)
      /\ server.server = TRUE /\ server.headersOut = <<>>
  BY Zenon, <1>1, NewSessionGood
<1>4. clientRead \in 0..Len(server.headersOut) /\ serverRead \in 0..Len(client.headersOut)
  <2>1. Len(server.headersOut) = 0 /\ Len(client.headersOut) = 0
    BY <1>2, <1>3
  <2>2. clientRead = 0 /\ serverRead = 0 /\ 0 \in 0..0
    BY <1>1
  <2> QED BY Zenon, <2>1, <2>2
<1> QED BY Zenon, <1>2, <1>3, <1>4 DEF RInv, Together

\* One operation of either end, or none.
Moved(c, s, d, t) ==
    /\ Goes(c, d) /\ Follows(s, t)
    /\ \/ d.nextOutgoing = c.nextOutgoing
       \/ /\ ShouldCreateOutgoingDynamicStream(c) /\ c.nextOutgoing \in Ids
          /\ d.nextOutgoing = c.nextOutgoing + 2

\* A session that does nothing.
LEMMA StandsStill ==
  ASSUME NEW c, NEW s, NEW cRead, NEW sRead, Together(c, s, cRead, sRead)
  PROVE  /\ Follows(c, c) /\ Follows(s, s) /\ c \in Sessions /\ s \in Sessions
         /\ Chunks(c) = RequestChunks /\ Chunks(s) = ResponseChunks
         /\ RequestChunks \in Nat /\ ResponseChunks \in Nat
<1>1. c \in Sessions /\ s \in Sessions /\ ~c.server /\ s.server
  BY Zenon DEF Together, SessionGood
<1>2. Chunks(c) = RequestChunks /\ Chunks(s) = ResponseChunks
  BY Zenon, <1>1 DEF Chunks
<1>3. RequestChunks \in Nat /\ ResponseChunks \in Nat
  BY LimitsAssumption
<1> QED BY Zenon, <1>1, <1>2, <1>3, FollowsSelf

\* The calls of the client.
LEMMA ClientCalls ==
  ASSUME RInv, NEW d, Served(client, d, {}, Ended(server)),
         client' = d, UNCHANGED <<server, clientRead, serverRead>>
  PROVE  RInv' /\ Moved(client, server, client', server')
<1>1. clientRead \in 0..Len(server.headersOut)
  BY Zenon DEF RInv, Together
<1>2. Together(d, server, clientRead, serverRead) /\ Follows(client, d)
  BY Zenon, <1>1, ClientMoves DEF RInv, Served, Follows
<1>3. server' = server /\ clientRead' = clientRead /\ serverRead' = serverRead
  OBVIOUS
<1>4. Together(client', server', clientRead', serverRead') /\ Follows(client, client')
  BY Zenon, <1>2, <1>3
<1>5. Follows(server, server')
  BY Zenon, <1>3, StandsStill DEF RInv
<1> QED BY Zenon, <1>4, <1>5 DEF RInv, Moved, Follows

\* The calls of the server.
LEMMA ServerCalls ==
  ASSUME RInv, NEW t, Served(server, t, Known(client), Ended(client)),
         server' = t, UNCHANGED <<client, clientRead, serverRead>>
  PROVE  RInv' /\ Moved(client, server, client', server')
<1>1. serverRead \in 0..Len(client.headersOut)
  BY Zenon DEF RInv, Together
<1>2. Together(client, t, clientRead, serverRead) /\ Follows(server, t)
  BY Zenon, <1>1, ServerMoves DEF RInv
<1>3. client' = client /\ clientRead' = clientRead /\ serverRead' = serverRead
  OBVIOUS
<1>4. Together(client', server', clientRead', serverRead') /\ Follows(server, server')
  BY Zenon, <1>2, <1>3
<1>5. Follows(client, client')
  BY Zenon, <1>3, StandsStill DEF RInv
<1> QED BY Zenon, <1>4, <1>5 DEF RInv, Moved, Follows

\* What the invariant says of each session alone.
LEMMA ClientGood ==
  ASSUME RInv
  PROVE  /\ SessionGood(client, {}, Ended(server)) /\ Tidy(client) /\ ~client.server
         /\ client \in Sessions /\ Chunks(client) = RequestChunks
         /\ RequestChunks \in Nat
BY Zenon, StandsStill DEF RInv, Together

\* What the invariant says of the server.
LEMMA ServerGood ==
  ASSUME RInv
  PROVE  /\ SessionGood(server, Known(client), Ended(client)) /\ Tidy(server)
         /\ server.server /\ server \in Sessions /\ Chunks(server) = ResponseChunks
         /\ ResponseChunks \in Nat
BY Zenon, StandsStill DEF RInv, Together

\* Each action keeps the invariant.
LEMMA SendRequestStep ==
  ASSUME RInv, ClientSendRequest
  PROVE  RInv' /\ Moved(client, server, client', server')
<1>1. PICK n \in Taken(RequestChunks) : client' = SendRequest(client, n)
  BY Zenon DEF ClientSendRequest
<1>2. n \in Nat /\ n <= Chunks(client)
  BY ClientGood DEF Taken
<1>3. client.nextOutgoing \in Ids /\ UNCHANGED <<server, clientRead, serverRead>>
  BY Zenon DEF ClientSendRequest
<1>4. Opened(client, client', {}, Ended(server))
  BY Zenon, <1>1, <1>2, <1>3, ClientGood, SendRequestGood
<1>5. clientRead \in 0..Len(server.headersOut) /\ Follows(server, server)
  BY Zenon, StandsStill DEF RInv, Together
<1>6. Together(client', server, clientRead, serverRead)
  BY Zenon, <1>4, <1>5, ClientMoves DEF RInv, Opened
<1>7. server' = server /\ clientRead' = clientRead /\ serverRead' = serverRead
  BY Zenon, <1>3
<1>8. RInv'
  BY Zenon, <1>6, <1>7 DEF RInv
<1>9. ShouldCreateOutgoingDynamicStream(client)
  BY Zenon DEF ClientSendRequest
<1> QED BY Zenon, <1>3, <1>4, <1>5, <1>7, <1>8, <1>9 DEF Moved, Opened

\* Either end closes the connection.
LEMMA DisconnectStep ==
  ASSUME RInv, ClientDisconnect \/ ServerDisconnect
  PROVE  RInv' /\ Moved(client, server, client', server')
<1>1. CASE ClientDisconnect
  <2>1. client' = CloseConnection(client) /\ UNCHANGED <<server, clientRead, serverRead>>
    BY Zenon, <1>1 DEF ClientDisconnect
  <2>2. Served(client, client', {}, Ended(server))
    BY Zenon, <2>1, ClientGood, CloseConnectionGood
  <2> QED BY Zenon, <2>1, <2>2, ClientCalls
<1>2. CASE ServerDisconnect
  <2>1. server' = CloseConnection(server) /\ UNCHANGED <<client, clientRead, serverRead>>
    BY Zenon, <1>2 DEF ServerDisconnect
  <2>2. Served(server, server', Known(client), Ended(client))
    BY Zenon, <2>1, ServerGood, CloseConnectionGood
  <2> QED BY Zenon, <2>1, <2>2, ServerCalls
<1> QED BY Zenon, <1>1, <1>2

\* A turn to write.
LEMMA WriteServed ==
  ASSUME NEW x, NEW id \in Ids, NEW known, NEW ended, SessionGood(x, known, ended),
         Tidy(x), NEW n, OnCanWrite(x, id, n), Chunks(x) \in Nat,
         NEW y, y = WritevData(x, id, n)
  PROVE  Served(x, y, known, ended)
<1>1. /\ id \in x.dynamic /\ x.stream[id].finBuffered /\ ~x.stream[id].finSent
      /\ n \in 1..(Chunks(x) - x.stream[id].written)
  BY Zenon DEF OnCanWrite, CanWrite
<1>2. x.stream[id] \in Streams /\ StreamTidy(x, id)
  BY Zenon, Fields DEF SessionGood, Tidy
<1>3. x.stream[id].written \in Nat
  BY <1>2 DEF Streams
<1>4. n \in Nat /\ n <= Chunks(x) - x.stream[id].written
  BY <1>1, <1>3
<1>5. HalfClosed(x, y, id, known, ended)
  BY Zenon, <1>1, <1>2, <1>4, WritevDataGood
<1> QED BY Zenon, <1>5, HalfClosedServed

\* Either end writes queued chunks.
LEMMA WriteStep ==
  ASSUME RInv, NEW id \in Ids, ClientOnCanWrite(id) \/ ServerOnCanWrite(id)
  PROVE  RInv' /\ Moved(client, server, client', server')
<1>1. CASE ClientOnCanWrite(id)
  <2>1. PICK n \in 1..RequestChunks : /\ OnCanWrite(client, id, n)
                                      /\ client' = WritevData(client, id, n)
    BY Zenon, <1>1 DEF ClientOnCanWrite
  <2>2. UNCHANGED <<server, clientRead, serverRead>>
    BY Zenon, <1>1 DEF ClientOnCanWrite
  <2>3. Chunks(client) \in Nat
    BY Zenon, ClientGood
  <2>4. Served(client, client', {}, Ended(server))
    BY Zenon, <2>1, <2>3, ClientGood, WriteServed
  <2> QED BY Zenon, <2>2, <2>4, ClientCalls
<1>2. CASE ServerOnCanWrite(id)
  <2>1. PICK n \in 1..ResponseChunks : /\ OnCanWrite(server, id, n)
                                       /\ server' = WritevData(server, id, n)
    BY Zenon, <1>2 DEF ServerOnCanWrite
  <2>2. UNCHANGED <<client, clientRead, serverRead>>
    BY Zenon, <1>2 DEF ServerOnCanWrite
  <2>3. Chunks(server) \in Nat
    BY Zenon, ServerGood
  <2>4. Served(server, server', Known(client), Ended(client))
    BY Zenon, <2>1, <2>3, ServerGood, WriteServed
  <2> QED BY Zenon, <2>2, <2>4, ServerCalls
<1> QED BY Zenon, <1>1, <1>2

\* Either end resets a stream.
LEMMA ResetStep ==
  ASSUME RInv, NEW id \in Ids, ClientReset(id) \/ ServerReset(id)
  PROVE  RInv' /\ Moved(client, server, client', server')
<1>1. CASE ClientReset(id)
  <2>1. /\ client.connected /\ id \in client.dynamic
        /\ client' = SendRstStream(client, id, "CANCELLED")
        /\ UNCHANGED <<server, clientRead, serverRead>>
    BY Zenon, <1>1 DEF ClientReset
  <2>2. Served(client, client', {}, Ended(server))
    BY Zenon, <2>1, ClientGood, ResetGood
  <2> QED BY Zenon, <2>1, <2>2, ClientCalls
<1>2. CASE ServerReset(id)
  <2>1. /\ server.connected /\ id \in server.dynamic
        /\ server' = SendRstStream(server, id, "CANCELLED")
        /\ UNCHANGED <<client, clientRead, serverRead>>
    BY Zenon, <1>2 DEF ServerReset
  <2>2. Served(server, server', Known(client), Ended(client))
    BY Zenon, <2>1, ServerGood, ResetGood
  <2> QED BY Zenon, <2>1, <2>2, ServerCalls
<1> QED BY Zenon, <1>1, <1>2

\* The server takes a HEADERS frame off its headers stream.
LEMMA ServerHeadersStep ==
  ASSUME RInv, ServerHeaders
  PROVE  RInv' /\ Moved(client, server, client', server')
<1> DEFINE k == serverRead + 1
           f == client.headersOut[k]
<1>1. PICK n \in Taken(ResponseChunks) : server' = OnStreamHeaderList(server, f, n)
  BY Zenon DEF ServerHeaders
<1>2. /\ server.connected /\ serverRead < Len(client.headersOut)
      /\ serverRead' = k /\ client' = client /\ clientRead' = clientRead
  BY Zenon DEF ServerHeaders
<1>3. n \in Nat /\ n <= Chunks(server)
  BY ServerGood DEF Taken
<1>4. k \in 1..Len(client.headersOut) /\ k \in 0..Len(client.headersOut)
  <2>1. serverRead \in 0..Len(client.headersOut) /\ client \in Sessions
    BY Zenon, ClientGood DEF RInv, Together
  <2>2. Len(client.headersOut) \in Nat
    BY <2>1, HeadersLength
  <2> QED BY <1>2, <2>1, <2>2
<1> HIDE DEF k
<1>5. /\ f.id \in Ids /\ f.fin \in BOOLEAN /\ Seen(client, f.id)
      /\ f.fin => f.id \in Ended(client)
  BY Zenon, <1>4, ClientGood, HeadersSay
<1>6. f.id \in Known(client)
  BY Zenon, <1>5, SeenIsKnown DEF RInv
<1> HIDE DEF f
<1>7. Served(server, server', Known(client), Ended(client))
  BY Zenon, <1>1, <1>2, <1>3, <1>5, <1>6, ServerGood, OnStreamHeaderListGood
<1>8. Together(client, server', clientRead, k) /\ Follows(server, server')
  BY Zenon, <1>4, <1>7, ServerMoves DEF RInv
<1>9. Follows(client, client')
  BY Zenon, <1>2, StandsStill DEF RInv
<1> QED BY Zenon, <1>2, <1>8, <1>9 DEF RInv, Moved, Follows

\* The client takes a HEADERS frame off its headers stream.
LEMMA ClientHeadersStep ==
  ASSUME RInv, ClientHeaders
  PROVE  RInv' /\ Moved(client, server, client', server')
<1> DEFINE k == clientRead + 1
           f == server.headersOut[k]
<1>1. /\ client.connected /\ clientRead < Len(server.headersOut)
      /\ clientRead' = k /\ server' = server /\ serverRead' = serverRead
      /\ client' = OnStreamHeaderList(client, f, 0)
  BY Zenon DEF ClientHeaders
<1>2. 0 \in Nat /\ 0 <= Chunks(client)
  BY ClientGood
<1>3. k \in 1..Len(server.headersOut) /\ k \in 0..Len(server.headersOut)
  <2>1. clientRead \in 0..Len(server.headersOut) /\ server \in Sessions
    BY Zenon, ServerGood DEF RInv, Together
  <2>2. Len(server.headersOut) \in Nat
    BY <2>1, HeadersLength
  <2> QED BY <1>1, <2>1, <2>2
<1> HIDE DEF k
<1>4. f.id \in Ids /\ f.fin \in BOOLEAN /\ (f.fin => f.id \in Ended(server))
  BY Zenon, <1>3, ServerGood, HeadersSay
<1> HIDE DEF f
<1>5. Served(client, client', {}, Ended(server))
  BY Zenon, <1>1, <1>2, <1>4, ClientGood, OnStreamHeaderListGood
<1>6. Together(client', server, k, serverRead) /\ Follows(client, client')
  BY Zenon, <1>3, <1>5, ClientMoves DEF RInv, Served, Follows
<1>7. Follows(server, server')
  BY Zenon, <1>1, StandsStill DEF RInv
<1> QED BY Zenon, <1>1, <1>6, <1>7 DEF RInv, Moved, Follows

\* A STREAM or RST_STREAM frame arrives at the server.
LEMMA ServerFrameStep ==
  ASSUME RInv, NEW f \in client.frames, ServerStreamFrame(f) \/ ServerRstStream(f)
  PROVE  RInv' /\ Moved(client, server, client', server')
<1>1. /\ f \in Frames /\ f.id \in Ids /\ Seen(client, f.id)
      /\ f.type = "STREAM" /\ f.fin => f.id \in Ended(client)
      /\ f.type \in RstCodes => f.id \in Ended(client)
  BY Zenon, ClientGood, FrameSays
<1>2. f.id \in Known(client)
  BY Zenon, <1>1, SeenIsKnown DEF RInv
<1>3. CASE ServerStreamFrame(f)
  <2>1. PICK n \in Taken(ResponseChunks) : server' = OnStreamFrame(server, f, n)
    BY Zenon, <1>3 DEF ServerStreamFrame
  <2>2. /\ server.connected /\ f.type = "STREAM"
        /\ UNCHANGED <<client, clientRead, serverRead>>
    BY Zenon, <1>3 DEF ServerStreamFrame
  <2>3. n \in Nat /\ n <= Chunks(server)
    BY ServerGood DEF Taken
  <2>4. Served(server, server', Known(client), Ended(client))
    BY Zenon, <1>1, <1>2, <2>1, <2>2, <2>3, ServerGood, OnStreamFrameGood
  <2> QED BY Zenon, <2>2, <2>4, ServerCalls
<1>4. CASE ServerRstStream(f)
  <2>1. /\ server.connected /\ f.type \in RstCodes /\ server' = OnRstStream(server, f.id)
        /\ UNCHANGED <<client, clientRead, serverRead>>
    BY Zenon, <1>4 DEF ServerRstStream
  <2>2. Served(server, server', Known(client), Ended(client))
    BY Zenon, <1>1, <1>2, <2>1, ServerGood, OnRstStreamGood
  <2> QED BY Zenon, <2>1, <2>2, ServerCalls
<1> QED BY Zenon, <1>3, <1>4

\* A STREAM or RST_STREAM frame arrives at the client.
LEMMA ClientFrameStep ==
  ASSUME RInv, NEW f \in server.frames, ClientStreamFrame(f) \/ ClientRstStream(f)
  PROVE  RInv' /\ Moved(client, server, client', server')
<1>1. /\ f \in Frames /\ f.id \in Ids
      /\ f.type = "STREAM" /\ f.fin => f.id \in Ended(server)
      /\ f.type \in RstCodes => f.id \in Ended(server)
  BY Zenon, ServerGood, FrameSays
<1>2. CASE ClientStreamFrame(f)
  <2>1. /\ client.connected /\ f.type = "STREAM" /\ client' = OnStreamFrame(client, f, 0)
        /\ UNCHANGED <<server, clientRead, serverRead>>
    BY Zenon, <1>2 DEF ClientStreamFrame
  <2>2. 0 \in Nat /\ 0 <= Chunks(client)
    BY ClientGood
  <2>3. Served(client, client', {}, Ended(server))
    BY Zenon, <1>1, <2>1, <2>2, ClientGood, OnStreamFrameGood
  <2> QED BY Zenon, <2>1, <2>3, ClientCalls
<1>3. CASE ClientRstStream(f)
  <2>1. /\ client.connected /\ f.type \in RstCodes /\ client' = OnRstStream(client, f.id)
        /\ UNCHANGED <<server, clientRead, serverRead>>
    BY Zenon, <1>3 DEF ClientRstStream
  <2>2. Served(client, client', {}, Ended(server))
    BY Zenon, <1>1, <2>1, ClientGood, OnRstStreamGood
  <2> QED BY Zenon, <2>1, <2>2, ClientCalls
<1> QED BY Zenon, <1>2, <1>3

\* The invariant is inductive, and a step of either end follows on from what
\* the session was.
LEMMA StepsTogether ==
  ASSUME RInv, [Next]_vars
  PROVE  RInv' /\ Moved(client, server, client', server')
<1>1. CASE UNCHANGED vars
  <2>1. /\ client' = client /\ server' = server
        /\ clientRead' = clientRead /\ serverRead' = serverRead
    BY Zenon, <1>1 DEF vars
  <2>2. Follows(client, client') /\ Follows(server, server')
    BY Zenon, <2>1, StandsStill DEF RInv
  <2> QED BY Zenon, <2>1, <2>2 DEF RInv, Moved, Follows
<1>2. CASE Next
  <2>1. CASE ClientSendRequest
    BY Zenon, <2>1, SendRequestStep
  <2>2. CASE ServerHeaders
    BY Zenon, <2>2, ServerHeadersStep
  <2>3. CASE ClientHeaders
    BY Zenon, <2>3, ClientHeadersStep
  <2>4. CASE ClientDisconnect \/ ServerDisconnect
    BY Zenon, <2>4, DisconnectStep
  <2>5. ASSUME NEW id \in Ids, ClientOnCanWrite(id) \/ ServerOnCanWrite(id)
        PROVE  RInv' /\ Moved(client, server, client', server')
    BY Zenon, <2>5, WriteStep
  <2>6. ASSUME NEW id \in Ids, ClientReset(id) \/ ServerReset(id)
        PROVE  RInv' /\ Moved(client, server, client', server')
    BY Zenon, <2>6, ResetStep
  <2>7. ASSUME NEW f \in client.frames, ServerStreamFrame(f) \/ ServerRstStream(f)
        PROVE  RInv' /\ Moved(client, server, client', server')
    BY Zenon, <2>7, ServerFrameStep
  <2>8. ASSUME NEW f \in server.frames, ClientStreamFrame(f) \/ ClientRstStream(f)
        PROVE  RInv' /\ Moved(client, server, client', server')
    BY Zenon, <2>8, ClientFrameStep
  <2> QED BY Zenon, <1>2, <2>1, <2>2, <2>3, <2>4, <2>5, <2>6, <2>7, <2>8 DEF Next
<1> QED BY Zenon, <1>1, <1>2

-----------------------------------------------------------------------------
\* Room for streams: the client keeps to its limit, and the server has seen or
\* set aside every stream up to the largest that the client has named.

Room(c, s) ==
    /\ FirstId <= c.nextOutgoing
    /\ \A j \in FirstId..(c.nextOutgoing - 1) : j % 2 = 1 => j \in Ids
    /\ Cardinality(CountedOpen(c)) <= MaxOutgoing
    /\ FirstId - 2 <= s.largestPeer
    /\ \A i \in s.available : i <= s.largestPeer

\* The second inductive invariant, next to RInv.
LInv == Room(client, server)

\* The ids as numbers.
LEMMA IdIsOdd ==
  ASSUME NEW i \in Ids PROVE i \in Nat /\ i % 2 = 1 /\ i >= FirstId
BY IdsAssumption

\* The streams of a session are finitely many.
LEMMA FiniteStreams ==
  ASSUME NEW T \in SUBSET Ids PROVE IsFiniteSet(T) /\ Cardinality(T) \in Nat
BY Zenon, IdsAssumption, FS_Subset, FS_CardinalityType

\* GetNumOpenOutgoingStreams counts the streams of a client that are open.
LEMMA ClientCount ==
  ASSUME NEW c, NEW ended, SessionGood(c, {}, ended), ~c.server
  PROVE  GetNumOpenOutgoingStreams(c) = Cardinality(CountedOpen(c))
<1> DEFINE D == c.dynamic
           R == c.draining
           L == c.locallyClosed
<1>1. /\ c \in Sessions /\ ParityGood(c) /\ SessionConsistent(c)
  BY Zenon DEF SessionGood
<1>2. D \in SUBSET Ids /\ R \in SUBSET Ids /\ L \in SUBSET Ids /\ c.server \in BOOLEAN
  BY Zenon, <1>1, Fields
<1>3. ASSUME NEW T \in SUBSET Ids PROVE Cardinality(Incoming(c, T)) = 0
  <2>1. Incoming(c, T) = {}
    BY Zenon, <1>1, <1>2, IncomingIs DEF Incoming
  <2> QED BY <2>1, FS_EmptySet
<1>4. c.numDynamicIn = 0 /\ c.numDrainingIn = 0 /\ c.numLocallyClosedIn = 0
  BY Zenon, <1>1, <1>2, <1>3 DEF SessionConsistent
<1>5. R \subseteq D /\ L \cap D = {}
  BY Zenon, <1>1 DEF SessionConsistent
<1>6. GetNumOpenOutgoingStreams(c) = (Cardinality(D) - 0) + (Cardinality(L) - 0)
                                          - (Cardinality(R) - 0)
  BY Zenon, <1>4 DEF GetNumOpenOutgoingStreams
<1>7. CountedOpen(c) = (D \ R) \cup L
  BY Zenon DEF CountedOpen
<1> HIDE DEF D, R, L
<1>8. /\ IsFiniteSet(D) /\ IsFiniteSet(L) /\ Cardinality(D) \in Nat
      /\ Cardinality(R) \in Nat /\ Cardinality(L) \in Nat
  BY Zenon, <1>2, FiniteStreams
<1>9. IsFiniteSet(D \ R) /\ Cardinality(D \ R) = Cardinality(D) - Cardinality(D \cap R)
  BY Zenon, <1>8, FS_Difference
<1>10. D \cap R = R /\ (D \ R) \cap L = {}
  BY Zenon, <1>5
<1>11. Cardinality((D \ R) \cup L) =
          Cardinality(D \ R) + Cardinality(L) - Cardinality((D \ R) \cap L)
  BY Zenon, <1>8, <1>9, FS_Union
<1>12. Cardinality((D \ R) \cap L) = 0
  BY <1>10, FS_EmptySet
<1>13. Cardinality(D \cap R) = Cardinality(R)
  BY Zenon, <1>10
<1> QED BY <1>6, <1>7, <1>8, <1>9, <1>11, <1>12, <1>13

\* At the start nothing is open.
LEMMA StartsWithRoom == Init => LInv
<1> SUFFICES ASSUME Init PROVE LInv
  OBVIOUS
<1>1. /\ client.nextOutgoing = FirstId /\ client.dynamic = {} /\ client.draining = {}
      /\ client.locallyClosed = {} /\ server.largestPeer = FirstId - 2
      /\ server.available = {}
  BY Zenon DEF Init, NewSession
<1>2. CountedOpen(client) = {}
  BY Zenon, <1>1 DEF CountedOpen
<1>3. Cardinality(CountedOpen(client)) <= MaxOutgoing
  BY <1>2, FS_EmptySet, LimitsAssumption
<1> QED BY <1>1, <1>3, IdsAssumption DEF LInv, Room

\* A stream that is counted has been seen.
LEMMA CountedSeen ==
  ASSUME NEW x, NEW known, NEW ended, SessionGood(x, known, ended),
         NEW i \in CountedOpen(x)
  PROVE  i \in Ids /\ Seen(x, i)
<1>1. i \in x.dynamic \/ i \in x.locallyClosed
  BY Zenon DEF CountedOpen
<1>2. i \in Ids
  BY Zenon, <1>1, Fields DEF SessionGood
<1> QED BY Zenon, <1>1, <1>2 DEF SessionGood, StreamGood

\* A client counts a stream more only when it opens one, which it does below
\* its limit.
LEMMA RoomStep ==
  ASSUME NEW c, NEW s, NEW ended, NEW d, NEW t, NEW ended2, NEW known, NEW known2,
         SessionGood(c, {}, ended), ~c.server, SessionGood(d, {}, ended2), ~d.server,
         SessionGood(s, known, Ended(c)), SessionGood(t, known2, Ended(d)),
         Moved(c, s, d, t), Room(c, s)
  PROVE  Room(d, t)
<1>1. /\ c \in Sessions /\ d \in Sessions /\ s \in Sessions /\ t \in Sessions
      /\ Goes(c, d) /\ Goes(s, t)
  BY Zenon DEF SessionGood, Moved, Follows
<1>2. /\ c.nextOutgoing \in Nat /\ d.nextOutgoing \in Nat /\ c.nextOutgoing % 2 = 1
      /\ s.largestPeer \in Nat /\ t.largestPeer \in Nat
      /\ s.available \in SUBSET Ids /\ t.available \in SUBSET Ids
      /\ CountedOpen(c) \in SUBSET Ids /\ CountedOpen(d) \in SUBSET Ids
  <2>1. c.nextOutgoing % 2 = 1
    BY Zenon DEF SessionGood, ParityGood
  <2>2. CountedOpen(c) \in SUBSET Ids /\ CountedOpen(d) \in SUBSET Ids
    BY Zenon, CountedSeen
  <2> QED BY Zenon, <1>1, <2>1, <2>2, Fields
<1>3. FirstId - 2 <= t.largestPeer /\ \A i \in t.available : i <= t.largestPeer
  <2>1. /\ s.largestPeer <= t.largestPeer /\ FirstId - 2 <= s.largestPeer
        /\ \A i \in t.available : i \in s.available \/ i <= t.largestPeer
        /\ \A i \in s.available : i <= s.largestPeer
    BY Zenon, <1>1 DEF Goes, PeerGrows, Room
  <2>2. \A i \in t.available : i \in Nat
    BY Zenon, <1>2, IdIsOdd
  <2> QED BY <1>2, <2>1, <2>2, IdsAssumption
<1>4. Cardinality(CountedOpen(c)) \in Nat /\ IsFiniteSet(CountedOpen(c)) /\ MaxOutgoing \in Nat
  <2>1. MaxOutgoing \in Nat
    BY LimitsAssumption
  <2> QED BY Zenon, <1>2, <2>1, FiniteStreams
<1>5. ASSUME NEW i \in CountedOpen(d)
      PROVE  i < d.nextOutgoing /\ (i < c.nextOutgoing => i \in CountedOpen(c))
  <2>1. i \in Ids /\ Seen(d, i)
    BY Zenon, CountedSeen
  <2> QED BY Zenon, <1>1, <2>1 DEF Seen, Goes
<1>6. CASE d.nextOutgoing = c.nextOutgoing
  <2>1. CountedOpen(d) \in SUBSET CountedOpen(c)
    BY Zenon, <1>5, <1>6
  <2>2. Cardinality(CountedOpen(d)) <= Cardinality(CountedOpen(c))
    BY Zenon, <1>4, <2>1, FS_Subset
  <2>3. Cardinality(CountedOpen(c)) <= MaxOutgoing
    BY Zenon DEF Room
  <2>4. Cardinality(CountedOpen(d)) \in Nat
    BY Zenon, <1>2, FiniteStreams
  <2>5. Cardinality(CountedOpen(d)) <= MaxOutgoing
    BY <1>4, <2>2, <2>3, <2>4
  <2> QED BY Zenon, <1>3, <1>6, <2>5 DEF Room
<1>7. CASE /\ ShouldCreateOutgoingDynamicStream(c) /\ c.nextOutgoing \in Ids
           /\ d.nextOutgoing = c.nextOutgoing + 2
  <2> DEFINE id == c.nextOutgoing
  <2>1. CountedOpen(d) \in SUBSET (CountedOpen(c) \cup {id})
    <3>1. ASSUME NEW i \in CountedOpen(d) PROVE i < id \/ i = id
      <4>1. i \in Nat /\ i % 2 = 1 /\ i < c.nextOutgoing + 2
        BY Zenon, <1>2, <1>5, <1>7, IdIsOdd
      <4> QED BY <1>2, <4>1
    <3> QED BY Zenon, <1>5, <3>1
  <2>2. Cardinality(CountedOpen(c)) < MaxOutgoing
    BY Zenon, <1>7, ClientCount DEF ShouldCreateOutgoingDynamicStream
  <2>3. /\ IsFiniteSet(CountedOpen(c) \cup {id})
        /\ Cardinality(CountedOpen(c) \cup {id}) =
              IF id \in CountedOpen(c) THEN Cardinality(CountedOpen(c))
              ELSE Cardinality(CountedOpen(c)) + 1
    BY Zenon, <1>4, FS_AddElement
  <2>4. Cardinality(CountedOpen(d)) <= Cardinality(CountedOpen(c) \cup {id})
    BY Zenon, <2>1, <2>3, FS_Subset
  <2>5. Cardinality(CountedOpen(d)) \in Nat
    BY Zenon, <1>2, FiniteStreams
  <2> HIDE DEF id
  <2>6. Cardinality(CountedOpen(d)) <= MaxOutgoing
    BY <1>4, <2>2, <2>3, <2>4, <2>5
  <2>7. /\ FirstId <= d.nextOutgoing
        /\ \A j \in FirstId..(d.nextOutgoing - 1) : j % 2 = 1 => j \in Ids
    <3>1. /\ FirstId <= c.nextOutgoing
          /\ \A j \in FirstId..(c.nextOutgoing - 1) : j % 2 = 1 => j \in Ids
      BY Zenon DEF Room
    <3>2. ASSUME NEW j \in FirstId..(d.nextOutgoing - 1), j % 2 = 1 PROVE j \in Ids
      <4>1. CASE j \in FirstId..(c.nextOutgoing - 1)
        BY Zenon, <3>1, <3>2, <4>1
      <4>2. CASE j \notin FirstId..(c.nextOutgoing - 1)
        <5>1. j = c.nextOutgoing
          BY <1>2, <1>7, <3>2, <4>2, IdsAssumption
        <5> QED BY Zenon, <1>7, <5>1
      <4> QED BY Zenon, <4>1, <4>2
    <3> QED BY <1>2, <1>7, <3>1, <3>2, IdsAssumption
  <2> QED BY Zenon, <1>3, <2>6, <2>7 DEF Room
<1> QED BY Zenon, <1>6, <1>7 DEF Moved

\* The client counts every stream of its own that the server has not seen.
LEMMA UnseenCounted ==
  ASSUME RInv, NEW i \in Ids, i < client.nextOutgoing, ~Seen(server, i)
  PROVE  i \in CountedOpen(client)
<1>1. Seen(client, i)
  BY Zenon, ClientGood DEF Seen
<1>2. /\ StreamGood(client, i, Ended(server)) /\ StreamGood(server, i, Ended(client))
      /\ ~client.server
  BY Zenon, ClientGood, ServerGood DEF SessionGood
<1>3. i \notin Ended(server)
  <2>1. server.stream[i] = NewStream /\ ~RstFramed(server, i)
    BY Zenon, <1>2 DEF StreamGood
  <2>2. ~NewStream.finSent
    BY DEF NewStream
  <2> QED BY Zenon, <2>1, <2>2 DEF Ended
<1>4. i \in client.dynamic \cup client.locallyClosed
  BY Zenon, <1>1, <1>2, <1>3 DEF StreamGood
<1>5. i \notin client.draining
  BY Zenon, <1>2, <1>3 DEF StreamGood, Heard
<1> QED BY Zenon, <1>4, <1>5 DEF CountedOpen

\* The odd ids between two numbers, by a step of two down from the larger.
LEMMA IdsBetween ==
  ASSUME NEW low \in Nat, NEW id \in Ids, low < id, FirstId - 2 <= low,
         \A j \in FirstId..(id - 1) : j % 2 = 1 => j \in Ids,
         NEW B, B = {i \in Ids : low < i /\ i < id}
  PROVE  /\ IsFiniteSet(B) /\ Cardinality(B) \in Nat
         /\ (id - low) \div 2 - 1 <= Cardinality(B)
<1>1. B \in SUBSET Ids
  BY Zenon
<1>2. IsFiniteSet(B) /\ Cardinality(B) \in Nat
  BY Zenon, <1>1, FiniteStreams
<1> DEFINE n == (id - low) \div 2 - 1
           f == [k \in 1..n |-> id - 2 * k]
<1>3. id \in Nat /\ id % 2 = 1 /\ n \in Int /\ 2 * n <= id - low - 2 /\ FirstId \in Nat
  <2>1. id \in Nat /\ id % 2 = 1
    BY Zenon, IdIsOdd
  <2> QED BY <2>1, IdsAssumption
<1> HIDE DEF n
<1>4. \A k \in 1..n : id - 2 * k \in B
  <2>1. ASSUME NEW k \in 1..n
        PROVE  /\ id - 2 * k \in FirstId..(id - 1) /\ (id - 2 * k) % 2 = 1
               /\ low < id - 2 * k /\ id - 2 * k < id
    BY <1>3
  <2> QED BY Zenon, <2>1
<1>5. f \in [1..n -> B]
  BY <1>4
<1>6. \A a, b \in 1..n : f[a] = f[b] => a = b
  BY <1>3
<1>7. f \in Injection(1..n, B)
  BY Zenon, <1>5, <1>6 DEF Injection, IsInjective
<1> HIDE DEF f
<1>8. Cardinality(1..n) <= Cardinality(B)
  BY Zenon, <1>2, <1>7, FS_Injection
<1>9. Cardinality(1..n) = IF 1 > n THEN 0 ELSE n - 1 + 1
  BY <1>3, FS_Interval
<1>10. n <= Cardinality(B)
  BY <1>2, <1>3, <1>8, <1>9
<1> QED BY Zenon, <1>2, <1>10 DEF n

\* The streams that the server would set aside, with those that it has set
\* aside before, are open at the client.
LEMMA EnoughAvailable ==
  ASSUME RInv, LInv, MaxOutgoing <= MaxIncoming * AvailableMultiplier + 1,
         NEW id \in Ids, id < client.nextOutgoing, NEW w,
         w = [server EXCEPT !.available = @ \ {id}]
  PROVE  ~TooManyAvailable(w, id)
<1> DEFINE A == server.available
           low == server.largestPeer
           B == {i \in Ids : low < i /\ i < id}
           C == CountedOpen(client)
<1> SUFFICES ASSUME TooManyAvailable(w, id) PROVE FALSE
  OBVIOUS
<1>1. /\ server \in Sessions /\ client \in Sessions /\ server.server
      /\ SessionGood(client, {}, Ended(server))
  BY Zenon, ServerGood, ClientGood
<1>2. /\ A \in SUBSET Ids /\ low \in Nat /\ client.nextOutgoing \in Nat
      /\ id \in Nat /\ FirstId \in Nat
  <2>1. id \in Nat
    BY Zenon, IdIsOdd
  <2> QED BY Zenon, <1>1, <2>1, Fields, IdsAssumption
<1>3. w.largestPeer = low /\ w.available = A \ {id}
  BY Zenon, <1>1 DEF Sessions
<1>4. low < id /\ Cardinality(w.available) + ((id - low) \div 2 - 1)
                      > MaxIncoming * AvailableMultiplier
  <2>1. /\ id > low
        /\ Cardinality(w.available) + ((id - low) \div 2 - 1)
              > MaxIncoming * AvailableMultiplier
    BY Zenon, <1>3 DEF TooManyAvailable
  <2> QED BY <1>2, <2>1
<1>5. /\ \A j \in FirstId..(client.nextOutgoing - 1) : j % 2 = 1 => j \in Ids
      /\ FirstId - 2 <= low /\ \A i \in A : i <= low
      /\ Cardinality(C) <= MaxOutgoing
  BY Zenon DEF LInv, Room
<1>6. \A j \in FirstId..(id - 1) : j % 2 = 1 => j \in Ids
  BY <1>2, <1>5
<1>7. /\ IsFiniteSet(B) /\ Cardinality(B) \in Nat
      /\ (id - low) \div 2 - 1 <= Cardinality(B)
  BY Zenon, <1>2, <1>4, <1>5, <1>6, IdsBetween
<1>8. \A i \in Ids : i \in Nat
  BY Zenon, IdIsOdd
<1>9. /\ A \cap B = {} /\ id \notin A /\ id \notin B
      /\ \A i \in A : i < client.nextOutgoing
      /\ \A i \in B : i < client.nextOutgoing /\ ~(i <= low)
  BY <1>2, <1>4, <1>5, <1>8
<1>10. (A \cup B) \cup {id} \in SUBSET C
  <2>1. \A i \in A : ~Seen(server, i)
    BY Zenon, <1>1 DEF Seen
  <2>2. ~(id <= low)
    BY <1>2, <1>4
  <2>3. \A i \in B \cup {id} : ~Seen(server, i)
    BY Zenon, <1>1, <1>9, <2>2 DEF Seen
  <2> QED BY Zenon, <1>2, <1>9, <2>1, <2>3, UnseenCounted
<1>11. C \in SUBSET Ids
  BY Zenon, <1>1, CountedSeen
<1>12. IsFiniteSet(A) /\ Cardinality(A) \in Nat /\ IsFiniteSet(C) /\ Cardinality(C) \in Nat
  BY Zenon, <1>2, <1>11, FiniteStreams
<1> HIDE DEF A, B, C, low
<1>13. /\ IsFiniteSet(A \cup B)
       /\ Cardinality(A \cup B) = Cardinality(A) + Cardinality(B) - Cardinality(A \cap B)
  BY Zenon, <1>7, <1>12, FS_Union
<1>14. Cardinality(A \cap B) = 0
  BY <1>9, FS_EmptySet
<1>15. Cardinality((A \cup B) \cup {id}) = Cardinality(A \cup B) + 1
  <2>1. id \notin A \cup B
    BY Zenon, <1>9
  <2>2. Cardinality((A \cup B) \cup {id}) =
           IF id \in A \cup B THEN Cardinality(A \cup B) ELSE Cardinality(A \cup B) + 1
    BY Zenon, <1>13, FS_AddElement
  <2> QED BY Zenon, <2>1, <2>2
<1>16. Cardinality((A \cup B) \cup {id}) <= Cardinality(C)
  BY Zenon, <1>10, <1>12, FS_Subset
<1>17. w.available = A
  BY Zenon, <1>3, <1>9
<1>18. Cardinality(w.available) = Cardinality(A)
  BY Zenon, <1>17
<1>19. MaxIncoming * AvailableMultiplier \in Nat /\ MaxOutgoing \in Nat
  BY LimitsAssumption
<1>20. (id - low) \div 2 \in Int
  BY <1>2
<1> DEFINE p == MaxIncoming * AvailableMultiplier
           h == (id - low) \div 2
<1>21. /\ p \in Nat /\ h \in Int /\ Cardinality(w.available) + (h - 1) > p
       /\ h - 1 <= Cardinality(B) /\ MaxOutgoing <= p + 1
  BY <1>4, <1>7, <1>19, <1>20
<1> HIDE DEF p, h
<1> QED BY <1>5, <1>7, <1>12, <1>13, <1>14, <1>15, <1>16, <1>18, <1>19, <1>21

-----------------------------------------------------------------------------
\* The invariant implies the properties.

\* A closed stream is one that was seen and is open no more.
LEMMA ClosedSeen ==
  ASSUME NEW x, NEW known, NEW ended, SessionGood(x, known, ended), NEW i \in Ids
  PROVE  /\ IsClosedStream(x, i) <=> i \notin x.dynamic /\ Seen(x, i)
         /\ StreamGood(x, i, ended)
BY Zenon, Fields, ClosedIs DEF SessionGood

\* A closed stream is one whose end was announced.
LEMMA AnnouncesEnd ==
  ASSUME NEW x, NEW known, NEW ended, SessionGood(x, known, ended)
  PROVE  SaysWhereItEnds(x)
<1>1. ASSUME NEW i \in Ids, IsClosedStream(x, i), x.connected
      PROVE  x.stream[i].finSent \/ RstFramed(x, i)
  BY Zenon, <1>1, ClosedSeen DEF StreamGood
<1> QED BY Zenon, <1>1 DEF SaysWhereItEnds, RstFramed

\* The properties of RequestResponse that are about single states.
LEMMA InvariantMeans ==
  RInv => CountersConsistent /\ EndIsAnnounced /\ OneLogLinePerStream /\ ServerCountsNoMore
<1> SUFFICES ASSUME RInv
             PROVE  /\ CountersConsistent /\ EndIsAnnounced /\ OneLogLinePerStream
                    /\ ServerCountsNoMore
  OBVIOUS
<1>1. CountersConsistent
  BY Zenon, ClientGood, ServerGood
     DEF CountersConsistent, TypeOK, SessionGood, RInv, Together
<1>2. EndIsAnnounced
  BY Zenon, ClientGood, ServerGood, AnnouncesEnd DEF EndIsAnnounced
<1>3. OneLogLinePerStream
  <2>1. ASSUME NEW i \in Ids
        PROVE  server.log[i] =
                  IF \/ i \in server.dynamic \/ ~IsClosedStream(server, i)
                     \/ Rst(i, "REFUSED") \in server.frames
                  THEN 0 ELSE 1
    <3>1. /\ IsClosedStream(server, i) <=> i \notin server.dynamic /\ Seen(server, i)
          /\ StreamGood(server, i, Ended(client)) /\ server.server
      BY Zenon, ServerGood, ClosedSeen
    <3>2. CASE \/ i \in server.dynamic \/ ~Seen(server, i)
               \/ Rst(i, "REFUSED") \in server.frames
      BY Zenon, <3>1, <3>2 DEF StreamGood
    <3>3. CASE /\ i \notin server.dynamic /\ Seen(server, i)
               /\ Rst(i, "REFUSED") \notin server.frames
      BY Zenon, <3>1, <3>3 DEF StreamGood
    <3> QED BY Zenon, <3>2, <3>3
  <2> QED BY Zenon, <2>1 DEF OneLogLinePerStream
<1>4. ServerCountsNoMore
  <2>1. ASSUME client.connected, server.connected,
               NEW i \in CountedOpen(server) \ CountedOpen(client)
        PROVE  i \in server.locallyClosed /\ (client.stream[i].finSent \/ RstFramed(client, i))
    <3>1. i \in Ids /\ SessionConsistent(server) /\ SessionConsistent(client)
      <4>1. server.dynamic \in SUBSET Ids /\ server.locallyClosed \in SUBSET Ids
        BY Zenon, ServerGood, Fields
      <4> QED BY Zenon, <4>1, ServerGood, ClientGood DEF CountedOpen, SessionGood
    <3>2. /\ StreamGood(server, i, Ended(client)) /\ StreamTidy(server, i)
          /\ StreamGood(client, i, Ended(server))
      BY Zenon, <3>1, ServerGood, ClientGood, ClosedSeen DEF Tidy
    <3>3. i \in server.dynamic \/ i \in server.locallyClosed
      BY Zenon DEF CountedOpen
    <3>4. i \in Known(client)
      BY Zenon, <3>1, <3>2, <3>3, SeenIsKnown DEF StreamGood, RInv
    <3>5. Seen(client, i)
      BY Zenon, <3>4, ClientGood DEF Seen, Known
    <3>6. i \in client.draining \/ (i \notin client.dynamic /\ i \notin client.locallyClosed)
      BY Zenon DEF CountedOpen
    <3>7. i \in Ended(server) /\ (client.stream[i].finSent \/ RstFramed(client, i))
      <4>1. CASE i \in client.draining
        BY Zenon, <3>2, <4>1 DEF StreamGood, Heard
      <4>2. CASE i \notin client.dynamic /\ i \notin client.locallyClosed
        BY Zenon, <2>1, <3>2, <3>5, <4>2, ClientGood DEF StreamGood
      <4> QED BY Zenon, <3>6, <4>1, <4>2
    <3>8. i \notin server.dynamic
      BY Zenon, <3>2, <3>7, ServerGood DEF StreamTidy, Unfinished, Ended
    <3> QED BY Zenon, <3>3, <3>7, <3>8
  <2> QED BY Zenon, <2>1 DEF ServerCountsNoMore, RstFramed
<1> QED BY Zenon, <1>1, <1>2, <1>3, <1>4

-----------------------------------------------------------------------------
\* Whatever frames arrive, in whatever order and however often, the two
\* sessions keep the invariant that relates what one has announced to what
\* the other has heard.
THEOREM SessionsStayTogether == Spec => []RInv
<1>1. RInv /\ [Next]_vars => RInv'
  BY StepsTogether
<1> QED BY <1>1, StartsTogether, PTL DEF Spec

\* The stream counters of quic_session.cc equal what they count and never
\* wrap below zero, for every number of streams and every limit.
THEOREM CountersSafe == Spec => []CountersConsistent
<1>1. RInv => CountersConsistent
  BY InvariantMeans
<1> QED BY <1>1, SessionsStayTogether, PTL

\* A session that closes a stream while connected has told its peer the
\* final offset, by a FIN or by the RST_STREAM of CloseStreamInner.
THEOREM EndsAnnounced == Spec => []EndIsAnnounced
<1>1. RInv => EndIsAnnounced
  BY InvariantMeans
<1> QED BY <1>1, SessionsStayTogether, PTL

\* The server writes one line to log.txt for each stream that it opened and
\* closed, and none for any other.
THEOREM LogSafe == Spec => []OneLogLinePerStream
<1>1. RInv => OneLogLinePerStream
  BY InvariantMeans
<1> QED BY <1>1, SessionsStayTogether, PTL

\* Of the streams that the client no longer counts as open, the server counts
\* only those that it reset itself and whose end is on its way.
THEOREM LimitsAgree == Spec => []ServerCountsNoMore
<1>1. RInv => ServerCountsNoMore
  BY InvariantMeans
<1> QED BY <1>1, SessionsStayTogether, PTL

\* No frame, late or repeated, opens a closed stream again.
THEOREM ClosedForGood == Spec => ClosedStaysClosed
<1> DEFINE Stays == \A id \in Ids :
              /\ IsClosedStream(client, id) => IsClosedStream(client', id)
              /\ IsClosedStream(server, id) => IsClosedStream(server', id)
<1>1. RInv /\ [Next]_vars => Stays
  BY Zenon, StepsTogether DEF Moved, Follows, Goes
<1>2. Stays => \A id \in Ids :
              /\ IsClosedStream(client, id) => IsClosedStream(client, id)'
              /\ IsClosedStream(server, id) => IsClosedStream(server, id)'
  OBVIOUS
<1> HIDE DEF Stays
<1> QED BY <1>1, <1>2, SessionsStayTogether, PTL DEF Spec, ClosedStaysClosed

\* Frames that overtake one another never make an end close the connection for
\* a stream id, provided that the client may not have more streams open than
\* the server may set aside, and one.
THEOREM NoIdRejected ==
  MaxOutgoing <= MaxIncoming * AvailableMultiplier + 1 => (Spec => []NoStreamIdError)
<1>1. RInv /\ LInv /\ RInv' /\ [Next]_vars => LInv'
  <2> SUFFICES ASSUME RInv, LInv, RInv', [Next]_vars PROVE LInv'
    OBVIOUS
  <2>1. Moved(client, server, client', server')
    BY Zenon, StepsTogether
  <2>2. Together(client', server', clientRead', serverRead')
    BY Zenon DEF RInv
  <2>3. Room(client', server')
    BY Zenon, <2>1, <2>2, RoomStep DEF RInv, LInv, Together
  <2> QED BY Zenon, <2>3 DEF LInv
<1>2. Spec => [](RInv /\ LInv)
  <2>1. RInv /\ [Next]_vars => RInv'
    BY StepsTogether
  <2> QED BY <1>1, <2>1, StartsTogether, StartsWithRoom, PTL DEF Spec
<1>3. ASSUME MaxOutgoing <= MaxIncoming * AvailableMultiplier + 1
      PROVE  RInv /\ LInv => NoStreamIdError
  <2> SUFFICES ASSUME RInv, LInv PROVE NoStreamIdError
    OBVIOUS
  <2>1. ASSUME NEW id \in Ids, id < client.nextOutgoing
        PROVE  ~TooManyAvailable([server EXCEPT !.available = @ \ {id}], id)
    BY Zenon, <1>3, <2>1, EnoughAvailable
  <2>2. ASSUME NEW f \in server.frames PROVE f.id < client.nextOutgoing
    <3>1. f.id \in Ids /\ Seen(server, f.id)
      BY Zenon, ServerGood, FrameSays
    <3> QED BY Zenon, <3>1, SeenIsKnown DEF RInv, Known
  <2> QED BY Zenon, <2>1, <2>2 DEF NoStreamIdError
<1>4. CASE MaxOutgoing <= MaxIncoming * AvailableMultiplier + 1
  <2>1. RInv /\ LInv => NoStreamIdError
    BY <1>3, <1>4
  <2> QED BY <1>2, <2>1, PTL
<1> QED BY <1>4
=============================================================================
