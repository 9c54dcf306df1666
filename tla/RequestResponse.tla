-------------------------- MODULE RequestResponse --------------------------
(***************************************************************************)
(* A client session and a server session exchanging requests and responses *)
(* over a network that loses, repeats and reorders packets.  What is lost  *)
(* is retransmitted, so a frame can arrive at any later time, and again;   *)
(* the headers stream delivers its frames once and in order.               *)
(***************************************************************************)
EXTENDS QuicSession

VARIABLES
    client,       \* the session of the client
    server,       \* the session of the server
    clientRead,   \* HEADERS frames the client has taken off its headers stream
    serverRead    \* HEADERS frames the server has taken off its headers stream

vars == <<client, server, clientRead, serverRead>>

TypeOK ==
    /\ client \in Sessions /\ ~client.server
    /\ server \in Sessions /\ server.server
    /\ clientRead \in 0..Len(server.headersOut)
    /\ serverRead \in 0..Len(client.headersOut)

Init ==
    /\ client = NewSession(FALSE)
    /\ server = NewSession(TRUE)
    /\ clientRead = 0
    /\ serverRead = 0

\* What the connection takes of a write, of this many chunks, at once.
Taken(chunks) == 0..chunks

ClientSendRequest ==
    /\ ShouldCreateOutgoingDynamicStream(client)
    /\ client.nextOutgoing \in Ids
    /\ \E n \in Taken(RequestChunks) : client' = SendRequest(client, n)
    /\ UNCHANGED <<server, clientRead, serverRead>>

\* The turn of a stream with queued chunks in QuicSession::OnCanWrite.
CanWrite(x, id) ==
    /\ x.connected /\ id \in x.dynamic
    /\ x.stream[id].finBuffered /\ ~x.stream[id].finSent

OnCanWrite(x, id, n) == CanWrite(x, id) /\ n \in 1..(Chunks(x) - x.stream[id].written)

ClientOnCanWrite(id) ==
    /\ \E n \in 1..RequestChunks : /\ OnCanWrite(client, id, n)
                                   /\ client' = WritevData(client, id, n)
    /\ UNCHANGED <<server, clientRead, serverRead>>

ServerOnCanWrite(id) ==
    /\ \E n \in 1..ResponseChunks : /\ OnCanWrite(server, id, n)
                                    /\ server' = WritevData(server, id, n)
    /\ UNCHANGED <<client, clientRead, serverRead>>

\* The application of either end gives up on a stream: QuicStream::Reset.
ClientReset(id) ==
    /\ client.connected /\ id \in client.dynamic
    /\ client' = SendRstStream(client, id, "CANCELLED")
    /\ UNCHANGED <<server, clientRead, serverRead>>

ServerReset(id) ==
    /\ server.connected /\ id \in server.dynamic
    /\ server' = SendRstStream(server, id, "CANCELLED")
    /\ UNCHANGED <<client, clientRead, serverRead>>

ServerHeaders ==
    /\ server.connected /\ serverRead < Len(client.headersOut)
    /\ serverRead' = serverRead + 1
    /\ \E n \in Taken(ResponseChunks) :
          server' = OnStreamHeaderList(server, client.headersOut[serverRead + 1], n)
    /\ UNCHANGED <<client, clientRead>>

ClientHeaders ==
    /\ client.connected /\ clientRead < Len(server.headersOut)
    /\ clientRead' = clientRead + 1
    /\ client' = OnStreamHeaderList(client, server.headersOut[clientRead + 1], 0)
    /\ UNCHANGED <<server, serverRead>>

ServerStreamFrame(f) ==
    /\ server.connected /\ f.type = "STREAM"
    /\ \E n \in Taken(ResponseChunks) : server' = OnStreamFrame(server, f, n)
    /\ UNCHANGED <<client, clientRead, serverRead>>

ClientStreamFrame(f) ==
    /\ client.connected /\ f.type = "STREAM"
    /\ client' = OnStreamFrame(client, f, 0)
    /\ UNCHANGED <<server, clientRead, serverRead>>

ServerRstStream(f) ==
    /\ server.connected /\ f.type \in RstCodes
    /\ server' = OnRstStream(server, f.id)
    /\ UNCHANGED <<client, clientRead, serverRead>>

ClientRstStream(f) ==
    /\ client.connected /\ f.type \in RstCodes
    /\ client' = OnRstStream(client, f.id)
    /\ UNCHANGED <<server, clientRead, serverRead>>

\* Either end closes the connection, for a timeout or an error elsewhere; the
\* other learns of it from the CONNECTION_CLOSE or from a timeout of its own.
ClientDisconnect ==
    /\ client.connected
    /\ client' = CloseConnection(client)
    /\ UNCHANGED <<server, clientRead, serverRead>>

ServerDisconnect ==
    /\ server.connected
    /\ server' = CloseConnection(server)
    /\ UNCHANGED <<client, clientRead, serverRead>>

Next ==
    \/ ClientSendRequest \/ ServerHeaders \/ ClientHeaders
    \/ ClientDisconnect \/ ServerDisconnect
    \/ \E id \in Ids : \/ ClientOnCanWrite(id) \/ ServerOnCanWrite(id)
                       \/ ClientReset(id) \/ ServerReset(id)
    \/ \E f \in client.frames : ServerStreamFrame(f) \/ ServerRstStream(f)
    \/ \E f \in server.frames : ClientStreamFrame(f) \/ ClientRstStream(f)

Spec == Init /\ [][Next]_vars

\* Retransmission delivers every frame in the end, and a stream with queued
\* data gets its turn to write once congestion and flow control allow it.
Fairness ==
    /\ WF_vars(ServerHeaders)
    /\ WF_vars(ClientHeaders)
    /\ WF_vars(\E f \in client.frames : ServerStreamFrame(f) \/ ServerRstStream(f))
    /\ WF_vars(\E f \in server.frames : ClientStreamFrame(f) \/ ClientRstStream(f))
    /\ \A id \in Ids : WF_vars(ClientOnCanWrite(id)) /\ WF_vars(ServerOnCanWrite(id))

FairSpec == Spec /\ Fairness

-----------------------------------------------------------------------------
\* Both sessions count right, so that GetNumOpenIncomingStreams is the number
\* it claims to be and no unsigned counter of quic_session.cc wraps below zero,
\* however the frames of the two ends interleave.
CountersConsistent ==
    TypeOK /\ SessionConsistent(client) /\ SessionConsistent(server)

\* A client that keeps to the server's limit by its own count is not refused
\* (QUIC_REFUSED_STREAM of GetOrCreateDynamicStream): the server counts a
\* stream that the client no longer counts only if it reset the stream itself,
\* and then the client has already announced the end of it.
ServerCountsNoMore ==
    client.connected /\ server.connected =>
        \A id \in CountedOpen(server) \ CountedOpen(client) :
            /\ id \in server.locallyClosed
            /\ \/ client.stream[id].finSent
               \/ \E f \in client.frames : f.id = id /\ f.type \in RstCodes

\* Frames of different streams arrive in any order, yet none makes the
\* receiver close the connection for its stream id: the server never has too
\* many available streams (QUIC_TOO_MANY_AVAILABLE_STREAMS), and the client
\* never sees an id that it has not opened (QUIC_INVALID_STREAM_ID).
NoStreamIdError ==
    /\ \A id \in Ids : id < client.nextOutgoing =>
            \/ id \in server.dynamic \/ IsClosedStream(server, id)
            \/ ~TooManyAvailable([server EXCEPT !.available = @ \ {id}], id)
    /\ \A f \in server.frames : f.id < client.nextOutgoing

\* A stream that an end has closed while connected is one for which it told
\* the peer the final offset, with a FIN or a RST_STREAM: without it the peer
\* would count the stream as open for ever.
SaysWhereItEnds(x) ==
    \A id \in Ids : IsClosedStream(x, id) /\ x.connected =>
        \/ x.stream[id].finSent
        \/ \E f \in x.frames : f.id = id /\ f.type \in RstCodes

EndIsAnnounced == SaysWhereItEnds(client) /\ SaysWhereItEnds(server)

\* The server appends exactly one line to log.txt for every stream that it
\* opened and closed, though CloseStreamInner is re-entered while it closes
\* one, and none for the others: the log the clustering job reads counts
\* every request once.
OneLogLinePerStream ==
    \A id \in Ids : server.log[id] =
        IF \/ id \in server.dynamic \/ ~IsClosedStream(server, id)
           \/ Rst(id, "REFUSED") \in server.frames
        THEN 0 ELSE 1

\* A closed stream is never opened again: late and repeated frames of it
\* find it closed, whatever became available or larger in between.
ClosedStaysClosed ==
    [][\A id \in Ids : /\ IsClosedStream(client, id) => IsClosedStream(client, id)'
                       /\ IsClosedStream(server, id) => IsClosedStream(server, id)']_vars

\* Every request ends: while both ends are connected each stream is closed
\* at both in the end and its final offset is known at both, so that it no
\* longer counts against the limits on open streams.
Settled(x, id) == id \notin x.dynamic /\ id \notin x.locallyClosed

RequestsEnd ==
    \A id \in Ids :
        ~Settled(client, id) \/ ~Settled(server, id) ~>
            \/ ~client.connected \/ ~server.connected
            \/ Settled(client, id) /\ Settled(server, id)
=============================================================================
