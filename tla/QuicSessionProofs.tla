------------------------- MODULE QuicSessionProofs -------------------------
(***************************************************************************)
(* Proofs about the methods of one QuicSession for every set of stream     *)
(* ids, every limit on open streams and every length of message.           *)
(* SessionGood is what they keep, given the ids that the peer has named    *)
(* and those whose end it has announced.                                   *)
(***************************************************************************)
EXTENDS QuicSession, FiniteSetTheorems, TLAPS

\* The frames that a session may send.
Frames ==
    [type : {"STREAM"} \cup RstCodes, id : Ids, pos : Nat, fin : BOOLEAN]

\* The ids that a session has opened or refused at some time.
Seen(x, i) ==
    IF x.server THEN i <= x.largestPeer /\ i \notin x.available
    ELSE i < x.nextOutgoing

RstFramed(x, i) == \E f \in x.frames : f.id = i /\ f.type \in RstCodes

\* The streams whose end a session has announced to its peer.
Ended(x) == {i \in Ids : x.stream[i].finSent \/ RstFramed(x, i)}

\* The end of the peer's side of a stream has arrived.
Heard(st) == st.finReceived \/ st.rstReceived \/ st.close # Unknown

\* What holds of stream i between any two calls, ended being the streams
\* whose end the peer has announced.
StreamGood(x, i, ended) ==
    /\ i \in x.dynamic \cup x.locallyClosed => Seen(x, i)
    /\ ~Seen(x, i) => x.stream[i] = NewStream /\ ~RstFramed(x, i)
    /\ Seen(x, i) /\ i \notin x.dynamic /\ x.connected =>
            x.stream[i].finSent \/ RstFramed(x, i)
    /\ x.server => IF i \in x.dynamic \/ ~Seen(x, i) \/ Rst(i, "REFUSED") \in x.frames
                   THEN x.log[i] = 0 ELSE x.log[i] = 1
    /\ Heard(x.stream[i]) => i \in ended
    /\ ~x.server /\ Seen(x, i) /\ i \notin x.dynamic \cup x.locallyClosed =>
            i \in ended
    /\ i \in x.draining => x.stream[i].finSent /\ x.stream[i].finReceived
    /\ x.stream[i].written <= Chunks(x)
    /\ ~x.stream[i].finBuffered => x.stream[i].written = 0

\* What holds of an open stream, up to the closing of the side that has
\* just been finished.
Unfinished(x, i) ==
    /\ ~x.stream[i].rstSent /\ ~RstFramed(x, i)
    /\ ~(x.stream[i].readClosed /\ x.stream[i].writeClosed)
    /\ x.server /\ (x.stream[i].finBuffered \/ x.stream[i].finSent) =>
            x.stream[i].readClosed

\* What holds of an open stream when no method is at work on it.
StreamTidy(x, i) ==
    i \in x.dynamic => /\ Unfinished(x, i)
                       /\ x.stream[i].finSent => x.stream[i].writeClosed

FramesGood(x) ==
    /\ \A f \in x.frames : /\ Seen(x, f.id)
                           /\ f.type = "STREAM" /\ f.fin => x.stream[f.id].finSent
    /\ \A k \in 1..Len(x.headersOut) :
          /\ Seen(x, x.headersOut[k].id)
          /\ x.headersOut[k].fin => x.stream[x.headersOut[k].id].finSent

\* The client opens odd ids, the server would open even ones.
ParityGood(x) == x.nextOutgoing % 2 = IF x.server THEN 0 ELSE 1

\* known are the ids that the peer has opened.
SessionGood(x, known, ended) ==
    /\ x \in Sessions
    /\ ParityGood(x)
    /\ ~x.server => x.available = {}
    /\ SessionConsistent(x)
    /\ FramesGood(x)
    /\ \A i \in Ids : StreamGood(x, i, ended)
    /\ \A i \in Ids : x.server /\ Seen(x, i) => i \in known

Tidy(x) == \A i \in Ids : StreamTidy(x, i)

\* What a method may have done to a session, as far as the peer can tell.
PeerGrows(x, y) ==
    /\ x.largestPeer <= y.largestPeer
    /\ \A i \in y.available : i \in x.available \/ i <= y.largestPeer

Goes(x, y) ==
    /\ y.server = x.server
    /\ x.nextOutgoing <= y.nextOutgoing
    /\ Len(x.headersOut) <= Len(y.headersOut)
    /\ Ended(x) \subseteq Ended(y)
    /\ \A i \in Ids : IsClosedStream(x, i) => IsClosedStream(y, i)
    /\ \A i \in Ids : Seen(x, i) => Seen(y, i)
    /\ \A i \in Ids : Seen(x, i) /\ i \in CountedOpen(y) => i \in CountedOpen(x)
    /\ PeerGrows(x, y)

\* The same, when it has opened no stream of its own.
Follows(x, y) == Goes(x, y) /\ y.nextOutgoing = x.nextOutgoing

-----------------------------------------------------------------------------
\* The types of the fields of a session.
LEMMA Fields ==
  ASSUME NEW x \in Sessions
  PROVE  /\ x.server \in BOOLEAN /\ x.connected \in BOOLEAN
         /\ x.dynamic \in SUBSET Ids /\ x.draining \in SUBSET Ids
         /\ x.locallyClosed \in SUBSET Ids /\ x.available \in SUBSET Ids
         /\ x.largestPeer \in Nat /\ x.nextOutgoing \in Nat
         /\ x.numDynamicIn \in Nat /\ x.numDrainingIn \in Nat
         /\ x.numLocallyClosedIn \in Nat
         /\ x.stream \in [Ids -> Streams]
         /\ x.headersOut \in Seq([id : Ids, fin : BOOLEAN])
         /\ x.frames \in SUBSET Frames
         /\ x.log \in [Ids -> Nat]
BY Zenon DEF Sessions, Frames

\* The elements of a sequence.
LEMMA ElementIn ==
  ASSUME NEW S, NEW s \in Seq(S), NEW k \in 1..Len(s) PROVE s[k] \in S
OBVIOUS

\* The streams named on the headers stream.
LEMMA HeaderIds ==
  ASSUME NEW x \in Sessions
  PROVE  \A k \in 1..Len(x.headersOut) : x.headersOut[k].id \in Ids
<1>1. x.headersOut \in Seq([id : Ids, fin : BOOLEAN])
  BY Zenon, Fields
<1>2. ASSUME NEW k \in 1..Len(x.headersOut) PROVE x.headersOut[k].id \in Ids
  <2>1. x.headersOut[k] \in [id : Ids, fin : BOOLEAN]
    BY Zenon, <1>1, <1>2, ElementIn
  <2> QED BY <2>1
<1> QED BY Zenon, <1>2

\* The peer has named no new stream.
LEMMA PeerSame ==
  ASSUME NEW x \in Sessions, NEW y, y.largestPeer = x.largestPeer,
         y.available \subseteq x.available
  PROVE  PeerGrows(x, y)
<1>1. x.largestPeer \in Nat
  BY Zenon, Fields
<1>2. x.largestPeer <= y.largestPeer
  BY <1>1
<1> QED BY Zenon, <1>2 DEF PeerGrows

\* Stream i is in the same state in both sessions.
SameStream(x, y, i) ==
    /\ y.server = x.server /\ (y.connected => x.connected)
    /\ i \in y.dynamic <=> i \in x.dynamic
    /\ i \in y.draining <=> i \in x.draining
    /\ i \in y.locallyClosed <=> i \in x.locallyClosed
    /\ Seen(y, i) <=> Seen(x, i)
    /\ y.stream[i] = x.stream[i] /\ y.log[i] = x.log[i]
    /\ RstFramed(y, i) <=> RstFramed(x, i)
    /\ Rst(i, "REFUSED") \in y.frames <=> Rst(i, "REFUSED") \in x.frames

\* What is said of a stream depends on its state only.
LEMMA SameStreamGood ==
  ASSUME NEW x, NEW y, NEW i \in Ids, NEW ended, SameStream(x, y, i)
  PROVE  /\ StreamGood(x, i, ended) => StreamGood(y, i, ended)
         /\ StreamTidy(x, i) => StreamTidy(y, i)
<1>1. StreamGood(x, i, ended) => StreamGood(y, i, ended)
  BY Zenon DEF SameStream, StreamGood, Chunks
<1>2. StreamTidy(x, i) => StreamTidy(y, i)
  BY Zenon DEF SameStream, StreamTidy, Unfinished
<1> QED BY Zenon, <1>1, <1>2

\* Which streams are incoming depends on the role of the session.
LEMMA SameCounting ==
  ASSUME NEW x, NEW y, y.server = x.server, y.nextOutgoing = x.nextOutgoing
  PROVE  /\ ParityGood(x) => ParityGood(y)
         /\ \A S : Incoming(y, S) = Incoming(x, S)
<1>1. ParityGood(x) => ParityGood(y)
  BY Zenon DEF ParityGood
<1>2. \A S : Incoming(y, S) = Incoming(x, S)
  BY Zenon DEF Incoming, IsIncomingStream
<1> QED BY Zenon, <1>1, <1>2

\* The streams of a server are incoming and those of a client outgoing
\* (QuicSession::IsIncomingStream).
LEMMA IncomingIs ==
  ASSUME NEW x, ParityGood(x), x.server \in BOOLEAN
  PROVE  /\ \A i \in Ids : IsIncomingStream(x, i) <=> x.server
         /\ \A S \in SUBSET Ids : Incoming(x, S) = IF x.server THEN S ELSE {}
<1>1. \A i \in Ids : i % 2 = 1
  BY IdsAssumption
<1>2. \A i \in Ids : IsIncomingStream(x, i) <=> x.server
  BY <1>1 DEF IsIncomingStream, ParityGood
<1> QED BY Zenon, <1>2 DEF Incoming

\* A stream is closed when it was opened and is no more.
LEMMA ClosedIs ==
  ASSUME NEW x, ParityGood(x), x.server \in BOOLEAN, NEW i \in Ids
  PROVE  IsClosedStream(x, i) <=> i \notin x.dynamic /\ Seen(x, i)
BY Zenon, IncomingIs DEF IsClosedStream, Seen

\* Sets of ids are finite, so that the counters are numbers.
LEMMA Counts ==
  ASSUME NEW x, ParityGood(x), x.server \in BOOLEAN, NEW A \in SUBSET Ids,
         NEW B \in SUBSET Ids
  PROVE  LET n(S) == Cardinality(Incoming(x, S))
         IN /\ n(A) \in Nat /\ n(B) \in Nat
            /\ n(A \ B) = n(A) - n(A \cap B)
            /\ A \cap B = {} => n(A \cup B) = n(A) + n(B)
<1>1. IsFiniteSet(A) /\ IsFiniteSet(B) /\ IsFiniteSet(A \cap B)
  BY IdsAssumption, FS_Subset, FS_Intersection
<1>2. /\ Cardinality(A) \in Nat /\ Cardinality(B) \in Nat
      /\ Cardinality({}) = 0
  BY <1>1, FS_CardinalityType, FS_EmptySet
<1>3. Cardinality(A \ B) = Cardinality(A) - Cardinality(A \cap B)
  BY <1>1, FS_Difference
<1>4. A \cap B = {} => Cardinality(A \cup B) = Cardinality(A) + Cardinality(B)
  <2>1. Cardinality(A \cup B) =
          Cardinality(A) + Cardinality(B) - Cardinality(A \cap B)
    BY <1>1, FS_Union
  <2>2. A \cap B = {} => Cardinality(A \cap B) = 0
    BY Zenon, <1>2
  <2> QED BY <1>2, <2>1, <2>2
<1>5. A \ B \in SUBSET Ids /\ A \cup B \in SUBSET Ids /\ A \cap B \in SUBSET Ids
  OBVIOUS
<1>6. CASE x.server
  <2>1. \A S \in SUBSET Ids : Incoming(x, S) = S
    BY Zenon, <1>6, IncomingIs
  <2> QED BY <1>2, <1>3, <1>4, <1>5, <2>1
<1>7. CASE ~x.server
  <2>1. /\ Incoming(x, A) = {} /\ Incoming(x, B) = {}
        /\ Incoming(x, A \ B) = {} /\ Incoming(x, A \cup B) = {}
        /\ Incoming(x, A \cap B) = {}
    BY Zenon, <1>5, <1>7, IncomingIs
  <2>2. /\ Cardinality(Incoming(x, A)) = 0 /\ Cardinality(Incoming(x, B)) = 0
        /\ Cardinality(Incoming(x, A \ B)) = 0
        /\ Cardinality(Incoming(x, A \cup B)) = 0
        /\ Cardinality(Incoming(x, A \cap B)) = 0
    BY Zenon, <1>2, <2>1
  <2> QED BY <2>2
<1> QED BY Zenon, <1>6, <1>7

-----------------------------------------------------------------------------
\* Closing streams.

\* The streams that CloseStreams closes, those it does not know the final
\* offset of, and those it sends a RST_STREAM for.
Closing(x, S) == S \cap x.dynamic
ClosingUnknown(x, S) ==
    {i \in Closing(x, S) : ~HasFinalReceivedByteOffset(x.stream[i])}
ClosingReset(x, S, lr) ==
    {i \in Closing(x, S) : ~x.stream[i].finSent /\ ~x.stream[i].rstSent /\ ~lr}

\* The end of stream i is known to the peer once it is closed.
CanClose(x, i, lr) ==
    /\ Rst(i, "REFUSED") \notin x.frames
    /\ x.connected => \/ x.stream[i].finSent \/ RstFramed(x, i)
                      \/ ~lr /\ ~x.stream[i].rstSent

AllCanClose(x, S, lr) == \A i \in Closing(x, S) : CanClose(x, i, lr)

ClosedAll(x, y, S, known, ended) ==
    /\ SessionGood(y, known, ended) /\ Follows(x, y)
    /\ \A i \in Ids : StreamTidy(x, i) \/ i \in S => StreamTidy(y, i)

\* The result of CloseStreams is made of the right fields.
LEMMA CloseStreamsType ==
  ASSUME NEW x \in Sessions, NEW S, NEW lr \in BOOLEAN, NEW y,
         y = CloseStreams(x, S, lr),
         y.dynamic \in SUBSET Ids, y.draining \in SUBSET Ids,
         y.locallyClosed \in SUBSET Ids, y.numDynamicIn \in Nat,
         y.numDrainingIn \in Nat, y.numLocallyClosedIn \in Nat,
         y.stream \in [Ids -> Streams], y.log \in [Ids -> Nat],
         y.frames \in SUBSET Frames
  PROVE  y \in Sessions
<1>1. y = [x EXCEPT !.dynamic = y.dynamic, !.draining = y.draining,
             !.locallyClosed = y.locallyClosed, !.numDynamicIn = y.numDynamicIn,
             !.numDrainingIn = y.numDrainingIn,
             !.numLocallyClosedIn = y.numLocallyClosedIn, !.stream = y.stream,
             !.frames = y.frames, !.log = y.log]
  BY Zenon DEF CloseStreams, Sessions
<1> QED BY Zenon, <1>1 DEF Sessions, Frames

\* The stream records and the log after CloseStreams.
LEMMA CloseStreamsStreams ==
  ASSUME NEW x \in Sessions, NEW S, NEW lr \in BOOLEAN, NEW i \in Ids
  PROVE  LET y == CloseStreams(x, S, lr)
         IN /\ y.stream \in [Ids -> Streams] /\ y.log \in [Ids -> Nat]
            /\ i \notin Closing(x, S) =>
                    y.stream[i] = x.stream[i] /\ y.log[i] = x.log[i]
            /\ i \in Closing(x, S) =>
                    y.log[i] = IF x.server THEN x.log[i] + 1 ELSE x.log[i]
            /\ y.stream[i].finSent = x.stream[i].finSent
            /\ y.stream[i].finBuffered = x.stream[i].finBuffered
            /\ y.stream[i].finReceived = x.stream[i].finReceived
            /\ y.stream[i].rstReceived = x.stream[i].rstReceived
            /\ y.stream[i].close = x.stream[i].close
            /\ y.stream[i].written = x.stream[i].written
            /\ x.stream[i].readClosed => y.stream[i].readClosed
            /\ i \in Closing(x, S) =>
                    y.stream[i].readClosed /\ y.stream[i].writeClosed
<1> DEFINE y == CloseStreams(x, S, lr)
           marked(j) == [x.stream[j] EXCEPT !.readClosed = TRUE, !.writeClosed = TRUE,
                           !.rstSent = @ \/ lr \/ j \in ClosingReset(x, S, lr)]
<1>1. x.stream \in [Ids -> Streams] /\ x.log \in [Ids -> Nat] /\ x.server \in BOOLEAN
  BY Zenon, Fields
<1>2. /\ y.stream = [j \in Ids |-> IF j \in Closing(x, S) THEN marked(j)
                                   ELSE x.stream[j]]
      /\ y.log = [j \in Ids |-> IF x.server /\ j \in Closing(x, S)
                                THEN x.log[j] + 1 ELSE x.log[j]]
  BY Zenon DEF CloseStreams, Sessions, Closing, ClosingUnknown, ClosingReset
<1>3. ASSUME NEW j \in Ids
      PROVE  /\ marked(j) \in Streams
             /\ marked(j).finSent = x.stream[j].finSent
             /\ marked(j).finBuffered = x.stream[j].finBuffered
             /\ marked(j).finReceived = x.stream[j].finReceived
             /\ marked(j).rstReceived = x.stream[j].rstReceived
             /\ marked(j).close = x.stream[j].close
             /\ marked(j).written = x.stream[j].written
             /\ marked(j).readClosed /\ marked(j).writeClosed
  <2>1. x.stream[j] \in Streams
    BY Zenon, <1>1
  <2> DEFINE r == x.stream[j].rstSent \/ lr \/ j \in ClosingReset(x, S, lr)
  <2>2. r \in BOOLEAN
    BY Zenon
  <2>3. marked(j) = [x.stream[j] EXCEPT !.readClosed = TRUE, !.writeClosed = TRUE,
                                        !.rstSent = r]
    BY Zenon
  <2> HIDE DEF r, marked
  <2> QED BY Zenon, <2>1, <2>2, <2>3 DEF Streams
<1> HIDE DEF y, marked
<1>4. y.stream \in [Ids -> Streams]
  <2>1. \A j \in Ids : marked(j) \in Streams /\ x.stream[j] \in Streams
    BY Zenon, <1>1, <1>3
  <2> QED BY <1>2, <2>1
<1>5. y.log \in [Ids -> Nat]
  BY <1>1, <1>2
<1>6. /\ y.stream[i] = IF i \in Closing(x, S) THEN marked(i) ELSE x.stream[i]
      /\ y.log[i] = IF x.server /\ i \in Closing(x, S)
                    THEN x.log[i] + 1 ELSE x.log[i]
  BY Zenon, <1>2
<1> QED BY Zenon, <1>3, <1>4, <1>5, <1>6 DEF y

\* The counters after CloseStreams equal what they count.
LEMMA CloseStreamsCounts ==
  ASSUME NEW x \in Sessions, ParityGood(x), SessionConsistent(x), NEW S,
         NEW lr \in BOOLEAN
  PROVE  LET y == CloseStreams(x, S, lr)
         IN /\ SessionConsistent(y) /\ ParityGood(y)
            /\ y.numDynamicIn \in Nat /\ y.numDrainingIn \in Nat
            /\ y.numLocallyClosedIn \in Nat
<1> DEFINE y == CloseStreams(x, S, lr)
           c == Closing(x, S)
           u == ClosingUnknown(x, S)
           n(T) == Cardinality(Incoming(x, T))
<1>1. /\ x.dynamic \in SUBSET Ids /\ x.draining \in SUBSET Ids
      /\ x.locallyClosed \in SUBSET Ids /\ x.server \in BOOLEAN
      /\ c \in SUBSET Ids /\ u \in SUBSET Ids /\ u \subseteq c /\ c \subseteq x.dynamic
  BY Zenon, Fields DEF Closing, ClosingUnknown
<1>2. /\ y.server = x.server /\ y.nextOutgoing = x.nextOutgoing
      /\ y.dynamic = x.dynamic \ c /\ y.draining = x.draining \ c
      /\ y.locallyClosed = x.locallyClosed \cup u /\ y.available = x.available
      /\ y.numDynamicIn = x.numDynamicIn - n(c)
      /\ y.numDrainingIn = x.numDrainingIn - n(c \cap x.draining)
      /\ y.numLocallyClosedIn = x.numLocallyClosedIn + n(u)
  BY Zenon DEF CloseStreams, Sessions, Closing, ClosingUnknown, ClosingReset
<1> HIDE DEF y, c, u
<1>3. /\ x.numDynamicIn = n(x.dynamic) /\ x.numDrainingIn = n(x.draining)
      /\ x.numLocallyClosedIn = n(x.locallyClosed)
      /\ x.draining \subseteq x.dynamic /\ x.locallyClosed \cap x.dynamic = {}
      /\ x.available \cap (x.dynamic \cup x.locallyClosed) = {}
  BY Zenon DEF SessionConsistent
<1>4. ParityGood(y)
  BY Zenon, <1>2 DEF ParityGood
<1>5. \A T : Incoming(y, T) = Incoming(x, T)
  BY Zenon, <1>2 DEF Incoming, IsIncomingStream
<1>6. n(x.dynamic \ c) = n(x.dynamic) - n(c) /\ n(x.dynamic \ c) \in Nat
  <2>1. x.dynamic \cap c = c /\ x.dynamic \ c \in SUBSET Ids
    BY <1>1
  <2>2. n(x.dynamic \ c) = n(x.dynamic) - n(x.dynamic \cap c)
    BY <1>1, Counts
  <2>3. n(x.dynamic \ c) \in Nat
    BY <1>1, <2>1, Counts
  <2> QED BY Zenon, <2>1, <2>2, <2>3
<1>7. n(x.draining \ c) = n(x.draining) - n(c \cap x.draining)
        /\ n(x.draining \ c) \in Nat
  <2>1. x.draining \cap c = c \cap x.draining /\ x.draining \ c \in SUBSET Ids
    BY <1>1
  <2>2. n(x.draining \ c) = n(x.draining) - n(x.draining \cap c)
    BY <1>1, Counts
  <2>3. n(x.draining \ c) \in Nat
    BY <1>1, <2>1, Counts
  <2> QED BY Zenon, <2>1, <2>2, <2>3
<1>8. n(x.locallyClosed \cup u) = n(x.locallyClosed) + n(u)
        /\ n(x.locallyClosed \cup u) \in Nat
  <2>1. x.locallyClosed \cap u = {} /\ x.locallyClosed \cup u \in SUBSET Ids
    BY <1>1, <1>3
  <2>2. n(x.locallyClosed \cup u) = n(x.locallyClosed) + n(u)
    BY <1>1, <2>1, Counts
  <2>3. n(x.locallyClosed \cup u) \in Nat
    BY <1>1, <2>1, Counts
  <2> QED BY Zenon, <2>2, <2>3
<1>9. /\ y.draining \subseteq y.dynamic
      /\ y.locallyClosed \cap y.dynamic = {}
      /\ y.available \cap (y.dynamic \cup y.locallyClosed) = {}
  BY <1>1, <1>2, <1>3
<1>10. /\ y.numDynamicIn = Cardinality(Incoming(y, y.dynamic))
       /\ y.numDrainingIn = Cardinality(Incoming(y, y.draining))
       /\ y.numLocallyClosedIn = Cardinality(Incoming(y, y.locallyClosed))
  BY Zenon, <1>2, <1>3, <1>5, <1>6, <1>7, <1>8
<1>11. /\ y.numDynamicIn \in Nat /\ y.numDrainingIn \in Nat
       /\ y.numLocallyClosedIn \in Nat
  BY Zenon, <1>2, <1>3, <1>6, <1>7, <1>8
<1>12. SessionConsistent(y)
  BY Zenon, <1>9, <1>10 DEF SessionConsistent
<1> QED BY Zenon, <1>4, <1>11, <1>12 DEF y

\* The parts of a RST_STREAM frame.
LEMMA RstFacts ==
  ASSUME NEW i \in Ids, NEW c \in RstCodes
  PROVE  /\ Rst(i, c).id = i /\ Rst(i, c).type = c /\ Rst(i, c).type # "STREAM"
         /\ Rst(i, c) \in Frames
BY DEF Rst, RstCodes, Frames

\* The codes of RST_STREAM.
LEMMA Codes ==
  /\ "REFUSED" \in RstCodes /\ "CANCELLED" \in RstCodes
  /\ "ACKNOWLEDGEMENT" \in RstCodes
BY DEF RstCodes

\* The frames sent after CloseStreams.
LEMMA CloseStreamsSent ==
  ASSUME NEW x \in Sessions, NEW S, NEW lr \in BOOLEAN
  PROVE  LET y == CloseStreams(x, S, lr)
         IN /\ y.frames \in SUBSET Frames
            /\ x.frames \subseteq y.frames
            /\ ~x.connected => y.frames = x.frames
            /\ x.connected => \A j \in ClosingReset(x, S, lr) :
                                 Rst(j, "ACKNOWLEDGEMENT") \in y.frames
            /\ \A f \in y.frames : f \in x.frames \/
                  \E j \in ClosingReset(x, S, lr) : f = Rst(j, "ACKNOWLEDGEMENT")
<1> DEFINE y == CloseStreams(x, S, lr)
           R == ClosingReset(x, S, lr)
<1>1. y.frames = IF x.connected
                 THEN x.frames \cup {Rst(j, "ACKNOWLEDGEMENT") : j \in R}
                 ELSE x.frames
  BY Zenon DEF CloseStreams, Sessions, Closing, ClosingReset
<1>2. R \subseteq Ids /\ x.connected \in BOOLEAN /\ x.frames \in SUBSET Frames
  BY Zenon, Fields DEF Closing, ClosingReset
<1>3. \A j \in R : Rst(j, "ACKNOWLEDGEMENT") \in Frames
  BY <1>2, RstFacts, Codes
<1> HIDE DEF y, R
<1>4. /\ y.frames \in SUBSET Frames
      /\ x.frames \subseteq y.frames
      /\ ~x.connected => y.frames = x.frames
      /\ x.connected => \A j \in R : Rst(j, "ACKNOWLEDGEMENT") \in y.frames
      /\ \A f \in y.frames : f \in x.frames \/
              \E j \in R : f = Rst(j, "ACKNOWLEDGEMENT")
  BY <1>1, <1>2, <1>3
<1> QED BY Zenon, <1>4 DEF y, R

\* Which streams have a RST_STREAM after CloseStreams.
LEMMA CloseStreamsFrames ==
  ASSUME NEW x \in Sessions, NEW S, NEW lr \in BOOLEAN, NEW i \in Ids
  PROVE  LET y == CloseStreams(x, S, lr)
         IN /\ RstFramed(y, i) <=>
                  RstFramed(x, i) \/ (x.connected /\ i \in ClosingReset(x, S, lr))
            /\ Rst(i, "REFUSED") \in y.frames <=> Rst(i, "REFUSED") \in x.frames
<1> DEFINE y == CloseStreams(x, S, lr)
           R == ClosingReset(x, S, lr)
<1>1. /\ x.frames \subseteq y.frames
      /\ ~x.connected => y.frames = x.frames
      /\ x.connected => \A j \in R : Rst(j, "ACKNOWLEDGEMENT") \in y.frames
      /\ \A f \in y.frames : f \in x.frames \/ \E j \in R : f = Rst(j, "ACKNOWLEDGEMENT")
  BY Zenon, CloseStreamsSent
<1>2. R \subseteq Ids /\ x.connected \in BOOLEAN
  BY Zenon, Fields DEF Closing, ClosingReset
<1>3. \A j \in R : Rst(j, "ACKNOWLEDGEMENT").id = j
                    /\ Rst(j, "ACKNOWLEDGEMENT").type = "ACKNOWLEDGEMENT"
  BY <1>2, RstFacts, Codes
<1>4. Rst(i, "REFUSED").type = "REFUSED"
  BY RstFacts, Codes
<1> HIDE DEF y, R
<1>5. RstFramed(y, i) <=> RstFramed(x, i) \/ (x.connected /\ i \in R)
  <2>1. ASSUME RstFramed(y, i) PROVE RstFramed(x, i) \/ (x.connected /\ i \in R)
    <3>1. PICK f \in y.frames : f.id = i /\ f.type \in RstCodes
      BY Zenon, <2>1 DEF RstFramed
    <3>2. CASE f \in x.frames
      BY Zenon, <3>1, <3>2 DEF RstFramed
    <3>3. CASE f \notin x.frames
      BY ZenonT(30), <1>1, <1>3, <3>1, <3>3
    <3> QED BY Zenon, <3>2, <3>3
  <2>2. ASSUME RstFramed(x, i) PROVE RstFramed(y, i)
    BY Zenon, <1>1, <2>2 DEF RstFramed
  <2>3. ASSUME x.connected, i \in R PROVE RstFramed(y, i)
    BY Zenon, <1>1, <1>3, <2>3, Codes DEF RstFramed
  <2> QED BY Zenon, <2>1, <2>2, <2>3
<1>6. Rst(i, "REFUSED") \in y.frames <=> Rst(i, "REFUSED") \in x.frames
  <2>1. \A j \in R : Rst(j, "ACKNOWLEDGEMENT") # Rst(i, "REFUSED")
    BY <1>3, <1>4
  <2> QED BY Zenon, <1>1, <2>1
<1> QED BY Zenon, <1>5, <1>6 DEF y, R

\* CloseStreamInner with QuicStream::OnClose keeps a session in order, and
\* leaves the streams of S closed.
LEMMA CloseStreamsGood ==
  ASSUME NEW x, NEW known, NEW ended, SessionGood(x, known, ended), NEW S,
         NEW lr \in BOOLEAN, AllCanClose(x, S, lr)
  PROVE  ClosedAll(x, CloseStreams(x, S, lr), S, known, ended)
<1> DEFINE y == CloseStreams(x, S, lr)
           c == Closing(x, S)
           u == ClosingUnknown(x, S)
<1>1. /\ x \in Sessions /\ ParityGood(x) /\ SessionConsistent(x) /\ FramesGood(x)
      /\ ~x.server => x.available = {}
      /\ \A i \in Ids : StreamGood(x, i, ended)
      /\ \A i \in Ids : x.server /\ Seen(x, i) => i \in known
  BY Zenon DEF SessionGood
<1>2. /\ x.dynamic \in SUBSET Ids /\ x.draining \in SUBSET Ids
      /\ x.locallyClosed \in SUBSET Ids /\ x.server \in BOOLEAN
      /\ x.connected \in BOOLEAN /\ x.stream \in [Ids -> Streams]
      /\ x.log \in [Ids -> Nat]
      /\ c \in SUBSET Ids /\ u \subseteq c /\ c \subseteq x.dynamic
  BY Zenon, <1>1, Fields DEF Closing, ClosingUnknown
<1>3. /\ y.server = x.server /\ y.nextOutgoing = x.nextOutgoing
      /\ y.dynamic = x.dynamic \ c /\ y.draining = x.draining \ c
      /\ y.locallyClosed = x.locallyClosed \cup u /\ y.available = x.available
      /\ y.largestPeer = x.largestPeer /\ y.connected = x.connected
      /\ y.headersOut = x.headersOut
  BY Zenon, <1>1 DEF CloseStreams, Sessions, Closing, ClosingUnknown
<1>4. \A i \in Ids : Seen(y, i) <=> Seen(x, i)
  BY Zenon, <1>3 DEF Seen
<1>5. SessionConsistent(y) /\ ParityGood(y)
      /\ y.numDynamicIn \in Nat /\ y.numDrainingIn \in Nat
      /\ y.numLocallyClosedIn \in Nat
  BY Zenon, <1>1, CloseStreamsCounts
<1>6. ASSUME NEW i \in Ids
      PROVE  /\ y.stream \in [Ids -> Streams] /\ y.log \in [Ids -> Nat]
             /\ i \notin c => y.stream[i] = x.stream[i] /\ y.log[i] = x.log[i]
             /\ i \in c => y.log[i] = IF x.server THEN x.log[i] + 1 ELSE x.log[i]
             /\ y.stream[i].finSent = x.stream[i].finSent
             /\ y.stream[i].finBuffered = x.stream[i].finBuffered
             /\ y.stream[i].finReceived = x.stream[i].finReceived
             /\ y.stream[i].rstReceived = x.stream[i].rstReceived
             /\ y.stream[i].close = x.stream[i].close
             /\ y.stream[i].written = x.stream[i].written
  BY <1>1, CloseStreamsStreams
<1>7. ASSUME NEW i \in Ids
      PROVE  /\ RstFramed(x, i) => RstFramed(y, i)
             /\ i \notin c => (RstFramed(y, i) <=> RstFramed(x, i))
             /\ i \in c /\ x.connected => x.stream[i].finSent \/ RstFramed(y, i)
             /\ Rst(i, "REFUSED") \in y.frames <=> Rst(i, "REFUSED") \in x.frames
             /\ i \in c => Rst(i, "REFUSED") \notin x.frames
             /\ i \in c => (i \in u <=> ~x.stream[i].finReceived
                                         /\ ~x.stream[i].rstReceived)
  <2>1. /\ RstFramed(y, i) <=>
             RstFramed(x, i) \/ (x.connected /\ i \in ClosingReset(x, S, lr))
        /\ Rst(i, "REFUSED") \in y.frames <=> Rst(i, "REFUSED") \in x.frames
    BY Zenon, <1>1, CloseStreamsFrames
  <2> HIDE DEF y
  <2> QED BY Zenon, <2>1 DEF AllCanClose, CanClose, ClosingReset, ClosingUnknown,
                             HasFinalReceivedByteOffset
<1>8. /\ y.frames \in SUBSET Frames
      /\ \A f \in y.frames : f \in x.frames \/
              \E j \in c : f = Rst(j, "ACKNOWLEDGEMENT")
  <2>1. \A i \in ClosingReset(x, S, lr) : i \in c
    BY Zenon DEF ClosingReset
  <2>2. /\ y.frames \in SUBSET Frames
        /\ \A f \in y.frames : f \in x.frames \/
              \E j \in ClosingReset(x, S, lr) : f = Rst(j, "ACKNOWLEDGEMENT")
    BY Zenon, <1>1, CloseStreamsSent
  <2> HIDE DEF y, c
  <2> QED BY Zenon, <2>1, <2>2
<1> HIDE DEF y, c, u
<1>9. y \in Sessions
  <2>1. /\ y.dynamic \in SUBSET Ids /\ y.draining \in SUBSET Ids
        /\ y.locallyClosed \in SUBSET Ids
    BY Zenon, <1>2, <1>3
  <2>2. y.stream \in [Ids -> Streams] /\ y.log \in [Ids -> Nat]
    <3>1. ASSUME Ids = {} PROVE y.stream \in [Ids -> Streams] /\ y.log \in [Ids -> Nat]
      <4>1. /\ y.stream = [i \in Ids |-> y.stream[i]]
            /\ y.log = [i \in Ids |-> y.log[i]]
        BY <1>1 DEF CloseStreams, Sessions, y
      <4> QED BY <3>1, <4>1
    <3> QED BY Zenon, <1>6, <3>1
  <2> QED BY <1>1, <1>5, <1>8, <2>1, <2>2, CloseStreamsType DEF y
<1>10. ASSUME NEW i \in Ids PROVE StreamGood(y, i, ended)
  <2>1. StreamGood(x, i, ended)
    BY Zenon, <1>1
  <2>2. CASE i \notin c
    <3>1. /\ i \in y.dynamic <=> i \in x.dynamic
          /\ i \in y.draining <=> i \in x.draining
          /\ i \in y.locallyClosed <=> i \in x.locallyClosed
      BY Zenon, <1>2, <1>3, <2>2
    <3> QED BY Zenon, <1>3, <1>4, <1>6, <1>7, <2>1, <2>2, <3>1, SameStreamGood
               DEF SameStream
  <2>3. CASE i \in c
    <3>1. i \in x.dynamic /\ i \notin y.dynamic /\ i \notin y.draining /\ Seen(x, i)
      BY Zenon, <1>2, <1>3, <2>1, <2>3 DEF StreamGood
    <3>2. x.server => y.log[i] = 1
      <4>1. x.server => x.log[i] = 0
        BY Zenon, <2>1, <3>1 DEF StreamGood
      <4> QED BY <1>6, <2>3, <4>1
    <3>3. Seen(y, i) /\ Rst(i, "REFUSED") \notin y.frames
      BY Zenon, <1>4, <1>7, <2>3, <3>1
    <3>4. x.connected => y.stream[i].finSent \/ RstFramed(y, i)
      BY Zenon, <1>6, <1>7, <2>3
    <3>5. Heard(y.stream[i]) => i \in ended
      BY Zenon, <1>6, <2>1 DEF StreamGood, Heard
    <3>6. i \in y.locallyClosed \/ i \in ended
      <4>1. x.stream[i].finReceived \/ x.stream[i].rstReceived => i \in ended
        BY Zenon, <2>1 DEF StreamGood, Heard
      <4>2. i \in u \/ x.stream[i].finReceived \/ x.stream[i].rstReceived
        BY Zenon, <1>7, <2>3
      <4> QED BY Zenon, <1>3, <4>1, <4>2
    <3>7. /\ y.stream[i].written <= Chunks(y)
          /\ ~y.stream[i].finBuffered => y.stream[i].written = 0
      BY Zenon, <1>3, <1>6, <2>1 DEF StreamGood, Chunks
    <3> QED BY Zenon, <1>3, <3>1, <3>2, <3>3, <3>4, <3>5, <3>6, <3>7 DEF StreamGood
  <2> QED BY Zenon, <2>2, <2>3
<1>11. FramesGood(y)
  <2>1. \A f \in x.frames : f.id \in Ids
    BY Zenon, <1>1, Fields DEF Frames
  <2>2. \A k \in 1..Len(x.headersOut) : x.headersOut[k].id \in Ids
    BY Zenon, <1>1, HeaderIds
  <2>3. \A j \in c : /\ Rst(j, "ACKNOWLEDGEMENT").id = j
                     /\ Rst(j, "ACKNOWLEDGEMENT").type # "STREAM"
    BY <1>2, RstFacts, Codes
  <2>4. ASSUME NEW f \in y.frames
        PROVE  Seen(y, f.id) /\ (f.type = "STREAM" /\ f.fin => y.stream[f.id].finSent)
    <3>1. CASE f \in x.frames
      BY Zenon, <1>1, <1>4, <1>6, <2>1, <3>1 DEF FramesGood
    <3>2. ASSUME NEW j \in c, f = Rst(j, "ACKNOWLEDGEMENT")
          PROVE  Seen(y, f.id) /\ (f.type = "STREAM" /\ f.fin => y.stream[f.id].finSent)
      <4>1. StreamGood(x, j, ended) /\ j \in x.dynamic /\ j \in Ids
        BY Zenon, <1>1, <1>2
      <4>2. Seen(y, j)
        BY Zenon, <1>4, <4>1 DEF StreamGood
      <4> QED BY Zenon, <2>3, <3>2, <4>2
    <3> QED BY Zenon, <1>8, <3>1, <3>2
  <2>5. ASSUME NEW k \in 1..Len(y.headersOut)
        PROVE  /\ Seen(y, y.headersOut[k].id)
               /\ y.headersOut[k].fin => y.stream[y.headersOut[k].id].finSent
    BY Zenon, <1>1, <1>3, <1>4, <1>6, <2>2 DEF FramesGood
  <2> QED BY Zenon, <2>4, <2>5 DEF FramesGood
<1>12. SessionGood(y, known, ended)
  <2>1. ~y.server => y.available = {}
    BY Zenon, <1>1, <1>3
  <2>2. \A i \in Ids : y.server /\ Seen(y, i) => i \in known
    BY Zenon, <1>1, <1>3, <1>4
  <2> QED BY Zenon, <1>5, <1>9, <1>10, <1>11, <2>1, <2>2 DEF SessionGood
<1>13. Follows(x, y)
  <2>1. x.nextOutgoing \in Nat /\ Len(x.headersOut) \in Nat
    BY <1>1, Fields
  <2>2. x.nextOutgoing <= y.nextOutgoing /\ Len(x.headersOut) <= Len(y.headersOut)
    BY <1>3, <2>1
  <2>3. Ended(x) \subseteq Ended(y)
    BY Zenon, <1>6, <1>7 DEF Ended
  <2>4. \A i \in Ids : IsClosedStream(x, i) => IsClosedStream(y, i)
    BY Zenon, <1>1, <1>2, <1>3, <1>4, <1>5, ClosedIs
  <2>5. ASSUME NEW i \in Ids, i \in CountedOpen(y) PROVE i \in CountedOpen(x)
    <3>1. CASE i \in u
      <4>1. ~x.stream[i].finReceived /\ i \in x.dynamic
        BY Zenon, <1>2, <3>1 DEF u, ClosingUnknown, HasFinalReceivedByteOffset
      <4>2. i \notin x.draining
        BY Zenon, <1>1, <4>1 DEF StreamGood
      <4> QED BY Zenon, <4>1, <4>2 DEF CountedOpen
    <3>2. CASE i \notin u
      BY Zenon, <1>3, <2>5, <3>2 DEF CountedOpen
    <3> QED BY Zenon, <3>1, <3>2
  <2>6. PeerGrows(x, y)
    BY Zenon, <1>1, <1>3, PeerSame
  <2> QED BY Zenon, <1>3, <1>4, <2>2, <2>3, <2>4, <2>5, <2>6 DEF Follows, Goes
<1>14. ASSUME NEW i \in Ids, StreamTidy(x, i) \/ i \in S PROVE StreamTidy(y, i)
  <2>1. i \in y.dynamic => i \in x.dynamic /\ i \notin c
    BY Zenon, <1>3
  <2>2. i \in S /\ i \in x.dynamic => i \in c
    BY Zenon DEF c, Closing
  <2> QED BY Zenon, <1>3, <1>6, <1>7, <1>14, <2>1, <2>2 DEF StreamTidy, Unfinished
<1> QED BY Zenon, <1>12, <1>13, <1>14 DEF y, ClosedAll

-----------------------------------------------------------------------------
\* Methods that change one stream.

\* What a method may have done to one stream, as far as the peer can tell.
StreamFollows(x, y, i) ==
    /\ Seen(x, i) => Seen(y, i)
    /\ Seen(x, i) /\ i \notin x.dynamic => i \notin y.dynamic
    /\ Seen(x, i) /\ i \in CountedOpen(y) => i \in CountedOpen(x)
    /\ x.stream[i].finSent => y.stream[i].finSent
    /\ RstFramed(x, i) => RstFramed(y, i)

\* What a method at work on the streams of T leaves alone, and that it
\* forgets nothing that it has told the peer.
OnlyStreams(x, y, T) ==
    /\ y \in Sessions /\ ParityGood(y) /\ SessionConsistent(y)
    /\ ~y.server => y.available = {}
    /\ y.server = x.server /\ x.nextOutgoing <= y.nextOutgoing
    /\ \A i \in Ids \ T : SameStream(x, y, i)
    /\ PeerGrows(x, y)
    /\ \A i \in T : StreamFollows(x, y, i)
    /\ \A f \in y.frames :
          \/ f \in x.frames
          \/ /\ f.id \in T /\ Seen(y, f.id)
             /\ f.type = "STREAM" /\ f.fin => y.stream[f.id].finSent
    /\ \/ y.headersOut = x.headersOut
       \/ \E h \in [id : T, fin : BOOLEAN] :
             /\ y.headersOut = Append(x.headersOut, h)
             /\ Seen(y, h.id) /\ (h.fin => y.stream[h.id].finSent)

\* Such a method keeps what holds of the session if it does so for T.
LEMMA OnlyStreamsGood ==
  ASSUME NEW x, NEW y, NEW T \in SUBSET Ids, NEW known, NEW ended,
         SessionGood(x, known, ended), OnlyStreams(x, y, T),
         \A i \in T : StreamGood(y, i, ended),
         \A i \in T : x.server /\ Seen(y, i) => i \in known
  PROVE  /\ SessionGood(y, known, ended) /\ Goes(x, y)
         /\ \A i \in Ids \ T : StreamTidy(x, i) => StreamTidy(y, i)
<1>1. /\ x \in Sessions /\ ParityGood(x) /\ FramesGood(x)
      /\ \A i \in Ids : StreamGood(x, i, ended)
      /\ \A i \in Ids : x.server /\ Seen(x, i) => i \in known
  BY Zenon DEF SessionGood
<1>2. /\ y \in Sessions /\ ParityGood(y) /\ SessionConsistent(y)
      /\ ~y.server => y.available = {}
      /\ y.server = x.server /\ x.nextOutgoing <= y.nextOutgoing
      /\ \A i \in Ids \ T : SameStream(x, y, i)
      /\ PeerGrows(x, y)
      /\ \A i \in T : StreamFollows(x, y, i)
  BY Zenon DEF OnlyStreams
<1>3. \A i \in Ids : StreamGood(y, i, ended)
  BY Zenon, <1>1, <1>2, SameStreamGood
<1>4. \A i \in Ids \ T : StreamTidy(x, i) => StreamTidy(y, i)
  BY Zenon, <1>2, SameStreamGood
<1>5. ASSUME NEW i \in Ids
      PROVE  /\ Seen(x, i) => Seen(y, i)
             /\ x.stream[i].finSent => y.stream[i].finSent
             /\ RstFramed(x, i) => RstFramed(y, i)
             /\ Seen(x, i) /\ i \notin x.dynamic => i \notin y.dynamic
             /\ Seen(x, i) /\ i \in CountedOpen(y) => i \in CountedOpen(x)
             /\ y.server /\ Seen(y, i) => i \in known
  <2>1. CASE i \in T
    BY Zenon, <1>1, <1>2, <2>1 DEF StreamFollows
  <2>2. CASE i \notin T
    BY Zenon, <1>1, <1>2, <2>2 DEF SameStream, CountedOpen
  <2> QED BY Zenon, <2>1, <2>2
<1>6. \A f \in y.frames : Seen(y, f.id)
                           /\ (f.type = "STREAM" /\ f.fin => y.stream[f.id].finSent)
  <2>1. \A f \in x.frames : f.id \in Ids
    BY Zenon, <1>1, Fields DEF Frames
  <2>2. ASSUME NEW f \in x.frames
        PROVE  Seen(y, f.id) /\ (f.type = "STREAM" /\ f.fin => y.stream[f.id].finSent)
    BY Zenon, <1>1, <1>5, <2>1 DEF FramesGood
  <2> QED BY Zenon, <1>2, <2>2 DEF OnlyStreams
<1>7. /\ Len(x.headersOut) <= Len(y.headersOut)
      /\ \A k \in 1..Len(y.headersOut) :
            /\ Seen(y, y.headersOut[k].id)
            /\ y.headersOut[k].fin => y.stream[y.headersOut[k].id].finSent
  <2>1. \A k \in 1..Len(x.headersOut) :
          /\ Seen(y, x.headersOut[k].id)
          /\ x.headersOut[k].fin => y.stream[x.headersOut[k].id].finSent
    BY Zenon, <1>1, <1>5, HeaderIds DEF FramesGood
  <2>2. x.headersOut \in Seq([id : Ids, fin : BOOLEAN])
    BY Zenon, <1>1, Fields
  <2>3. Len(x.headersOut) \in Nat
    BY <2>2
  <2>4. CASE y.headersOut = x.headersOut
    BY <2>1, <2>3, <2>4
  <2>5. ASSUME NEW h \in [id : T, fin : BOOLEAN],
               y.headersOut = Append(x.headersOut, h),
               Seen(y, h.id), h.fin => y.stream[h.id].finSent
        PROVE  /\ Len(x.headersOut) <= Len(y.headersOut)
               /\ \A k \in 1..Len(y.headersOut) :
                     /\ Seen(y, y.headersOut[k].id)
                     /\ y.headersOut[k].fin => y.stream[y.headersOut[k].id].finSent
    <3>1. h \in [id : Ids, fin : BOOLEAN]
      OBVIOUS
    <3>2. /\ Len(y.headersOut) = Len(x.headersOut) + 1
          /\ \A k \in 1..Len(x.headersOut) : y.headersOut[k] = x.headersOut[k]
          /\ y.headersOut[Len(x.headersOut) + 1] = h
      BY <2>2, <2>5, <3>1
    <3>3. ASSUME NEW k \in 1..Len(y.headersOut)
          PROVE  k \in 1..Len(x.headersOut) \/ y.headersOut[k] = h
      BY <2>3, <3>2
    <3>4. ASSUME NEW k \in 1..Len(y.headersOut)
          PROVE  /\ Seen(y, y.headersOut[k].id)
                 /\ y.headersOut[k].fin => y.stream[y.headersOut[k].id].finSent
      BY Zenon, <2>1, <2>5, <3>2, <3>3
    <3>5. Len(x.headersOut) <= Len(y.headersOut)
      BY <2>3, <3>2
    <3> QED BY Zenon, <3>4, <3>5
  <2> QED BY Zenon, <2>4, <2>5 DEF OnlyStreams
<1>8. SessionGood(y, known, ended)
  BY Zenon, <1>2, <1>3, <1>5, <1>6, <1>7 DEF SessionGood, FramesGood
<1>9. Goes(x, y)
  <2>1. Ended(x) \subseteq Ended(y)
    BY Zenon, <1>5 DEF Ended
  <2>2. x.server \in BOOLEAN /\ y.server \in BOOLEAN
    BY Zenon, <1>1, <1>2, Fields
  <2>3. \A i \in Ids : IsClosedStream(x, i) => IsClosedStream(y, i)
    BY Zenon, <1>1, <1>2, <1>5, <2>2, ClosedIs
  <2> QED BY Zenon, <1>2, <1>5, <1>7, <2>1, <2>3 DEF Goes
<1> QED BY Zenon, <1>4, <1>8, <1>9

\* The same for a method at work on one stream.
LEMMA OnlyStreamGood ==
  ASSUME NEW x, NEW y, NEW id \in Ids, NEW known, NEW ended,
         SessionGood(x, known, ended), OnlyStreams(x, y, {id}),
         StreamGood(y, id, ended), x.server /\ Seen(y, id) => id \in known
  PROVE  /\ SessionGood(y, known, ended) /\ Goes(x, y)
         /\ \A i \in Ids \ {id} : StreamTidy(x, i) => StreamTidy(y, i)
<1> DEFINE T == {id}
<1>1. /\ T \in SUBSET Ids /\ OnlyStreams(x, y, T)
      /\ \A i \in T : StreamGood(y, i, ended)
      /\ \A i \in T : x.server /\ Seen(y, i) => i \in known
  BY Zenon
<1> HIDE DEF T
<1>2. /\ SessionGood(y, known, ended) /\ Goes(x, y)
      /\ \A i \in Ids \ T : StreamTidy(x, i) => StreamTidy(y, i)
  BY <1>1, OnlyStreamsGood
<1> QED BY Zenon, <1>2 DEF T

\* The books of the session on its streams, which writing and reading leave
\* alone until the stream is closed.
SameBooks(x, y) ==
    /\ y.server = x.server /\ y.connected = x.connected
    /\ y.dynamic = x.dynamic /\ y.draining = x.draining
    /\ y.locallyClosed = x.locallyClosed /\ y.available = x.available
    /\ y.largestPeer = x.largestPeer /\ y.nextOutgoing = x.nextOutgoing
    /\ y.numDynamicIn = x.numDynamicIn /\ y.numDrainingIn = x.numDrainingIn
    /\ y.numLocallyClosedIn = x.numLocallyClosedIn /\ y.log = x.log

\* They agree with what they count.
LEMMA SameBooksCount ==
  ASSUME NEW x, NEW y, SameBooks(x, y), ParityGood(x), SessionConsistent(x)
  PROVE  ParityGood(y) /\ SessionConsistent(y)
<1>1. y.server = x.server /\ y.nextOutgoing = x.nextOutgoing
  BY Zenon DEF SameBooks
<1>2. ParityGood(y) /\ \A S : Incoming(y, S) = Incoming(x, S)
  BY Zenon, <1>1, SameCounting
<1>3. SessionConsistent(y)
  BY Zenon, <1>2 DEF SameBooks, SessionConsistent
<1> QED BY Zenon, <1>2, <1>3

\* What may become of the stream meanwhile.
StreamStep(x, id, st, ended) ==
    /\ x.stream[id].finSent => st.finSent
    /\ x.stream[id].finReceived => st.finReceived
    /\ Heard(st) => id \in ended
    /\ st.written <= Chunks(x)
    /\ ~st.finBuffered => st.written = 0

\* What a method at work on an open stream does for the rest.
Kept(x, y, id, known, ended) ==
    /\ SessionGood(y, known, ended) /\ Follows(x, y) /\ Seen(y, id)
    /\ \A i \in Ids \ {id} : StreamTidy(x, i) => StreamTidy(y, i)

\* A method at work on stream id that leaves it in state st.
KeptAs(x, y, id, st, known, ended) ==
    /\ Kept(x, y, id, known, ended) /\ SameBooks(x, y)
    /\ y.stream[id] = st /\ (RstFramed(y, id) <=> RstFramed(x, id))

NewFrames(F, id, st) ==
    \A f \in F : f.id = id /\ f.type = "STREAM" /\ (f.fin => st.finSent)

NewHeaders(x, h, id, st) ==
    \/ h = x.headersOut
    \/ \E g \in [id : {id}, fin : BOOLEAN] :
          h = Append(x.headersOut, g) /\ (g.fin => st.finSent)

\* Reading and writing on stream id.
Touches(x, y, id) ==
    /\ SameBooks(x, y)
    /\ \A i \in Ids \ {id} : y.stream[i] = x.stream[i]
    /\ x.frames \subseteq y.frames
    /\ NewFrames(y.frames \ x.frames, id, y.stream[id])
    /\ NewHeaders(x, y.headersOut, id, y.stream[id])

\* Writing and reading on a stream, before it is closed.
LEMMA BooksKept ==
  ASSUME NEW x, NEW y, NEW id \in Ids, NEW known, NEW ended,
         SessionGood(x, known, ended), Seen(x, id), y \in Sessions,
         Touches(x, y, id), StreamStep(x, id, y.stream[id], ended)
  PROVE  Kept(x, y, id, known, ended) /\ (RstFramed(y, id) <=> RstFramed(x, id))
<1>0. /\ SameBooks(x, y)
      /\ \A i \in Ids \ {id} : y.stream[i] = x.stream[i]
      /\ x.frames \subseteq y.frames
      /\ \A f \in y.frames : \/ f \in x.frames
                             \/ /\ f.id = id /\ f.type = "STREAM"
                                /\ f.fin => y.stream[id].finSent
      /\ \/ y.headersOut = x.headersOut
         \/ \E h \in [id : {id}, fin : BOOLEAN] :
               /\ y.headersOut = Append(x.headersOut, h)
               /\ h.fin => y.stream[id].finSent
  BY Zenon DEF Touches, NewFrames, NewHeaders
<1>1. /\ x \in Sessions /\ ParityGood(x) /\ SessionConsistent(x)
      /\ ~x.server => x.available = {}
      /\ StreamGood(x, id, ended)
      /\ x.server /\ Seen(x, id) => id \in known
  BY Zenon DEF SessionGood
<1>2. \A i \in Ids : Seen(y, i) <=> Seen(x, i)
  BY Zenon, <1>0 DEF SameBooks, Seen
<1>3. ParityGood(y) /\ SessionConsistent(y)
  BY Zenon, <1>0, <1>1, SameBooksCount
<1>4. \A i \in Ids : /\ RstFramed(y, i) <=> RstFramed(x, i)
                     /\ Rst(i, "REFUSED") \in y.frames <=> Rst(i, "REFUSED") \in x.frames
  <2>1. "STREAM" \notin RstCodes /\ \A i \in Ids : Rst(i, "REFUSED").type # "STREAM"
    BY RstFacts, Codes DEF RstCodes
  <2> QED BY Zenon, <1>0, <2>1 DEF RstFramed
<1>5. \A i \in Ids \ {id} : SameStream(x, y, i)
  BY Zenon, <1>0, <1>2, <1>4 DEF SameBooks, SameStream
<1>6. x.nextOutgoing <= y.nextOutgoing
  <2>1. x.nextOutgoing \in Nat /\ y.nextOutgoing = x.nextOutgoing
    BY Zenon, <1>0, <1>1, Fields DEF SameBooks
  <2> QED BY <2>1
<1>7. OnlyStreams(x, y, {id})
  <2>1. \A i \in {id} : StreamFollows(x, y, i)
    BY Zenon, <1>0, <1>2, <1>4 DEF SameBooks, StreamStep, StreamFollows, CountedOpen
  <2>2. \A f \in y.frames :
          \/ f \in x.frames
          \/ /\ f.id \in {id} /\ Seen(y, f.id)
             /\ f.type = "STREAM" /\ f.fin => y.stream[f.id].finSent
    BY Zenon, <1>0, <1>2
  <2>3. \/ y.headersOut = x.headersOut
        \/ \E h \in [id : {id}, fin : BOOLEAN] :
             /\ y.headersOut = Append(x.headersOut, h)
             /\ Seen(y, h.id) /\ (h.fin => y.stream[h.id].finSent)
    BY <1>0, <1>2
  <2>4. y.server = x.server /\ (~y.server => y.available = {})
    BY Zenon, <1>0, <1>1 DEF SameBooks
  <2>5. PeerGrows(x, y)
    BY Zenon, <1>0, <1>1, PeerSame DEF SameBooks
  <2> QED BY Zenon, <1>3, <1>5, <1>6, <2>1, <2>2, <2>3, <2>4, <2>5 DEF OnlyStreams
<1>8. StreamGood(y, id, ended)
  <2>1. /\ y.stream[id].written <= Chunks(y)
        /\ ~y.stream[id].finBuffered => y.stream[id].written = 0
        /\ Heard(y.stream[id]) => id \in ended
        /\ x.stream[id].finSent => y.stream[id].finSent
        /\ x.stream[id].finReceived => y.stream[id].finReceived
    BY Zenon, <1>0 DEF StreamStep, SameBooks, Chunks
  <2>2. Seen(y, id)
    BY Zenon, <1>0, <1>2
  <2>3. /\ y.server = x.server /\ y.connected = x.connected
        /\ y.dynamic = x.dynamic /\ y.draining = x.draining
        /\ y.locallyClosed = x.locallyClosed /\ y.log = x.log
    BY Zenon, <1>0 DEF SameBooks
  <2> QED BY Zenon, <1>1, <1>4, <2>1, <2>2, <2>3 DEF StreamGood
<1>9. Seen(y, id) /\ (x.server => id \in known)
  BY Zenon, <1>1, <1>2
<1>10. y.nextOutgoing = x.nextOutgoing
  BY Zenon, <1>0 DEF SameBooks
<1> QED BY Zenon, <1>4, <1>7, <1>8, <1>9, <1>10, OnlyStreamGood DEF Kept, Follows

Put(x, s, F, h) == [x EXCEPT !.stream = s, !.frames = F, !.headersOut = h]

Headers == Seq([id : Ids, fin : BOOLEAN])

\* The types and fields of a session after writing or reading on a stream.
LEMMA PutFields ==
  ASSUME NEW x \in Sessions, NEW s \in [Ids -> Streams], NEW F \in SUBSET Frames,
         NEW h \in Headers, NEW y, y = Put(x, s, F, h)
  PROVE  /\ y \in Sessions /\ SameBooks(x, y)
         /\ y.stream = s /\ y.frames = F /\ y.headersOut = h
BY Zenon DEF Sessions, SameBooks, Frames, Headers, Put

PutStream(x, id, st, F, h) ==
    Put(x, [x.stream EXCEPT ![id] = st], x.frames \cup F, h)

\* A change of the fields of one stream, with frames and headers of it sent.
LEMMA PutGood ==
  ASSUME NEW x, NEW id \in Ids, NEW known, NEW ended, SessionGood(x, known, ended),
         Seen(x, id), NEW st \in Streams, StreamStep(x, id, st, ended),
         NEW F \in SUBSET Frames, NewFrames(F, id, st),
         NEW h, NewHeaders(x, h, id, st),
         NEW y, y = PutStream(x, id, st, F, h)
  PROVE  KeptAs(x, y, id, st, known, ended)
<1> DEFINE s == [x.stream EXCEPT ![id] = st]
           G == x.frames \cup F
<1>1. /\ x \in Sessions /\ x.stream \in [Ids -> Streams] /\ x.frames \in SUBSET Frames
      /\ x.headersOut \in Headers
  BY Zenon, Fields DEF SessionGood, Headers
<1>2. /\ s \in [Ids -> Streams] /\ s[id] = st
      /\ \A i \in Ids \ {id} : s[i] = x.stream[i]
  BY <1>1
<1>3. /\ G \in SUBSET Frames /\ x.frames \subseteq G
      /\ \A f \in G : f \in x.frames \/ f \in F
  BY <1>1
<1>4. h \in Headers
  <2>1. ASSUME NEW g \in [id : {id}, fin : BOOLEAN], h = Append(x.headersOut, g)
        PROVE  h \in Seq([id : Ids, fin : BOOLEAN])
    <3>1. g \in [id : Ids, fin : BOOLEAN]
      OBVIOUS
    <3> QED BY <1>1, <2>1, <3>1 DEF Headers
  <2> QED BY Zenon, <1>1, <2>1 DEF Headers, NewHeaders
<1> HIDE DEF s, G
<1>5. y = Put(x, s, G, h)
  BY Zenon DEF PutStream, s, G
<1>6. /\ y \in Sessions /\ SameBooks(x, y)
      /\ y.stream = s /\ y.frames = G /\ y.headersOut = h
  BY <1>1, <1>2, <1>3, <1>4, <1>5, PutFields
<1>7. y.stream[id] = st /\ StreamStep(x, id, y.stream[id], ended)
  BY Zenon, <1>2, <1>6
<1>8. Touches(x, y, id)
  <2>1. NewFrames(y.frames \ x.frames, id, y.stream[id])
    BY Zenon, <1>3, <1>6, <1>7 DEF NewFrames
  <2> QED BY Zenon, <1>2, <1>3, <1>6, <1>7, <2>1 DEF Touches
<1> QED BY Zenon, <1>6, <1>7, <1>8, BooksKept DEF KeptAs

SetStream(x, id, st) == [x EXCEPT !.stream[id] = st]

\* A change of the fields of one stream only.
LEMMA SetStreamGood ==
  ASSUME NEW x, NEW id \in Ids, NEW known, NEW ended, SessionGood(x, known, ended),
         Seen(x, id), NEW st \in Streams, StreamStep(x, id, st, ended),
         NEW y, y = SetStream(x, id, st)
  PROVE  KeptAs(x, y, id, st, known, ended)
<1> DEFINE F == {}
           h == x.headersOut
<1>1. x \in Sessions
  BY Zenon DEF SessionGood
<1>2. x.frames = x.frames \cup F /\ h = x.headersOut
  BY Zenon
<1>3. F \in SUBSET Frames /\ NewFrames(F, id, st) /\ NewHeaders(x, h, id, st)
  BY Zenon DEF NewFrames, NewHeaders
<1> HIDE DEF F, h
<1>4. y = PutStream(x, id, st, F, h)
  BY <1>1, <1>2 DEF Sessions, PutStream, Put, SetStream
<1> QED BY Zenon, <1>3, <1>4, PutGood

\* What the peer can tell is told for good.
LEMMA GoesTrans ==
  ASSUME NEW x \in Sessions, NEW y \in Sessions, NEW z \in Sessions,
         Goes(x, y), Goes(y, z)
  PROVE  Goes(x, z)
<1>1. /\ x.nextOutgoing \in Nat /\ y.nextOutgoing \in Nat /\ z.nextOutgoing \in Nat
      /\ x.headersOut \in Headers /\ y.headersOut \in Headers /\ z.headersOut \in Headers
  BY Zenon, Fields DEF Headers
<1>2. /\ Len(x.headersOut) \in Nat /\ Len(y.headersOut) \in Nat
      /\ Len(z.headersOut) \in Nat
  BY <1>1 DEF Headers
<1>3. /\ x.nextOutgoing <= z.nextOutgoing
      /\ Len(x.headersOut) <= Len(z.headersOut)
  BY <1>1, <1>2 DEF Goes
<1>4. PeerGrows(x, z)
  <2>1. /\ x.largestPeer \in Nat /\ y.largestPeer \in Nat /\ z.largestPeer \in Nat
        /\ y.available \in SUBSET Ids /\ z.available \in SUBSET Ids
    BY Zenon, Fields
  <2>2. \A i \in Ids : i \in Nat
    BY IdsAssumption
  <2> QED BY <2>1, <2>2 DEF Goes, PeerGrows
<1> QED BY Zenon, <1>3, <1>4 DEF Goes

\* Two calls in turn, neither of which opens a stream.
LEMMA FollowsTrans ==
  ASSUME NEW x \in Sessions, NEW y \in Sessions, NEW z \in Sessions,
         Follows(x, y), Follows(y, z)
  PROVE  Follows(x, z)
BY Zenon, GoesTrans DEF Follows

\* A method that does nothing.
LEMMA FollowsSelf ==
  ASSUME NEW x \in Sessions
  PROVE  Follows(x, x)
<1>1. x.nextOutgoing \in Nat /\ x.headersOut \in Headers
  BY Zenon, Fields DEF Headers
<1>2. x.nextOutgoing <= x.nextOutgoing /\ Len(x.headersOut) <= Len(x.headersOut)
  BY <1>1 DEF Headers
<1>3. PeerGrows(x, x)
  BY Zenon, PeerSame
<1> QED BY Zenon, <1>2, <1>3 DEF Follows, Goes

\* Two methods, one after the other.
LEMMA KeptTrans ==
  ASSUME NEW x, NEW y, NEW z, NEW id \in Ids, NEW known, NEW ended, x \in Sessions,
         Kept(x, y, id, known, ended), Kept(y, z, id, known, ended)
  PROVE  Kept(x, z, id, known, ended)
<1>1. Follows(x, z)
  BY Zenon, FollowsTrans DEF Kept, SessionGood
<1> QED BY Zenon, <1>1 DEF Kept

Drained(x, y, id, known, ended) ==
    /\ Kept(x, y, id, known, ended)
    /\ y.stream = x.stream /\ y.frames = x.frames
    /\ y.dynamic = x.dynamic /\ y.server = x.server

\* QuicSession::StreamDraining keeps the count of draining streams.
LEMMA StreamDrainingGood ==
  ASSUME NEW x, NEW id \in Ids, NEW known, NEW ended, SessionGood(x, known, ended),
         id \in x.dynamic, x.stream[id].finSent, x.stream[id].finReceived,
         NEW y, y = StreamDraining(x, id)
  PROVE  Drained(x, y, id, known, ended)
<1> DEFINE new == {id} \ x.draining
<1>1. /\ x \in Sessions /\ ParityGood(x) /\ SessionConsistent(x)
      /\ ~x.server => x.available = {}
      /\ StreamGood(x, id, ended)
      /\ x.server /\ Seen(x, id) => id \in known
  BY Zenon DEF SessionGood
<1>2. /\ x.server \in BOOLEAN /\ x.draining \in SUBSET Ids /\ x.numDrainingIn \in Nat
      /\ x.nextOutgoing \in Nat /\ new \in SUBSET Ids /\ x.draining \cap new = {}
      /\ x.draining \cup new = x.draining \cup {id}
  BY Zenon, <1>1, Fields
<1>3. /\ y.server = x.server /\ y.connected = x.connected
      /\ y.dynamic = x.dynamic /\ y.draining = x.draining \cup {id}
      /\ y.locallyClosed = x.locallyClosed /\ y.available = x.available
      /\ y.largestPeer = x.largestPeer /\ y.nextOutgoing = x.nextOutgoing
      /\ y.numDynamicIn = x.numDynamicIn
      /\ y.numDrainingIn = x.numDrainingIn + Cardinality(Incoming(x, new))
      /\ y.numLocallyClosedIn = x.numLocallyClosedIn /\ y.log = x.log
      /\ y.stream = x.stream /\ y.frames = x.frames /\ y.headersOut = x.headersOut
  BY Zenon, <1>1 DEF StreamDraining, Sessions
<1>4. Cardinality(Incoming(x, new)) \in Nat
      /\ Cardinality(Incoming(x, x.draining \cup new)) =
            Cardinality(Incoming(x, x.draining)) + Cardinality(Incoming(x, new))
  <2> HIDE DEF new
  <2> QED BY Zenon, <1>1, <1>2, Counts
<1>5. y \in Sessions
  <2>1. y.draining \in SUBSET Ids /\ y.numDrainingIn \in Nat
    BY <1>2, <1>3, <1>4
  <2>2. y = [x EXCEPT !.draining = y.draining, !.numDrainingIn = y.numDrainingIn]
    BY Zenon, <1>1 DEF StreamDraining, Sessions
  <2> QED BY Zenon, <1>1, <2>1, <2>2 DEF Sessions
<1> HIDE DEF new
<1>6. ParityGood(y) /\ \A S : Incoming(y, S) = Incoming(x, S)
  BY Zenon, <1>1, <1>3, SameCounting
<1>7. SessionConsistent(y)
  <2>1. y.numDrainingIn = Cardinality(Incoming(y, y.draining))
    <3>1. x.numDrainingIn = Cardinality(Incoming(x, x.draining))
      BY Zenon, <1>1 DEF SessionConsistent
    <3>2. Incoming(y, y.draining) = Incoming(x, x.draining \cup new)
      BY Zenon, <1>2, <1>3, <1>6
    <3> QED BY Zenon, <1>3, <1>4, <3>1, <3>2
  <2>2. y.draining \subseteq y.dynamic
    BY Zenon, <1>1, <1>3 DEF SessionConsistent
  <2>3. /\ y.locallyClosed \cap y.dynamic = {}
        /\ y.available \cap (y.dynamic \cup y.locallyClosed) = {}
    BY Zenon, <1>1, <1>3 DEF SessionConsistent
  <2>4. /\ x.numDynamicIn = Cardinality(Incoming(x, x.dynamic))
        /\ x.numLocallyClosedIn = Cardinality(Incoming(x, x.locallyClosed))
    BY Zenon, <1>1 DEF SessionConsistent
  <2>5. y.numDynamicIn = Cardinality(Incoming(y, y.dynamic))
    BY ZenonT(30), <1>3, <1>6, <2>4
  <2>6. y.numLocallyClosedIn = Cardinality(Incoming(y, y.locallyClosed))
    BY Zenon, <1>3, <1>6, <2>4
  <2> QED BY Zenon, <2>1, <2>2, <2>3, <2>5, <2>6 DEF SessionConsistent
<1>8. /\ \A i \in Ids : Seen(y, i) <=> Seen(x, i)
      /\ \A i \in Ids : RstFramed(y, i) <=> RstFramed(x, i)
  BY Zenon, <1>3 DEF Seen, RstFramed
<1>9. \A i \in Ids \ {id} : SameStream(x, y, i)
  BY Zenon, <1>3, <1>8 DEF SameStream
<1>10. OnlyStreams(x, y, {id})
  <2>1. x.nextOutgoing <= y.nextOutgoing
    BY <1>2, <1>3
  <2>2. \A i \in {id} : StreamFollows(x, y, i)
    BY Zenon, <1>3, <1>8 DEF StreamFollows, CountedOpen
  <2>3. PeerGrows(x, y)
    BY Zenon, <1>1, <1>3, PeerSame
  <2> QED BY Zenon, <1>1, <1>3, <1>5, <1>6, <1>7, <1>9, <2>1, <2>2, <2>3 DEF OnlyStreams
<1>11. StreamGood(y, id, ended)
  <2>1. y.stream[id].written <= Chunks(y)
    BY Zenon, <1>1, <1>3 DEF StreamGood, Chunks
  <2> QED BY Zenon, <1>1, <1>3, <1>8, <2>1 DEF StreamGood
<1>12. Seen(y, id) /\ (x.server => id \in known)
  BY Zenon, <1>1, <1>8 DEF StreamGood
<1> QED BY Zenon, <1>3, <1>10, <1>11, <1>12, OnlyStreamGood DEF Drained, Kept, Follows

Closed(x, y, id, known, ended) ==
    /\ Kept(x, y, id, known, ended) /\ y.dynamic = x.dynamic \ {id}
    /\ id \in x.dynamic => y.stream[id].readClosed /\ y.stream[id].writeClosed

\* QuicSession::CloseStreamInner of one stream.
LEMMA CloseOneGood ==
  ASSUME NEW x, NEW id \in Ids, NEW known, NEW ended, SessionGood(x, known, ended),
         Seen(x, id), NEW lr \in BOOLEAN, id \in x.dynamic => CanClose(x, id, lr),
         NEW y, y = CloseStreams(x, {id}, lr)
  PROVE  Closed(x, y, id, known, ended)
<1> DEFINE S == {id}
<1>1. x \in Sessions
  BY Zenon DEF SessionGood
<1>2. y.dynamic = x.dynamic \ {id} /\ y.server = x.server /\ y.available = x.available
      /\ y.largestPeer = x.largestPeer /\ y.nextOutgoing = x.nextOutgoing
  BY Zenon, <1>1 DEF CloseStreams, Sessions
<1>3. AllCanClose(x, S, lr)
  BY ZenonT(30) DEF AllCanClose, Closing
<1>4. id \in x.dynamic => y.stream[id].readClosed /\ y.stream[id].writeClosed
  <2>1. x.stream[id] \in Streams
    BY Zenon, <1>1, Fields
  <2>2. id \in x.dynamic =>
          \E b : y.stream[id] = [x.stream[id] EXCEPT !.readClosed = TRUE,
                                   !.writeClosed = TRUE, !.rstSent = b]
    BY Zenon, <1>1 DEF CloseStreams, Sessions
  <2> QED BY <2>1, <2>2 DEF Streams
<1>5. Seen(y, id)
  BY Zenon, <1>2 DEF Seen
<1>6. y = CloseStreams(x, S, lr)
  BY Zenon
<1> HIDE DEF S
<1>7. ClosedAll(x, y, S, known, ended)
  BY Zenon, <1>3, <1>6, CloseStreamsGood
<1> QED BY Zenon, <1>2, <1>4, <1>5, <1>7 DEF Closed, ClosedAll, Kept

\* What CloseStream needs to know of an open stream.
LEMMA UnfinishedCanClose ==
  ASSUME NEW x, NEW i \in Ids, Unfinished(x, i)
  PROVE  CanClose(x, i, FALSE)
<1>1. /\ Rst(i, "REFUSED").id = i /\ Rst(i, "REFUSED").type \in RstCodes
  BY RstFacts, Codes
<1> QED BY Zenon, <1>1 DEF Unfinished, CanClose, RstFramed

HalfClosed(x, y, id, known, ended) ==
    /\ Kept(x, y, id, known, ended) /\ StreamTidy(y, id)
    /\ y.dynamic \subseteq x.dynamic

\* QuicStream::CloseWriteSide, with the closing of the stream when its other
\* side is closed as well.
LEMMA CloseWriteSideGood ==
  ASSUME NEW x, NEW id \in Ids, NEW known, NEW ended, SessionGood(x, known, ended),
         Seen(x, id), id \in x.dynamic => Unfinished(x, id),
         NEW y, y = CloseWriteSide(x, id)
  PROVE  HalfClosed(x, y, id, known, ended)
<1> DEFINE st == [x.stream[id] EXCEPT !.writeClosed = TRUE]
           w == SetStream(x, id, st)
<1>1. x \in Sessions /\ x.stream[id] \in Streams /\ StreamGood(x, id, ended)
  BY Zenon, Fields DEF SessionGood
<1>2. /\ st \in Streams /\ st.writeClosed
      /\ st.finSent = x.stream[id].finSent /\ st.finReceived = x.stream[id].finReceived
      /\ st.rstReceived = x.stream[id].rstReceived /\ st.close = x.stream[id].close
      /\ st.written = x.stream[id].written /\ st.finBuffered = x.stream[id].finBuffered
      /\ st.rstSent = x.stream[id].rstSent /\ st.readClosed = x.stream[id].readClosed
  BY <1>1 DEF Streams
<1>3. [x EXCEPT !.stream[id].writeClosed = TRUE] = w
  BY Zenon DEF SetStream
<1>4. y = IF x.stream[id].writeClosed THEN x
          ELSE IF x.stream[id].readClosed THEN CloseStreams(w, {id}, FALSE) ELSE w
  BY Zenon, <1>3 DEF CloseWriteSide
<1> HIDE DEF st
<1>5. StreamStep(x, id, st, ended)
  BY Zenon, <1>1, <1>2 DEF StreamStep, StreamGood, Heard
<1> HIDE DEF w
<1>6. KeptAs(x, w, id, st, known, ended)
  BY Zenon, <1>2, <1>5, SetStreamGood DEF w
<1>7. /\ Kept(x, w, id, known, ended) /\ w.dynamic = x.dynamic /\ w.server = x.server
      /\ w.stream[id] = st /\ (RstFramed(w, id) <=> RstFramed(x, id))
  BY Zenon, <1>6 DEF KeptAs, SameBooks
<1>8. CASE x.stream[id].writeClosed
  <2>1. y = x
    BY Zenon, <1>4, <1>8
  <2>2. StreamTidy(x, id)
    BY Zenon, <1>8 DEF StreamTidy
  <2>3. Kept(x, x, id, known, ended)
    BY Zenon, FollowsSelf, <1>1 DEF Kept
  <2> QED BY Zenon, <2>1, <2>2, <2>3 DEF HalfClosed
<1>9. CASE ~x.stream[id].writeClosed /\ ~x.stream[id].readClosed
  <2>1. y = w
    BY Zenon, <1>4, <1>9
  <2>2. StreamTidy(w, id)
    BY Zenon, <1>2, <1>7, <1>9 DEF StreamTidy, Unfinished
  <2> QED BY Zenon, <1>7, <2>1, <2>2 DEF HalfClosed
<1>10. CASE ~x.stream[id].writeClosed /\ x.stream[id].readClosed
  <2>1. y = CloseStreams(w, {id}, FALSE)
    BY Zenon, <1>4, <1>10
  <2>2. id \in w.dynamic => CanClose(w, id, FALSE)
    <3>1. ASSUME id \in w.dynamic PROVE CanClose(w, id, FALSE)
      <4>1. CanClose(x, id, FALSE)
        BY Zenon, <1>7, <3>1, UnfinishedCanClose
      <4>2. w.frames = x.frames /\ w.connected = x.connected
        BY Zenon, <1>1 DEF w, SetStream, Sessions
      <4> QED BY Zenon, <1>2, <1>7, <4>1, <4>2 DEF CanClose
    <3> QED BY Zenon, <3>1
  <2>3. SessionGood(w, known, ended) /\ Seen(w, id)
    BY Zenon, <1>7 DEF Kept
  <2>4. Closed(w, y, id, known, ended)
    BY Zenon, <2>1, <2>2, <2>3, CloseOneGood
  <2>5. Kept(x, y, id, known, ended)
    BY Zenon, <1>1, <1>7, <2>4, KeptTrans DEF Closed
  <2> QED BY Zenon, <1>7, <2>4, <2>5 DEF Closed, HalfClosed, StreamTidy
<1> QED BY Zenon, <1>8, <1>9, <1>10

\* QuicStream::CloseReadSide, likewise; a stream whose write side stays open
\* stays open.
LEMMA CloseReadSideGood ==
  ASSUME NEW x, NEW id \in Ids, NEW known, NEW ended, SessionGood(x, known, ended),
         Seen(x, id), StreamTidy(x, id),
         NEW y, y = CloseReadSide(x, id)
  PROVE  /\ HalfClosed(x, y, id, known, ended)
         /\ id \in x.dynamic /\ ~y.stream[id].writeClosed =>
               /\ id \in y.dynamic /\ y.stream[id].readClosed
               /\ y.stream[id].finSent = x.stream[id].finSent
               /\ y.stream[id].finBuffered = x.stream[id].finBuffered
<1> DEFINE st == [x.stream[id] EXCEPT !.readClosed = TRUE]
           w == SetStream(x, id, st)
<1>1. x \in Sessions /\ x.stream[id] \in Streams /\ StreamGood(x, id, ended)
  BY Zenon, Fields DEF SessionGood
<1>2. /\ st \in Streams /\ st.readClosed
      /\ st.finSent = x.stream[id].finSent /\ st.finReceived = x.stream[id].finReceived
      /\ st.rstReceived = x.stream[id].rstReceived /\ st.close = x.stream[id].close
      /\ st.written = x.stream[id].written /\ st.finBuffered = x.stream[id].finBuffered
      /\ st.rstSent = x.stream[id].rstSent /\ st.writeClosed = x.stream[id].writeClosed
  BY <1>1 DEF Streams
<1>3. [x EXCEPT !.stream[id].readClosed = TRUE] = w
  BY Zenon DEF SetStream
<1>4. y = IF x.stream[id].readClosed THEN x
          ELSE IF x.stream[id].writeClosed THEN CloseStreams(w, {id}, FALSE) ELSE w
  BY Zenon, <1>3 DEF CloseReadSide
<1> HIDE DEF st
<1>5. StreamStep(x, id, st, ended)
  BY Zenon, <1>1, <1>2 DEF StreamStep, StreamGood, Heard
<1> HIDE DEF w
<1>6. KeptAs(x, w, id, st, known, ended)
  BY Zenon, <1>2, <1>5, SetStreamGood DEF w
<1>7. /\ Kept(x, w, id, known, ended) /\ w.dynamic = x.dynamic /\ w.server = x.server
      /\ w.stream[id] = st /\ (RstFramed(w, id) <=> RstFramed(x, id))
  BY Zenon, <1>6 DEF KeptAs, SameBooks
<1>8. CASE x.stream[id].readClosed
  <2>1. y = x
    BY Zenon, <1>4, <1>8
  <2>3. Kept(x, x, id, known, ended)
    BY Zenon, FollowsSelf, <1>1 DEF Kept
  <2> QED BY Zenon, <1>8, <2>1, <2>3 DEF HalfClosed
<1>9. CASE ~x.stream[id].readClosed /\ ~x.stream[id].writeClosed
  <2>1. y = w
    BY Zenon, <1>4, <1>9
  <2>2. StreamTidy(w, id)
    BY Zenon, <1>2, <1>7, <1>9 DEF StreamTidy, Unfinished
  <2> QED BY Zenon, <1>2, <1>7, <2>1, <2>2 DEF HalfClosed
<1>10. CASE ~x.stream[id].readClosed /\ x.stream[id].writeClosed
  <2>1. y = CloseStreams(w, {id}, FALSE)
    BY Zenon, <1>4, <1>10
  <2>2. id \in w.dynamic => CanClose(w, id, FALSE)
    <3>1. ASSUME id \in w.dynamic PROVE CanClose(w, id, FALSE)
      <4>1. CanClose(x, id, FALSE)
        BY Zenon, <1>7, <3>1, UnfinishedCanClose DEF StreamTidy
      <4>2. w.frames = x.frames /\ w.connected = x.connected
        BY Zenon, <1>1 DEF w, SetStream, Sessions
      <4> QED BY Zenon, <1>2, <1>7, <4>1, <4>2 DEF CanClose
    <3> QED BY Zenon, <3>1
  <2>3. SessionGood(w, known, ended) /\ Seen(w, id)
    BY Zenon, <1>7 DEF Kept
  <2>4. Closed(w, y, id, known, ended)
    BY Zenon, <2>1, <2>2, <2>3, CloseOneGood
  <2>5. Kept(x, y, id, known, ended)
    BY Zenon, <1>1, <1>7, <2>4, KeptTrans DEF Closed
  <2> QED BY Zenon, <1>7, <2>4, <2>5 DEF Closed, HalfClosed, StreamTidy
<1> QED BY Zenon, <1>8, <1>9, <1>10

-----------------------------------------------------------------------------
\* Writing.

\* The length of a message.
LEMMA ChunksType == ASSUME NEW x PROVE Chunks(x) \in Nat
BY LimitsAssumption DEF Chunks

\* A method that ends with the closing of one side of the stream.
LEMMA KeptHalfClosed ==
  ASSUME NEW x, NEW y, NEW z, NEW id \in Ids, NEW known, NEW ended, x \in Sessions,
         Kept(x, y, id, known, ended), y.dynamic = x.dynamic,
         HalfClosed(y, z, id, known, ended)
  PROVE  HalfClosed(x, z, id, known, ended)
BY Zenon, KeptTrans DEF HalfClosed

\* The frames of a write up to chunk e, and the stream after it.
ChunkFrames(x, id, e) ==
    {StreamFrame(id, p, p + 1 = Chunks(x)) : p \in x.stream[id].written..(e - 1)}

WrittenStream(x, id, e) ==
    [x.stream[id] EXCEPT !.written = e, !.finSent = (e = Chunks(x))]

\* The last of these frames has the FIN if the message ends.
LEMMA WrittenFrames ==
  ASSUME NEW x, NEW id \in Ids, x.stream[id].written \in Nat, NEW e \in Nat,
         e <= Chunks(x), NEW st, st.finSent <=> e = Chunks(x)
  PROVE  ChunkFrames(x, id, e) \in SUBSET Frames
         /\ NewFrames(ChunkFrames(x, id, e), id, st)
<1> DEFINE c == Chunks(x)
<1>1. ASSUME NEW p \in x.stream[id].written..(e - 1)
      PROVE  /\ StreamFrame(id, p, p + 1 = c) \in Frames
             /\ StreamFrame(id, p, p + 1 = c).id = id
             /\ StreamFrame(id, p, p + 1 = c).type = "STREAM"
             /\ StreamFrame(id, p, p + 1 = c).fin => st.finSent
  <2>1. c \in Nat
    BY ChunksType
  <2> HIDE DEF c
  <2>2. p \in Nat /\ (p + 1 = c => e = c)
    BY <2>1 DEF c
  <2>3. p + 1 = c => st.finSent
    BY Zenon, <2>2 DEF c
  <2> QED BY <2>2, <2>3 DEF StreamFrame, Frames
<1> QED BY Zenon, <1>1 DEF NewFrames, ChunkFrames

\* The write as a change of one stream.
LEMMA WritePuts ==
  ASSUME NEW x \in Sessions, NEW id \in Ids, NEW e
  PROVE  [x EXCEPT !.stream[id].written = e, !.stream[id].finSent = (e = Chunks(x)),
                   !.frames = @ \cup {StreamFrame(id, p, p + 1 = Chunks(x)) :
                                         p \in x.stream[id].written..(e - 1)}]
         = PutStream(x, id, WrittenStream(x, id, e), ChunkFrames(x, id, e), x.headersOut)
<1> DEFINE F == ChunkFrames(x, id, e)
           b == (e = Chunks(x))
<1> HIDE DEF F, b
<1>1. [x EXCEPT !.stream[id].written = e, !.stream[id].finSent = b, !.frames = @ \cup F]
      = Put(x, [x.stream EXCEPT ![id] = [x.stream[id] EXCEPT !.written = e, !.finSent = b]],
            x.frames \cup F, x.headersOut)
  BY DEF Sessions, Put
<1> QED BY Zenon, <1>1 DEF F, b, ChunkFrames, PutStream, WrittenStream

\* QuicStream::WritevData, up to the closing of the write side.
LEMMA WriteKeeps ==
  ASSUME NEW x, NEW id \in Ids, NEW known, NEW ended, SessionGood(x, known, ended),
         Seen(x, id), x.stream[id].finBuffered, ~x.stream[id].finSent,
         NEW n \in Nat, n <= Chunks(x) - x.stream[id].written,
         NEW e, e = x.stream[id].written + n,
         NEW y, y = PutStream(x, id, WrittenStream(x, id, e), ChunkFrames(x, id, e),
                              x.headersOut)
  PROVE  KeptAs(x, y, id, WrittenStream(x, id, e), known, ended)
<1> DEFINE st == WrittenStream(x, id, e)
           F == ChunkFrames(x, id, e)
           h == x.headersOut
<1>1. x \in Sessions /\ x.stream[id] \in Streams /\ StreamGood(x, id, ended)
  BY Zenon, Fields DEF SessionGood
<1>2. x.stream[id].written \in Nat /\ Chunks(x) \in Nat
  BY <1>1, ChunksType DEF Streams
<1>3. e \in Nat /\ e <= Chunks(x)
  BY <1>2
<1>4. /\ st \in Streams /\ st.written = e /\ st.finSent = (e = Chunks(x))
      /\ st.finReceived = x.stream[id].finReceived
      /\ st.rstReceived = x.stream[id].rstReceived /\ st.close = x.stream[id].close
      /\ st.finBuffered = x.stream[id].finBuffered
  BY <1>1, <1>3 DEF Streams, WrittenStream
<1> HIDE DEF st
<1>5. F \in SUBSET Frames /\ NewFrames(F, id, st)
  BY Zenon, <1>2, <1>3, <1>4, WrittenFrames
<1>6. NewHeaders(x, h, id, st)
  BY Zenon DEF NewHeaders
<1>7. y = PutStream(x, id, st, F, h)
  BY Zenon DEF st
<1> HIDE DEF F, h
<1>8. StreamStep(x, id, st, ended)
  BY Zenon, <1>1, <1>3, <1>4 DEF StreamStep, StreamGood, Heard
<1>9. KeptAs(x, y, id, st, known, ended)
  BY Zenon, <1>4, <1>5, <1>6, <1>7, <1>8, PutGood
<1> QED BY Zenon, <1>9 DEF st

\* QuicStream::WritevData, with the FIN of the last chunk, the draining of a
\* stream that has ended in both directions, and CloseWriteSide.
LEMMA WritevDataGood ==
  ASSUME NEW x, NEW id \in Ids, NEW known, NEW ended, SessionGood(x, known, ended),
         id \in x.dynamic, StreamTidy(x, id),
         x.stream[id].finBuffered, ~x.stream[id].finSent,
         NEW n \in Nat, n <= Chunks(x) - x.stream[id].written,
         NEW y, y = WritevData(x, id, n)
  PROVE  HalfClosed(x, y, id, known, ended)
<1> DEFINE e == x.stream[id].written + n
           st == WrittenStream(x, id, e)
           v == PutStream(x, id, st, ChunkFrames(x, id, e), x.headersOut)
           z == IF x.stream[id].finReceived THEN StreamDraining(v, id) ELSE v
<1>1. x \in Sessions /\ x.stream[id] \in Streams /\ StreamGood(x, id, ended)
  BY Zenon, Fields DEF SessionGood
<1>2. y = IF e = Chunks(x) THEN CloseWriteSide(z, id) ELSE v
  <2> DEFINE w == [x EXCEPT !.stream[id].written = e,
                     !.stream[id].finSent = (e = Chunks(x)),
                     !.frames = @ \cup {StreamFrame(id, p, p + 1 = Chunks(x)) :
                                           p \in x.stream[id].written..(e - 1)}]
  <2>1. w = v
    <3> HIDE DEF e
    <3> QED BY <1>1, WritePuts
  <2>2. y = IF e = Chunks(x)
            THEN CloseWriteSide(IF x.stream[id].finReceived THEN StreamDraining(w, id)
                                ELSE w, id)
            ELSE w
    BY Zenon DEF WritevData
  <2> HIDE DEF w, v
  <2> QED BY ZenonT(30), <2>1, <2>2
<1>3. Seen(x, id)
  BY Zenon, <1>1 DEF StreamGood
<1>4. /\ st.finSent = (e = Chunks(x)) /\ st.finReceived = x.stream[id].finReceived
      /\ st.finBuffered = x.stream[id].finBuffered /\ st.rstSent = x.stream[id].rstSent
      /\ st.readClosed = x.stream[id].readClosed
      /\ st.writeClosed = x.stream[id].writeClosed
  BY <1>1 DEF Streams, WrittenStream
<1>5. KeptAs(x, v, id, st, known, ended)
  BY Zenon, <1>3, WriteKeeps
<1> HIDE DEF st, v, e
<1>6. /\ Kept(x, v, id, known, ended) /\ v.dynamic = x.dynamic /\ v.server = x.server
      /\ v.stream[id] = st /\ (RstFramed(v, id) <=> RstFramed(x, id))
  BY Zenon, <1>5 DEF KeptAs, SameBooks
<1>7. Unfinished(v, id)
  BY Zenon, <1>4, <1>6 DEF StreamTidy, Unfinished
<1>8. SessionGood(v, known, ended) /\ v \in Sessions
  BY Zenon, <1>6 DEF Kept, SessionGood
<1>9. CASE e # Chunks(x)
  <2>1. y = v
    BY Zenon, <1>2, <1>9
  <2>2. StreamTidy(v, id)
    BY Zenon, <1>4, <1>6, <1>7, <1>9 DEF StreamTidy
  <2> QED BY Zenon, <1>6, <2>1, <2>2 DEF HalfClosed
<1>10. CASE e = Chunks(x)
  <2>1. y = CloseWriteSide(z, id)
    BY Zenon, <1>2, <1>10
  <2>2. Kept(x, z, id, known, ended) /\ z.dynamic = x.dynamic /\ Unfinished(z, id)
    <3>1. CASE x.stream[id].finReceived
      <4>1. z = StreamDraining(v, id)
        BY Zenon, <3>1
      <4> HIDE DEF z
      <4>2. v.stream[id].finSent /\ v.stream[id].finReceived /\ id \in v.dynamic
        BY Zenon, <1>4, <1>6, <1>10, <3>1
      <4>3. Drained(v, z, id, known, ended)
        BY Zenon, <1>8, <4>1, <4>2, StreamDrainingGood
      <4>4. Kept(x, z, id, known, ended)
        BY Zenon, <1>1, <1>6, <4>3, KeptTrans DEF Drained
      <4>5. Unfinished(z, id)
        BY Zenon, <1>7, <4>3 DEF Drained, Unfinished, RstFramed
      <4> QED BY Zenon, <1>6, <4>3, <4>4, <4>5 DEF Drained
    <3>2. CASE ~x.stream[id].finReceived
      BY Zenon, <1>6, <1>7, <3>2
    <3> QED BY Zenon, <3>1, <3>2
  <2> HIDE DEF z
  <2>3. SessionGood(z, known, ended) /\ Seen(z, id)
    BY Zenon, <2>2 DEF Kept
  <2>4. HalfClosed(z, y, id, known, ended)
    BY Zenon, <2>1, <2>2, <2>3, CloseWriteSideGood
  <2> QED BY Zenon, <1>1, <2>2, <2>4, KeptHalfClosed
<1> QED BY Zenon, <1>9, <1>10

\* HEADERS of a stream are queued on the headers stream, and the stream is
\* left in state st.
LEMMA HeadersKeep ==
  ASSUME NEW x, NEW id \in Ids, NEW known, NEW ended, SessionGood(x, known, ended),
         Seen(x, id), NEW st \in Streams, StreamStep(x, id, st, ended),
         NEW fin \in BOOLEAN, fin => st.finSent,
         NEW y, y = Put(x, [x.stream EXCEPT ![id] = st], x.frames,
                        Append(x.headersOut, HeadersFrame(id, fin)))
  PROVE  KeptAs(x, y, id, st, known, ended)
<1> DEFINE F == {}
           h == Append(x.headersOut, HeadersFrame(id, fin))
<1>1. x.frames = x.frames \cup F
  BY Zenon
<1>2. F \in SUBSET Frames /\ NewFrames(F, id, st)
  BY Zenon DEF NewFrames
<1>3. NewHeaders(x, h, id, st)
  <2>1. HeadersFrame(id, fin) \in [id : {id}, fin : BOOLEAN]
        /\ HeadersFrame(id, fin).fin = fin
    BY DEF HeadersFrame
  <2> QED BY Zenon, <2>1 DEF NewHeaders
<1> HIDE DEF F, h
<1>4. y = PutStream(x, id, st, F, h)
  BY Zenon, <1>1 DEF PutStream, h
<1> QED BY Zenon, <1>2, <1>3, <1>4, PutGood

\* QuicSpdyStream::WriteHeaders and the first write of the body.
LEMMA SendMessageGood ==
  ASSUME NEW x, NEW id \in Ids, NEW known, NEW ended, SessionGood(x, known, ended),
         id \in x.dynamic, StreamTidy(x, id),
         ~x.stream[id].finBuffered, ~x.stream[id].finSent,
         x.server => x.stream[id].readClosed,
         NEW n \in Nat, n <= Chunks(x), NEW y, y = SendMessage(x, id, n)
  PROVE  HalfClosed(x, y, id, known, ended)
<1> DEFINE fin == Chunks(x) = 0
           h == Append(x.headersOut, HeadersFrame(id, fin))
           sa == [x.stream[id] EXCEPT !.finSent = TRUE]
           sb == [x.stream[id] EXCEPT !.finBuffered = TRUE]
           a == Put(x, [x.stream EXCEPT ![id] = sa], x.frames, h)
           b == Put(x, [x.stream EXCEPT ![id] = sb], x.frames, h)
<1>1. x \in Sessions /\ x.stream[id] \in Streams /\ StreamGood(x, id, ended)
  BY Zenon, Fields DEF SessionGood
<1>2. Seen(x, id) /\ x.stream[id].written = 0 /\ Chunks(x) \in Nat
  BY Zenon, <1>1, ChunksType DEF StreamGood
<1>3. y = IF fin THEN CloseWriteSide(a, id) ELSE WritevData(b, id, n)
  <2> DEFINE u == [[x EXCEPT !.headersOut = h] EXCEPT !.stream[id].finSent = TRUE]
             v == [[x EXCEPT !.headersOut = h] EXCEPT !.stream[id].finBuffered = TRUE]
  <2>1. y = IF fin THEN CloseWriteSide(u, id) ELSE WritevData(v, id, n)
    BY Zenon DEF SendMessage
  <2> HIDE DEF h
  <2>2. u = a
    BY <1>1 DEF Put, Sessions
  <2>3. v = b
    BY <1>1 DEF Put, Sessions
  <2> HIDE DEF a, b, u, v
  <2> QED BY Zenon, <2>1, <2>2, <2>3
<1>4. CASE fin
  <2>1. /\ sa \in Streams /\ sa.finSent
        /\ sa.finReceived = x.stream[id].finReceived
        /\ sa.rstReceived = x.stream[id].rstReceived /\ sa.close = x.stream[id].close
        /\ sa.written = x.stream[id].written /\ sa.finBuffered = x.stream[id].finBuffered
        /\ sa.rstSent = x.stream[id].rstSent /\ sa.readClosed = x.stream[id].readClosed
        /\ sa.writeClosed = x.stream[id].writeClosed
    BY <1>1 DEF Streams
  <2> HIDE DEF sa
  <2>2. StreamStep(x, id, sa, ended)
    BY Zenon, <1>1, <2>1 DEF StreamStep, StreamGood, Heard
  <2>3. a = Put(x, [x.stream EXCEPT ![id] = sa], x.frames,
                Append(x.headersOut, HeadersFrame(id, fin))) /\ fin \in BOOLEAN
    BY Zenon
  <2> HIDE DEF a, fin
  <2>4. KeptAs(x, a, id, sa, known, ended)
    BY Zenon, <1>2, <2>1, <2>2, <2>3, HeadersKeep
  <2>5. /\ Kept(x, a, id, known, ended) /\ a.dynamic = x.dynamic /\ a.server = x.server
        /\ a.stream[id] = sa /\ (RstFramed(a, id) <=> RstFramed(x, id))
    BY Zenon, <2>4 DEF KeptAs, SameBooks
  <2>6. Unfinished(a, id) /\ SessionGood(a, known, ended) /\ Seen(a, id)
    BY Zenon, <2>1, <2>5 DEF StreamTidy, Unfinished, Kept
  <2>7. y = CloseWriteSide(a, id)
    BY Zenon, <1>3, <1>4
  <2>8. HalfClosed(a, y, id, known, ended)
    BY Zenon, <2>6, <2>7, CloseWriteSideGood
  <2> QED BY Zenon, <1>1, <2>5, <2>8, KeptHalfClosed
<1>5. CASE ~fin
  <2>1. /\ sb \in Streams /\ sb.finBuffered
        /\ sb.finReceived = x.stream[id].finReceived
        /\ sb.rstReceived = x.stream[id].rstReceived /\ sb.close = x.stream[id].close
        /\ sb.written = x.stream[id].written /\ sb.finSent = x.stream[id].finSent
        /\ sb.rstSent = x.stream[id].rstSent /\ sb.readClosed = x.stream[id].readClosed
        /\ sb.writeClosed = x.stream[id].writeClosed
    BY <1>1 DEF Streams
  <2> HIDE DEF sb
  <2>2. StreamStep(x, id, sb, ended)
    BY Zenon, <1>1, <2>1 DEF StreamStep, StreamGood, Heard
  <2>3. b = Put(x, [x.stream EXCEPT ![id] = sb], x.frames,
                Append(x.headersOut, HeadersFrame(id, fin))) /\ fin \in BOOLEAN
    BY Zenon
  <2> HIDE DEF b, fin
  <2>4. KeptAs(x, b, id, sb, known, ended)
    BY Zenon, <1>2, <1>5, <2>1, <2>2, <2>3, HeadersKeep
  <2>5. /\ Kept(x, b, id, known, ended) /\ b.dynamic = x.dynamic /\ b.server = x.server
        /\ b.stream[id] = sb /\ (RstFramed(b, id) <=> RstFramed(x, id))
    BY Zenon, <2>4 DEF KeptAs, SameBooks
  <2>6. StreamTidy(b, id) /\ SessionGood(b, known, ended)
    BY Zenon, <2>1, <2>5 DEF StreamTidy, Unfinished, Kept
  <2>7. y = WritevData(b, id, n)
    BY Zenon, <1>3, <1>5
  <2>8. b.stream[id].finBuffered /\ ~b.stream[id].finSent /\ id \in b.dynamic
    BY Zenon, <2>1, <2>5
  <2>9. n <= Chunks(b) - b.stream[id].written
    <3>1. Chunks(b) = Chunks(x) /\ b.stream[id].written = 0
      BY Zenon, <1>2, <2>1, <2>5 DEF Chunks
    <3> QED BY <1>2, <3>1
  <2>10. HalfClosed(b, y, id, known, ended)
    BY Zenon, <2>6, <2>7, <2>8, <2>9, WritevDataGood
  <2> QED BY Zenon, <1>1, <2>5, <2>10, KeptHalfClosed
<1> QED BY Zenon, <1>4, <1>5

-----------------------------------------------------------------------------
\* Reading.

\* Two methods that leave the stream tidy, one after the other.
LEMMA HalfClosedTrans ==
  ASSUME NEW x, NEW y, NEW z, NEW id \in Ids, NEW known, NEW ended, x \in Sessions,
         HalfClosed(x, y, id, known, ended), HalfClosed(y, z, id, known, ended)
  PROVE  HalfClosed(x, z, id, known, ended)
BY Zenon, KeptTrans DEF HalfClosed

FinHeard(x, y, id, known, ended) ==
    /\ HalfClosed(x, y, id, known, ended) /\ y.dynamic = x.dynamic
    /\ y.stream[id] = [x.stream[id] EXCEPT !.finReceived = TRUE]

\* The stream is told that the peer has finished it: OnStreamFrame,
\* OnInitialHeadersComplete and the reading of the FIN.
LEMMA FinReceivedKeeps ==
  ASSUME NEW x, NEW id \in Ids, NEW known, NEW ended, SessionGood(x, known, ended),
         Seen(x, id), id \in ended, StreamTidy(x, id),
         NEW y, y = [x EXCEPT !.stream[id].finReceived = TRUE]
  PROVE  FinHeard(x, y, id, known, ended)
<1> DEFINE st == [x.stream[id] EXCEPT !.finReceived = TRUE]
<1>1. x \in Sessions /\ x.stream[id] \in Streams /\ StreamGood(x, id, ended)
  BY Zenon, Fields DEF SessionGood
<1>2. /\ st \in Streams /\ st.finReceived
      /\ st.finSent = x.stream[id].finSent /\ st.finBuffered = x.stream[id].finBuffered
      /\ st.written = x.stream[id].written /\ st.rstSent = x.stream[id].rstSent
      /\ st.readClosed = x.stream[id].readClosed
      /\ st.writeClosed = x.stream[id].writeClosed
  BY <1>1 DEF Streams
<1>3. y = SetStream(x, id, st)
  BY Zenon DEF SetStream
<1> HIDE DEF st
<1>4. StreamStep(x, id, st, ended)
  BY Zenon, <1>1, <1>2 DEF StreamStep, StreamGood
<1>5. KeptAs(x, y, id, st, known, ended)
  BY Zenon, <1>2, <1>3, <1>4, SetStreamGood
<1>6. /\ Kept(x, y, id, known, ended) /\ y.dynamic = x.dynamic /\ y.server = x.server
      /\ y.stream[id] = st /\ (RstFramed(y, id) <=> RstFramed(x, id))
  BY Zenon, <1>5 DEF KeptAs, SameBooks
<1>7. StreamTidy(y, id)
  BY Zenon, <1>2, <1>6 DEF StreamTidy, Unfinished
<1> QED BY Zenon, <1>6, <1>7 DEF FinHeard, HalfClosed, st

\* OnDataAvailable reads to the FIN; the server answers then.
LEMMA OnDataAvailableGood ==
  ASSUME NEW x, NEW id \in Ids, NEW known, NEW ended, SessionGood(x, known, ended),
         id \in x.dynamic, StreamTidy(x, id), NEW n \in Nat, n <= Chunks(x),
         NEW y, y = OnDataAvailable(x, id, n)
  PROVE  HalfClosed(x, y, id, known, ended)
<1> DEFINE w == [x EXCEPT !.stream[id].finReceived = TRUE]
           c == CloseReadSide(w, id)
<1>1. x \in Sessions /\ x.stream[id] \in Streams /\ StreamGood(x, id, ended)
  BY Zenon, Fields DEF SessionGood
<1>2. Seen(x, id)
  BY Zenon, <1>1 DEF StreamGood
<1>3. y = IF ~Complete(x.stream[id]) \/ x.stream[id].readClosed THEN x
          ELSE IF x.server /\ ~c.stream[id].writeClosed /\ ~c.stream[id].finBuffered
               THEN SendMessage(c, id, n)
          ELSE c
  BY Zenon DEF OnDataAvailable
<1> HIDE DEF c
<1>4. CASE ~Complete(x.stream[id]) \/ x.stream[id].readClosed
  <2>1. y = x
    BY Zenon, <1>3, <1>4
  <2>2. Follows(x, x)
    BY Zenon, <1>1, FollowsSelf
  <2> QED BY Zenon, <1>2, <2>1, <2>2 DEF HalfClosed, Kept
<1>5. CASE Complete(x.stream[id]) /\ ~x.stream[id].readClosed
  <2>1. id \in ended
    BY Zenon, <1>1, <1>5 DEF Complete, StreamGood, Heard
  <2>2. FinHeard(x, w, id, known, ended)
    BY Zenon, <1>2, <2>1, FinReceivedKeeps
  <2> HIDE DEF w
  <2>3. SessionGood(w, known, ended) /\ Seen(w, id) /\ StreamTidy(w, id)
    BY Zenon, <2>2 DEF FinHeard, HalfClosed, Kept
  <2>4. /\ HalfClosed(w, c, id, known, ended)
        /\ ~c.stream[id].writeClosed => id \in c.dynamic /\ c.stream[id].readClosed
    BY ZenonT(30), <2>2, <2>3, CloseReadSideGood DEF FinHeard, c
  <2>5. HalfClosed(x, c, id, known, ended)
    BY Zenon, <1>1, <2>2, <2>4, HalfClosedTrans DEF FinHeard
  <2>6. CASE x.server /\ ~c.stream[id].writeClosed /\ ~c.stream[id].finBuffered
    <3>1. y = SendMessage(c, id, n)
      BY Zenon, <1>3, <1>5, <2>6
    <3>2. SessionGood(c, known, ended) /\ StreamTidy(c, id) /\ Follows(x, c)
      BY Zenon, <2>5 DEF HalfClosed, Kept
    <3>3. ~c.stream[id].finSent /\ id \in c.dynamic /\ c.stream[id].readClosed
      BY Zenon, <2>4, <2>6, <3>2 DEF StreamTidy
    <3>4. n <= Chunks(c)
      BY Zenon, <3>2 DEF Follows, Goes, Chunks
    <3>5. HalfClosed(c, y, id, known, ended)
      BY Zenon, <2>6, <3>1, <3>2, <3>3, <3>4, SendMessageGood
    <3> QED BY Zenon, <1>1, <2>5, <3>5, HalfClosedTrans
  <2>7. CASE ~(x.server /\ ~c.stream[id].writeClosed /\ ~c.stream[id].finBuffered)
    BY Zenon, <1>3, <1>5, <2>5, <2>7
  <2> QED BY Zenon, <2>6, <2>7
<1> QED BY Zenon, <1>4, <1>5

\* A frame with the FIN in QuicStream::OnStreamFrame: StreamDraining when
\* the other direction has ended too.
LEMMA StreamFinReceivedGood ==
  ASSUME NEW x, NEW id \in Ids, NEW known, NEW ended, SessionGood(x, known, ended),
         id \in x.dynamic, id \in ended, StreamTidy(x, id),
         NEW y, y = StreamFinReceived(x, id)
  PROVE  HalfClosed(x, y, id, known, ended) /\ y.dynamic = x.dynamic
<1> DEFINE w == [x EXCEPT !.stream[id].finReceived = TRUE]
<1>1. x \in Sessions /\ x.stream[id] \in Streams /\ StreamGood(x, id, ended)
  BY Zenon, Fields DEF SessionGood
<1>2. Seen(x, id)
  BY Zenon, <1>1 DEF StreamGood
<1>3. y = IF x.stream[id].finSent THEN StreamDraining(w, id) ELSE w
  BY Zenon DEF StreamFinReceived
<1> HIDE DEF w
<1>4. /\ HalfClosed(x, w, id, known, ended) /\ w.dynamic = x.dynamic
      /\ w.stream[id] = [x.stream[id] EXCEPT !.finReceived = TRUE]
  <2>1. FinHeard(x, w, id, known, ended)
    BY Zenon, <1>2, FinReceivedKeeps DEF w
  <2> QED BY Zenon, <2>1 DEF FinHeard
<1>5. w.stream[id].finReceived /\ w.stream[id].finSent = x.stream[id].finSent
  BY <1>1, <1>4 DEF Streams
<1>6. CASE x.stream[id].finSent
  <2>1. y = StreamDraining(w, id) /\ SessionGood(w, known, ended) /\ StreamTidy(w, id)
    BY Zenon, <1>3, <1>4, <1>6 DEF HalfClosed, Kept
  <2>2. Drained(w, y, id, known, ended)
    BY Zenon, <1>4, <1>5, <1>6, <2>1, StreamDrainingGood
  <2>3. StreamTidy(y, id)
    BY Zenon, <2>1, <2>2 DEF Drained, StreamTidy, Unfinished, RstFramed
  <2>4. HalfClosed(w, y, id, known, ended) /\ y.dynamic = x.dynamic
    BY Zenon, <1>4, <2>2, <2>3 DEF Drained, HalfClosed
  <2> QED BY Zenon, <1>1, <1>4, <2>4, HalfClosedTrans
<1>7. CASE ~x.stream[id].finSent
  BY Zenon, <1>3, <1>4, <1>7
<1> QED BY Zenon, <1>6, <1>7

-----------------------------------------------------------------------------
\* The calls that the connection and the application make on a session.

Served(x, y, known, ended) ==
    SessionGood(y, known, ended) /\ Follows(x, y) /\ Tidy(y)

\* A call that works on one stream.
LEMMA HalfClosedServed ==
  ASSUME NEW x, NEW y, NEW id \in Ids, NEW known, NEW ended, Tidy(x),
         HalfClosed(x, y, id, known, ended)
  PROVE  Served(x, y, known, ended)
BY Zenon DEF HalfClosed, Kept, Served, Tidy

\* A call that does one thing after another.
LEMMA ServedTrans ==
  ASSUME NEW x, NEW y, NEW z, NEW known, NEW ended, x \in Sessions,
         Served(x, y, known, ended), Served(y, z, known, ended)
  PROVE  Served(x, z, known, ended)
BY Zenon, FollowsTrans DEF Served, SessionGood

\* A call that does nothing.
LEMMA ServedSelf ==
  ASSUME NEW x, NEW known, NEW ended, SessionGood(x, known, ended), Tidy(x)
  PROVE  Served(x, x, known, ended)
BY Zenon, FollowsSelf DEF Served, SessionGood

\* A session in which no stream has changed.
LEMMA NoStreamChanged ==
  ASSUME NEW x, NEW y, NEW known, NEW ended, SessionGood(x, known, ended), Tidy(x),
         y \in Sessions, ParityGood(y), SessionConsistent(y),
         ~y.server => y.available = {}, y.nextOutgoing = x.nextOutgoing,
         y.server = x.server, y.frames = x.frames, y.headersOut = x.headersOut,
         PeerGrows(x, y), \A i \in Ids : SameStream(x, y, i)
  PROVE  Served(x, y, known, ended)
<1> DEFINE T == {}
<1>1. x.nextOutgoing <= y.nextOutgoing
  <2>1. x.nextOutgoing \in Nat
    BY Zenon, Fields DEF SessionGood
  <2> QED BY <2>1
<1>2. OnlyStreams(x, y, T)
  BY Zenon, <1>1 DEF OnlyStreams
<1>3. /\ T \in SUBSET Ids /\ \A i \in T : StreamGood(y, i, ended)
      /\ \A i \in T : x.server /\ Seen(y, i) => i \in known
      /\ \A i \in Ids : i \in Ids \ T
  BY Zenon
<1> HIDE DEF T
<1>4. /\ SessionGood(y, known, ended) /\ Goes(x, y)
      /\ \A i \in Ids \ T : StreamTidy(x, i) => StreamTidy(y, i)
  BY <1>2, <1>3, OnlyStreamsGood
<1> QED BY Zenon, <1>3, <1>4 DEF Served, Tidy, Follows

\* QuicConnection::CloseConnection and QuicSession::OnConnectionClosed.
LEMMA CloseConnectionGood ==
  ASSUME NEW x, NEW known, NEW ended, SessionGood(x, known, ended), Tidy(x),
         NEW y, y = CloseConnection(x)
  PROVE  Served(x, y, known, ended)
<1> DEFINE w == [x EXCEPT !.connected = FALSE]
<1>1. /\ x \in Sessions /\ ParityGood(x) /\ SessionConsistent(x)
      /\ ~x.server => x.available = {}
  BY Zenon DEF SessionGood
<1>2. /\ w \in Sessions /\ w.server = x.server /\ w.connected = FALSE
      /\ w.dynamic = x.dynamic /\ w.draining = x.draining
      /\ w.locallyClosed = x.locallyClosed /\ w.available = x.available
      /\ w.largestPeer = x.largestPeer /\ w.nextOutgoing = x.nextOutgoing
      /\ w.numDynamicIn = x.numDynamicIn /\ w.numDrainingIn = x.numDrainingIn
      /\ w.numLocallyClosedIn = x.numLocallyClosedIn /\ w.log = x.log
      /\ w.stream = x.stream /\ w.frames = x.frames /\ w.headersOut = x.headersOut
  BY Zenon, <1>1 DEF Sessions
<1>3. y = CloseStreams(w, x.dynamic, FALSE)
  BY Zenon DEF CloseConnection
<1> HIDE DEF w
<1>4. ParityGood(w) /\ SessionConsistent(w)
  <2>1. ParityGood(w) /\ \A S : Incoming(w, S) = Incoming(x, S)
    BY Zenon, <1>1, <1>2, SameCounting
  <2> QED BY Zenon, <1>1, <1>2, <2>1 DEF SessionConsistent
<1>5. \A i \in Ids : SameStream(x, w, i)
  BY Zenon, <1>2 DEF SameStream, Seen, RstFramed
<1>6. Served(x, w, known, ended)
  <2>1. PeerGrows(x, w)
    BY Zenon, <1>1, <1>2, PeerSame
  <2> QED BY <1>1, <1>2, <1>4, <1>5, <2>1, NoStreamChanged
<1>7. SessionGood(w, known, ended) /\ Tidy(w) /\ FALSE \in BOOLEAN
  BY Zenon, <1>6 DEF Served
<1>8. AllCanClose(w, x.dynamic, FALSE)
  <2>1. x.dynamic \in SUBSET Ids
    BY Zenon, <1>1, Fields
  <2>2. ASSUME NEW i \in Closing(w, x.dynamic) PROVE CanClose(w, i, FALSE)
    <3>1. i \in Ids /\ i \in w.dynamic
      BY Zenon, <2>1 DEF Closing
    <3>2. Unfinished(w, i)
      BY Zenon, <1>7, <3>1 DEF Tidy, StreamTidy
    <3> QED BY Zenon, <3>1, <3>2, UnfinishedCanClose
  <2> QED BY Zenon, <2>2 DEF AllCanClose
<1>9. ClosedAll(w, y, x.dynamic, known, ended)
  BY Zenon, <1>3, <1>7, <1>8, CloseStreamsGood
<1>10. Served(w, y, known, ended)
  BY Zenon, <1>7, <1>9 DEF ClosedAll, Served, Tidy
<1> QED BY Zenon, <1>1, <1>6, <1>10, ServedTrans

\* QuicStream::Reset: SendRstStream with the code of the application.
LEMMA ResetGood ==
  ASSUME NEW x, NEW id \in Ids, NEW known, NEW ended, SessionGood(x, known, ended),
         Tidy(x), id \in x.dynamic, x.connected,
         NEW y, y = SendRstStream(x, id, "CANCELLED")
  PROVE  Served(x, y, known, ended)
<1> DEFINE r == Rst(id, "CANCELLED")
           w == [x EXCEPT !.frames = @ \cup {r}]
<1>1. /\ x \in Sessions /\ ParityGood(x) /\ SessionConsistent(x)
      /\ ~x.server => x.available = {}
      /\ StreamGood(x, id, ended)
      /\ x.server /\ Seen(x, id) => id \in known
  BY Zenon DEF SessionGood
<1>2. /\ r.id = id /\ r.type = "CANCELLED" /\ r.type \in RstCodes
      /\ r.type # "STREAM" /\ r \in Frames
      /\ \A i \in Ids : r # Rst(i, "REFUSED")
  <2>1. \A i \in Ids : Rst(i, "REFUSED").type = "REFUSED"
    BY RstFacts, Codes
  <2> QED BY <2>1, RstFacts, Codes
<1>3. y = CloseStreams(w, {id}, TRUE)
  BY Zenon DEF SendRstStream
<1> HIDE DEF r
<1>4. /\ w \in Sessions /\ w.frames = x.frames \cup {r} /\ w.stream = x.stream
      /\ w.headersOut = x.headersOut /\ SameBooks(x, w)
  <2>1. x.frames \cup {r} \in SUBSET Frames
    BY Zenon, <1>1, <1>2, Fields
  <2> QED BY Zenon, <1>1, <2>1 DEF Sessions, SameBooks, Frames
<1> HIDE DEF w
<1>5. ParityGood(w) /\ SessionConsistent(w)
  BY Zenon, <1>1, <1>4, SameBooksCount
<1>6. /\ \A i \in Ids : Seen(w, i) <=> Seen(x, i)
      /\ \A i \in Ids \ {id} : RstFramed(w, i) <=> RstFramed(x, i)
      /\ RstFramed(w, id)
      /\ \A i \in Ids : Rst(i, "REFUSED") \in w.frames <=> Rst(i, "REFUSED") \in x.frames
  <2>1. \A i \in Ids : Seen(w, i) <=> Seen(x, i)
    BY Zenon, <1>4 DEF SameBooks, Seen
  <2> QED BY Zenon, <1>2, <1>4, <2>1 DEF RstFramed
<1>7. /\ w.server = x.server /\ w.connected = x.connected
      /\ w.dynamic = x.dynamic /\ w.draining = x.draining
      /\ w.locallyClosed = x.locallyClosed /\ w.available = x.available
      /\ w.nextOutgoing = x.nextOutgoing /\ w.log = x.log
  BY Zenon, <1>4 DEF SameBooks
<1>8. \A i \in Ids \ {id} : SameStream(x, w, i)
  BY Zenon, <1>4, <1>6, <1>7 DEF SameStream
<1>9. OnlyStreams(x, w, {id})
  <2>1. x.nextOutgoing <= w.nextOutgoing
    <3>1. x.nextOutgoing \in Nat
      BY Zenon, <1>1, Fields
    <3> QED BY <1>7, <3>1
  <2>2. \A i \in {id} : StreamFollows(x, w, i)
    BY Zenon, <1>4, <1>6, <1>7 DEF StreamFollows, CountedOpen
  <2>3. Seen(w, id)
    BY Zenon, <1>1, <1>6 DEF StreamGood
  <2>4. \A f \in w.frames :
          \/ f \in x.frames
          \/ /\ f.id \in {id} /\ Seen(w, f.id)
             /\ f.type = "STREAM" /\ f.fin => w.stream[f.id].finSent
    BY Zenon, <1>2, <1>4, <2>3
  <2>5. PeerGrows(x, w)
    BY Zenon, <1>1, <1>4, PeerSame DEF SameBooks
  <2> QED BY Zenon, <1>1, <1>4, <1>5, <1>7, <1>8, <2>1, <2>2, <2>4, <2>5
          DEF OnlyStreams
<1>10. StreamGood(w, id, ended)
  <2>1. w.stream[id].written <= Chunks(w)
    BY Zenon, <1>1, <1>4, <1>7 DEF StreamGood, Chunks
  <2> QED BY Zenon, <1>1, <1>4, <1>6, <1>7, <2>1 DEF StreamGood
<1>11. Seen(w, id) /\ (x.server => id \in known)
  BY Zenon, <1>1, <1>6 DEF StreamGood
<1>12. Kept(x, w, id, known, ended)
  BY Zenon, <1>7, <1>9, <1>10, <1>11, OnlyStreamGood DEF Kept, Follows
<1>13. CanClose(w, id, TRUE)
  <2>1. CanClose(x, id, FALSE)
    BY Zenon, UnfinishedCanClose DEF Tidy, StreamTidy
  <2> QED BY Zenon, <1>6, <2>1 DEF CanClose
<1>14. SessionGood(w, known, ended) /\ TRUE \in BOOLEAN
  BY Zenon, <1>12 DEF Kept
<1>15. Closed(w, y, id, known, ended)
  BY Zenon, <1>3, <1>11, <1>13, <1>14, CloseOneGood
<1>16. Kept(x, y, id, known, ended)
  BY Zenon, <1>1, <1>12, <1>15, KeptTrans DEF Closed
<1> QED BY Zenon, <1>15, <1>16 DEF Closed, Kept, Served, Tidy, StreamTidy

\* QuicSession::OnFinalByteOffsetReceived: the stream is no longer counted.
LEMMA OnFinalByteOffsetReceivedGood ==
  ASSUME NEW x, NEW id \in Ids, NEW known, NEW ended, SessionGood(x, known, ended),
         Tidy(x), id \in ended, NEW y, y = OnFinalByteOffsetReceived(x, id)
  PROVE  Served(x, y, known, ended)
<1>1. /\ x \in Sessions /\ ParityGood(x) /\ SessionConsistent(x)
      /\ ~x.server => x.available = {}
      /\ StreamGood(x, id, ended)
      /\ x.server /\ Seen(x, id) => id \in known
  BY Zenon DEF SessionGood
<1>2. /\ x.server \in BOOLEAN /\ x.locallyClosed \in SUBSET Ids
      /\ x.nextOutgoing \in Nat /\ {id} \in SUBSET Ids
      /\ {id} \cap x.locallyClosed = x.locallyClosed \cap {id}
  BY Zenon, <1>1, Fields
<1>3. /\ y.server = x.server /\ y.connected = x.connected
      /\ y.dynamic = x.dynamic /\ y.draining = x.draining
      /\ y.locallyClosed = x.locallyClosed \ {id} /\ y.available = x.available
      /\ y.largestPeer = x.largestPeer /\ y.nextOutgoing = x.nextOutgoing
      /\ y.numDynamicIn = x.numDynamicIn /\ y.numDrainingIn = x.numDrainingIn
      /\ y.numLocallyClosedIn =
            x.numLocallyClosedIn - Cardinality(Incoming(x, {id} \cap x.locallyClosed))
      /\ y.log = x.log
      /\ y.stream = x.stream /\ y.frames = x.frames /\ y.headersOut = x.headersOut
  BY Zenon, <1>1 DEF OnFinalByteOffsetReceived, Sessions
<1>4. /\ Cardinality(Incoming(x, x.locallyClosed \ {id})) =
            Cardinality(Incoming(x, x.locallyClosed))
               - Cardinality(Incoming(x, x.locallyClosed \cap {id}))
      /\ Cardinality(Incoming(x, x.locallyClosed \ {id})) \in Nat
  <2> DEFINE B == {id}
  <2>1. B \in SUBSET Ids /\ x.locallyClosed \ B \in SUBSET Ids
    BY Zenon, <1>2
  <2> HIDE DEF B
  <2>2. Cardinality(Incoming(x, x.locallyClosed \ B)) =
            Cardinality(Incoming(x, x.locallyClosed))
               - Cardinality(Incoming(x, x.locallyClosed \cap B))
    BY <1>1, <1>2, <2>1, Counts
  <2>3. Cardinality(Incoming(x, x.locallyClosed \ B)) \in Nat
    BY Zenon, <1>1, <1>2, <2>1, Counts
  <2> QED BY Zenon, <2>2, <2>3 DEF B
<1>5. x.numLocallyClosedIn = Cardinality(Incoming(x, x.locallyClosed))
  BY Zenon, <1>1 DEF SessionConsistent
<1>6. /\ y.numLocallyClosedIn = Cardinality(Incoming(x, y.locallyClosed))
      /\ y.numLocallyClosedIn \in Nat
  BY Zenon, <1>2, <1>3, <1>4, <1>5
<1>7. y \in Sessions
  <2>1. y.locallyClosed \in SUBSET Ids
    BY Zenon, <1>2, <1>3
  <2>2. y = [x EXCEPT !.locallyClosed = y.locallyClosed,
                      !.numLocallyClosedIn = y.numLocallyClosedIn]
    BY Zenon, <1>1 DEF OnFinalByteOffsetReceived, Sessions
  <2> QED BY Zenon, <1>1, <1>6, <2>1, <2>2 DEF Sessions
<1>8. ParityGood(y) /\ \A S : Incoming(y, S) = Incoming(x, S)
  BY Zenon, <1>1, <1>3, SameCounting
<1>9. SessionConsistent(y)
  BY Zenon, <1>1, <1>3, <1>6, <1>8 DEF SessionConsistent
<1>10. /\ \A i \in Ids : Seen(y, i) <=> Seen(x, i)
       /\ \A i \in Ids : RstFramed(y, i) <=> RstFramed(x, i)
  BY Zenon, <1>3 DEF Seen, RstFramed
<1>11. \A i \in Ids \ {id} : SameStream(x, y, i)
  BY Zenon, <1>3, <1>10 DEF SameStream
<1>12. OnlyStreams(x, y, {id})
  <2>1. x.nextOutgoing <= y.nextOutgoing
    BY <1>2, <1>3
  <2>2. \A i \in {id} : StreamFollows(x, y, i)
    BY Zenon, <1>3, <1>10 DEF StreamFollows, CountedOpen
  <2>3. PeerGrows(x, y)
    BY Zenon, <1>1, <1>3, PeerSame
  <2> QED BY Zenon, <1>1, <1>3, <1>7, <1>8, <1>9, <1>11, <2>1, <2>2, <2>3 DEF OnlyStreams
<1>13. StreamGood(y, id, ended)
  <2>1. y.stream[id].written <= Chunks(y)
    BY Zenon, <1>1, <1>3 DEF StreamGood, Chunks
  <2> QED BY Zenon, <1>1, <1>3, <1>10, <2>1 DEF StreamGood
<1>14. StreamTidy(y, id)
  BY Zenon, <1>3, <1>10 DEF Tidy, StreamTidy, Unfinished
<1>15. x.server /\ Seen(y, id) => id \in known
  BY Zenon, <1>1, <1>10
<1>16. /\ SessionGood(y, known, ended) /\ Goes(x, y)
       /\ \A i \in Ids \ {id} : StreamTidy(x, i) => StreamTidy(y, i)
  BY Zenon, <1>12, <1>13, <1>15, OnlyStreamGood
<1> QED BY Zenon, <1>3, <1>14, <1>16 DEF Served, Tidy, Follows

-----------------------------------------------------------------------------
\* Opening streams.

\* Stream id is named for the first time, and nothing else has happened.
Named(x, y, id) ==
    /\ y \in Sessions /\ ParityGood(y) /\ y.server = x.server
    /\ x.nextOutgoing <= y.nextOutgoing /\ PeerGrows(x, y)
    /\ ~y.server => y.available = {}
    /\ y.available \cap (x.dynamic \cup x.locallyClosed \cup {id}) = {}
    /\ \A i \in Ids \ {id} : Seen(y, i) <=> Seen(x, i)
    /\ ~Seen(x, id) /\ Seen(y, id)

NamedOnly(x, y) ==
    /\ y.connected = x.connected /\ y.dynamic = x.dynamic
    /\ y.draining = x.draining /\ y.locallyClosed = x.locallyClosed
    /\ y.numDynamicIn = x.numDynamicIn /\ y.numDrainingIn = x.numDrainingIn
    /\ y.numLocallyClosedIn = x.numLocallyClosedIn /\ y.log = x.log
    /\ y.stream = x.stream /\ y.frames = x.frames /\ y.headersOut = x.headersOut

\* A stream that was never named is new.
LEMMA UnseenIsNew ==
  ASSUME NEW x, NEW id \in Ids, NEW known, NEW ended, SessionGood(x, known, ended),
         ~Seen(x, id)
  PROVE  /\ id \notin x.dynamic /\ id \notin x.locallyClosed /\ id \notin x.draining
         /\ x.stream[id] = NewStream /\ ~RstFramed(x, id)
         /\ x.server => x.log[id] = 0
         /\ Rst(id, "REFUSED") \notin x.frames
<1>1. StreamGood(x, id, ended) /\ SessionConsistent(x)
  BY Zenon DEF SessionGood
<1>2. Rst(id, "REFUSED").id = id /\ Rst(id, "REFUSED").type \in RstCodes
  BY RstFacts, Codes
<1>3. /\ id \notin x.dynamic /\ id \notin x.locallyClosed
      /\ x.stream[id] = NewStream /\ ~RstFramed(x, id)
      /\ x.server => x.log[id] = 0
  BY Zenon, <1>1 DEF StreamGood
<1>4. id \notin x.draining
  BY Zenon, <1>1, <1>3 DEF SessionConsistent
<1>5. Rst(id, "REFUSED") \notin x.frames
  BY Zenon, <1>2, <1>3 DEF RstFramed
<1> QED BY Zenon, <1>3, <1>4, <1>5

\* The fields of a new stream.
LEMMA NewStreamFacts ==
  /\ NewStream.written = 0 /\ ~NewStream.finBuffered /\ ~NewStream.finSent
  /\ ~NewStream.rstSent /\ ~NewStream.readClosed /\ ~NewStream.writeClosed
  /\ ~Heard(NewStream)
BY DEF NewStream, Heard

Activated(x, y, id, known, ended) ==
    /\ SessionGood(y, known, ended) /\ Goes(x, y) /\ Seen(y, id)
    /\ \A i \in Ids \ {id} : StreamTidy(x, i) => StreamTidy(y, i)
    /\ StreamTidy(y, id)
    /\ id \in y.dynamic /\ y.stream[id] = NewStream

\* QuicSession::ActivateStream of a new stream.
LEMMA ActivateStreamGood ==
  ASSUME NEW x, NEW id \in Ids, NEW known, NEW ended, SessionGood(x, known, ended),
         NEW w, Named(x, w, id), NamedOnly(x, w), x.server => id \in known,
         NEW y, y = ActivateStream(w, id)
  PROVE  Activated(x, y, id, known, ended)
<1>1. /\ x \in Sessions /\ ParityGood(x) /\ SessionConsistent(x)
      /\ x.server \in BOOLEAN /\ x.dynamic \in SUBSET Ids /\ x.draining \in SUBSET Ids
      /\ x.locallyClosed \in SUBSET Ids
  BY Zenon, Fields DEF SessionGood
<1>2. /\ w \in Sessions /\ ParityGood(w) /\ w.server = x.server
      /\ x.nextOutgoing <= w.nextOutgoing /\ ~Seen(x, id) /\ Seen(w, id)
      /\ \A i \in Ids \ {id} : Seen(w, i) <=> Seen(x, i)
      /\ ~w.server => w.available = {}
      /\ w.available \cap (x.dynamic \cup x.locallyClosed \cup {id}) = {}
      /\ PeerGrows(x, w)
  BY Zenon DEF Named
<1>3. /\ id \notin x.dynamic /\ id \notin x.locallyClosed /\ id \notin x.draining
      /\ x.stream[id] = NewStream /\ ~RstFramed(x, id)
      /\ x.server => x.log[id] = 0
      /\ Rst(id, "REFUSED") \notin x.frames
  BY <1>2, UnseenIsNew
<1>4. /\ y.server = w.server /\ y.connected = w.connected
      /\ y.dynamic = w.dynamic \cup {id} /\ y.draining = w.draining
      /\ y.locallyClosed = w.locallyClosed /\ y.available = w.available
      /\ y.largestPeer = w.largestPeer /\ y.nextOutgoing = w.nextOutgoing
      /\ y.numDynamicIn = w.numDynamicIn + Cardinality(Incoming(w, {id}))
      /\ y.numDrainingIn = w.numDrainingIn
      /\ y.numLocallyClosedIn = w.numLocallyClosedIn /\ y.log = w.log
      /\ y.stream = w.stream /\ y.frames = w.frames /\ y.headersOut = w.headersOut
  BY Zenon, <1>2 DEF ActivateStream, Sessions
<1>5. /\ y.server = x.server /\ y.connected = x.connected
      /\ y.dynamic = x.dynamic \cup {id} /\ y.draining = x.draining
      /\ y.locallyClosed = x.locallyClosed
      /\ y.numDynamicIn = x.numDynamicIn + Cardinality(Incoming(w, {id}))
      /\ y.numDrainingIn = x.numDrainingIn
      /\ y.numLocallyClosedIn = x.numLocallyClosedIn /\ y.log = x.log
      /\ y.stream = x.stream /\ y.frames = x.frames /\ y.headersOut = x.headersOut
  BY Zenon, <1>2, <1>4 DEF NamedOnly
<1>6. \A S \in SUBSET Ids : Incoming(w, S) = Incoming(x, S)
  BY Zenon, <1>1, <1>2, IncomingIs
<1>7. /\ Cardinality(Incoming(x, {id})) \in Nat
      /\ Cardinality(Incoming(x, x.dynamic \cup {id})) =
            Cardinality(Incoming(x, x.dynamic)) + Cardinality(Incoming(x, {id}))
  <2> DEFINE B == {id}
  <2>1. B \in SUBSET Ids /\ x.dynamic \cap B = {}
    BY Zenon, <1>3
  <2> HIDE DEF B
  <2>2. /\ Cardinality(Incoming(x, B)) \in Nat
        /\ Cardinality(Incoming(x, x.dynamic \cup B)) =
              Cardinality(Incoming(x, x.dynamic)) + Cardinality(Incoming(x, B))
    BY <1>1, <2>1, Counts
  <2> QED BY Zenon, <2>2 DEF B
<1>8. y \in Sessions
  <2>1. y.dynamic \in SUBSET Ids /\ Incoming(w, {id}) = Incoming(x, {id})
    BY Zenon, <1>1, <1>5, <1>6
  <2>2. x.numDynamicIn \in Nat
    BY Zenon, <1>1, Fields
  <2>3. y.numDynamicIn \in Nat
    BY <1>5, <1>7, <2>1, <2>2
  <2>4. y = [w EXCEPT !.dynamic = y.dynamic, !.numDynamicIn = y.numDynamicIn]
    BY Zenon, <1>2 DEF ActivateStream, Sessions
  <2> QED BY Zenon, <1>2, <2>1, <2>3, <2>4 DEF Sessions
<1>9. ParityGood(y) /\ \A S \in SUBSET Ids : Incoming(y, S) = Incoming(x, S)
  <2>1. ParityGood(y) /\ \A S : Incoming(y, S) = Incoming(w, S)
    BY Zenon, <1>2, <1>4, SameCounting
  <2> QED BY Zenon, <1>6, <2>1
<1>10. SessionConsistent(y)
  <2>1. y.numDynamicIn = Cardinality(Incoming(y, y.dynamic))
    <3>1. x.numDynamicIn = Cardinality(Incoming(x, x.dynamic))
      BY Zenon, <1>1 DEF SessionConsistent
    <3>2. Incoming(w, {id}) = Incoming(x, {id}) /\ y.dynamic \in SUBSET Ids
      BY Zenon, <1>1, <1>5, <1>6
    <3>3. Incoming(y, y.dynamic) = Incoming(x, x.dynamic \cup {id})
      BY Zenon, <1>5, <1>9, <3>2
    <3> QED BY Zenon, <1>5, <1>7, <3>1, <3>2, <3>3
  <2>2. /\ y.draining \subseteq y.dynamic /\ y.locallyClosed \cap y.dynamic = {}
        /\ y.available \cap (y.dynamic \cup y.locallyClosed) = {}
    BY Zenon, <1>1, <1>2, <1>3, <1>4, <1>5 DEF SessionConsistent
  <2>3. /\ y.numDrainingIn = Cardinality(Incoming(y, y.draining))
        /\ y.numLocallyClosedIn = Cardinality(Incoming(y, y.locallyClosed))
    BY Zenon, <1>1, <1>5, <1>9 DEF SessionConsistent
  <2> QED BY Zenon, <2>1, <2>2, <2>3 DEF SessionConsistent
<1>11. /\ \A i \in Ids \ {id} : Seen(y, i) <=> Seen(x, i)
       /\ Seen(y, id)
       /\ \A i \in Ids : RstFramed(y, i) <=> RstFramed(x, i)
  <2>1. \A i \in Ids : Seen(y, i) <=> Seen(w, i)
    BY Zenon, <1>4 DEF Seen
  <2> QED BY Zenon, <1>2, <1>5, <2>1 DEF RstFramed
<1>12. \A i \in Ids \ {id} : SameStream(x, y, i)
  BY Zenon, <1>5, <1>11 DEF SameStream
<1>13. OnlyStreams(x, y, {id})
  <2>1. x.nextOutgoing <= y.nextOutgoing
    BY Zenon, <1>2, <1>4
  <2>2. \A i \in {id} : StreamFollows(x, y, i)
    BY Zenon, <1>2, <1>5, <1>11 DEF StreamFollows
  <2>3. ~y.server => y.available = {}
    BY Zenon, <1>2, <1>4
  <2>4. PeerGrows(x, y)
    BY Zenon, <1>2, <1>4 DEF PeerGrows
  <2> QED BY Zenon, <1>5, <1>8, <1>9, <1>10, <1>12, <2>1, <2>2, <2>3, <2>4 DEF OnlyStreams
<1>14. y.stream[id] = NewStream /\ id \in y.dynamic /\ ~RstFramed(y, id)
  BY Zenon, <1>3, <1>5, <1>11
<1>15. StreamGood(y, id, ended)
  <2>1. NewStream.written <= Chunks(y)
    BY ChunksType, NewStreamFacts
  <2>2. id \notin y.draining /\ (y.server => y.log[id] = 0)
    BY Zenon, <1>3, <1>5
  <2> QED BY Zenon, <1>11, <1>14, <2>1, <2>2, NewStreamFacts DEF StreamGood
<1>16. StreamTidy(y, id)
  BY Zenon, <1>14, NewStreamFacts DEF StreamTidy, Unfinished
<1>17. /\ SessionGood(y, known, ended) /\ Goes(x, y)
       /\ \A i \in Ids \ {id} : StreamTidy(x, i) => StreamTidy(y, i)
  BY Zenon, <1>13, <1>15, OnlyStreamGood
<1> QED BY Zenon, <1>11, <1>14, <1>16, <1>17 DEF Activated

\* QUIC_REFUSED_STREAM: the stream is over before it was opened.
LEMMA RefuseGood ==
  ASSUME NEW x, NEW id \in Ids, NEW known, NEW ended, SessionGood(x, known, ended),
         NEW w, Named(x, w, id), NamedOnly(x, w), x.server, id \in known, x.connected,
         w.nextOutgoing = x.nextOutgoing, NEW y, y = SendRstStream(w, id, "REFUSED")
  PROVE  Closed(x, y, id, known, ended)
<1> DEFINE r == Rst(id, "REFUSED")
           v == [w EXCEPT !.frames = @ \cup {r}]
<1>1. /\ x \in Sessions /\ ParityGood(x) /\ SessionConsistent(x)
      /\ x.server \in BOOLEAN /\ x.dynamic \in SUBSET Ids /\ x.draining \in SUBSET Ids
      /\ x.locallyClosed \in SUBSET Ids
  BY Zenon, Fields DEF SessionGood
<1>2. /\ w \in Sessions /\ ParityGood(w) /\ w.server = x.server
      /\ x.nextOutgoing <= w.nextOutgoing /\ ~Seen(x, id) /\ Seen(w, id)
      /\ \A i \in Ids \ {id} : Seen(w, i) <=> Seen(x, i)
      /\ ~w.server => w.available = {}
      /\ w.available \cap (x.dynamic \cup x.locallyClosed \cup {id}) = {}
      /\ PeerGrows(x, w)
  BY Zenon DEF Named
<1>3. /\ id \notin x.dynamic /\ id \notin x.locallyClosed /\ id \notin x.draining
      /\ x.stream[id] = NewStream /\ ~RstFramed(x, id)
      /\ x.server => x.log[id] = 0
      /\ Rst(id, "REFUSED") \notin x.frames
  BY <1>2, UnseenIsNew
<1>4. /\ r.id = id /\ r.type \in RstCodes /\ r.type # "STREAM" /\ r \in Frames
      /\ \A i \in Ids \ {id} : r # Rst(i, "REFUSED")
  <2>1. \A i \in Ids : Rst(i, "REFUSED").id = i
    BY RstFacts, Codes
  <2> QED BY <2>1, RstFacts, Codes
<1>5. w.connected
  BY Zenon DEF NamedOnly
<1>6. y = CloseStreams(v, {id}, TRUE)
  BY Zenon, <1>5 DEF SendRstStream
<1>7. r \in v.frames /\ r = Rst(id, "REFUSED")
  BY Zenon, <1>2 DEF Sessions
<1> HIDE DEF r
<1>8. /\ v \in Sessions /\ v.frames = w.frames \cup {r} /\ v.stream = w.stream
      /\ v.headersOut = w.headersOut /\ SameBooks(w, v)
  <2>1. w.frames \cup {r} \in SUBSET Frames
    BY Zenon, <1>2, <1>4, Fields
  <2> QED BY Zenon, <1>2, <2>1 DEF Sessions, SameBooks, Frames
<1> HIDE DEF v
<1>9. /\ v.server = x.server /\ v.connected = x.connected
      /\ v.dynamic = x.dynamic /\ v.draining = x.draining
      /\ v.locallyClosed = x.locallyClosed
      /\ v.numDynamicIn = x.numDynamicIn /\ v.numDrainingIn = x.numDrainingIn
      /\ v.numLocallyClosedIn = x.numLocallyClosedIn /\ v.log = x.log
      /\ v.stream = x.stream /\ v.frames = x.frames \cup {r}
      /\ v.headersOut = x.headersOut /\ v.available = w.available
      /\ v.nextOutgoing = w.nextOutgoing /\ v.largestPeer = w.largestPeer
  BY Zenon, <1>2, <1>8 DEF SameBooks, NamedOnly
<1>10. ParityGood(v) /\ \A S \in SUBSET Ids : Incoming(v, S) = Incoming(x, S)
  <2>1. ParityGood(v)
    BY Zenon, <1>2, <1>9, SameCounting
  <2> QED BY Zenon, <1>1, <1>9, <2>1, IncomingIs
<1>11. SessionConsistent(v)
  <2>1. v.available \cap (v.dynamic \cup v.locallyClosed) = {}
    BY Zenon, <1>2, <1>9
  <2>2. /\ v.numDynamicIn = Cardinality(Incoming(v, v.dynamic))
        /\ v.numDrainingIn = Cardinality(Incoming(v, v.draining))
        /\ v.numLocallyClosedIn = Cardinality(Incoming(v, v.locallyClosed))
    BY Zenon, <1>1, <1>9, <1>10 DEF SessionConsistent
  <2> QED BY Zenon, <1>1, <1>9, <2>1, <2>2 DEF SessionConsistent
<1>12. /\ \A i \in Ids \ {id} : Seen(v, i) <=> Seen(x, i)
       /\ Seen(v, id)
       /\ \A i \in Ids \ {id} : RstFramed(v, i) <=> RstFramed(x, i)
       /\ RstFramed(v, id)
       /\ \A i \in Ids \ {id} :
             Rst(i, "REFUSED") \in v.frames <=> Rst(i, "REFUSED") \in x.frames
  <2>1. \A i \in Ids : Seen(v, i) <=> Seen(w, i)
    BY Zenon, <1>2, <1>9 DEF Seen
  <2> QED BY Zenon, <1>2, <1>4, <1>9, <2>1 DEF RstFramed
<1>13. \A i \in Ids \ {id} : SameStream(x, v, i)
  BY Zenon, <1>9, <1>12 DEF SameStream
<1>14. OnlyStreams(x, v, {id})
  <2>1. \A i \in {id} : StreamFollows(x, v, i)
    BY Zenon, <1>2, <1>9, <1>12 DEF StreamFollows
  <2>2. \A f \in v.frames :
          \/ f \in x.frames
          \/ /\ f.id \in {id} /\ Seen(v, f.id)
             /\ f.type = "STREAM" /\ f.fin => v.stream[f.id].finSent
    BY Zenon, <1>4, <1>9, <1>12
  <2>3. x.nextOutgoing <= v.nextOutgoing /\ (~v.server => v.available = {})
    BY Zenon, <1>2, <1>9
  <2>4. PeerGrows(x, v)
    BY Zenon, <1>2, <1>9 DEF PeerGrows
  <2> QED BY Zenon, <1>8, <1>9, <1>10, <1>11, <1>13, <2>1, <2>2, <2>3, <2>4 DEF OnlyStreams
<1>15. StreamGood(v, id, ended)
  <2>1. NewStream.written <= Chunks(v)
    BY ChunksType, NewStreamFacts
  <2>2. /\ id \notin v.draining /\ id \notin v.dynamic /\ v.log[id] = 0
        /\ v.stream[id] = NewStream /\ v.server /\ Rst(id, "REFUSED") \in v.frames
    BY Zenon, <1>3, <1>7, <1>9
  <2> QED BY Zenon, <1>12, <2>1, <2>2, NewStreamFacts DEF StreamGood
<1>16. Kept(x, v, id, known, ended)
  BY Zenon, <1>9, <1>12, <1>14, <1>15, OnlyStreamGood DEF Kept, Follows
<1>17. SessionGood(v, known, ended) /\ Seen(v, id) /\ id \notin v.dynamic
  BY Zenon, <1>3, <1>9, <1>16 DEF Kept
<1>18. Closed(v, y, id, known, ended)
  BY Zenon, <1>6, <1>17, CloseOneGood
<1>19. Kept(x, y, id, known, ended)
  BY Zenon, <1>1, <1>16, <1>18, KeptTrans DEF Closed
<1> QED BY Zenon, <1>3, <1>9, <1>18, <1>19 DEF Closed

\* MaybeIncreaseLargestPeerStreamId names a stream and makes those between
\* available.
LEMMA PeerNames ==
  ASSUME NEW x, NEW id \in Ids, NEW known, NEW ended, SessionGood(x, known, ended),
         x.server, ~Seen(x, id), NEW y,
         y = MaybeIncreaseLargestPeerStreamId([x EXCEPT !.available = @ \ {id}], id)
  PROVE  Named(x, y, id) /\ NamedOnly(x, y) /\ y.nextOutgoing = x.nextOutgoing
<1> DEFINE w == [x EXCEPT !.available = @ \ {id}]
           new == {i \in Ids : x.largestPeer < i /\ i < id}
<1>1. /\ x \in Sessions /\ ParityGood(x) /\ SessionConsistent(x)
      /\ x.available \in SUBSET Ids /\ x.largestPeer \in Nat /\ x.nextOutgoing \in Nat
      /\ x.dynamic \in SUBSET Ids /\ x.locallyClosed \in SUBSET Ids
  BY Zenon, Fields DEF SessionGood
<1>2. Ids \subseteq Nat
  BY IdsAssumption
<1>3. /\ y = [x EXCEPT !.available = y.available, !.largestPeer = y.largestPeer]
      /\ id <= x.largestPeer =>
            y.available = x.available \ {id} /\ y.largestPeer = x.largestPeer
      /\ ~(id <= x.largestPeer) =>
            y.available = (x.available \ {id}) \cup new /\ y.largestPeer = id
  <2>1. /\ w \in Sessions /\ w.available = x.available \ {id}
        /\ w.largestPeer = x.largestPeer
    BY Zenon, <1>1 DEF Sessions
  <2>2. NewlyAvailable(w, id) = new
    BY Zenon, <2>1 DEF NewlyAvailable
  <2>3. CASE id <= x.largestPeer
    <3>1. y = w
      BY Zenon, <2>1, <2>3 DEF MaybeIncreaseLargestPeerStreamId
    <3>2. w = [x EXCEPT !.available = w.available, !.largestPeer = w.largestPeer]
      BY Zenon, <1>1, <2>1 DEF Sessions
    <3> QED BY Zenon, <2>1, <2>3, <3>1, <3>2
  <2>4. CASE ~(id <= x.largestPeer)
    <3> HIDE DEF new
    <3>1. y = [w EXCEPT !.available = @ \cup new, !.largestPeer = id]
      BY Zenon, <2>1, <2>2, <2>4 DEF MaybeIncreaseLargestPeerStreamId
    <3>2. y.available = (x.available \ {id}) \cup new /\ y.largestPeer = id
      BY Zenon, <2>1, <3>1 DEF Sessions
    <3>3. y = [x EXCEPT !.available = y.available, !.largestPeer = y.largestPeer]
      BY Zenon, <1>1, <3>1, <3>2 DEF Sessions
    <3> QED BY Zenon, <2>4, <3>2, <3>3
  <2> QED BY Zenon, <2>3, <2>4
<1>4. y.available \in SUBSET Ids /\ y.largestPeer \in Nat
  BY <1>1, <1>2, <1>3
<1> HIDE DEF w
<1>5. /\ y \in Sessions /\ y.server = x.server /\ y.nextOutgoing = x.nextOutgoing
      /\ NamedOnly(x, y)
  <2>1. x \in Sessions
        /\ y = [x EXCEPT !.available = y.available, !.largestPeer = y.largestPeer]
    BY Zenon, <1>1, <1>3
  <2> QED BY Zenon, <1>4, <2>1 DEF Sessions, NamedOnly
<1>6. /\ \A i \in Ids \ {id} : Seen(y, i) <=> Seen(x, i)
      /\ Seen(y, id)
  <2>1. /\ ~(id <= x.largestPeer /\ id \notin x.available)
        /\ \A i \in Ids : Seen(x, i) <=> i <= x.largestPeer /\ i \notin x.available
        /\ \A i \in Ids : Seen(y, i) <=> i <= y.largestPeer /\ i \notin y.available
    BY Zenon, <1>5 DEF Seen
  <2>2. CASE id <= x.largestPeer
    BY <1>2, <1>3, <2>1, <2>2
  <2>3. CASE ~(id <= x.largestPeer)
    <3>1. ASSUME NEW i \in Ids \ {id} PROVE Seen(y, i) <=> Seen(x, i)
      <4>1. i \in y.available <=> i \in x.available \/ (x.largestPeer < i /\ i < id)
        BY <1>3, <2>3
      <4>2. i \in Nat /\ id \in Nat /\ x.largestPeer \in Nat /\ y.largestPeer = id
        BY <1>1, <1>2, <1>3, <2>3
      <4>3. i <= id /\ ~(i < id) => i = id
        BY <4>2
      <4>4. /\ Seen(x, i) <=> i <= x.largestPeer /\ i \notin x.available
            /\ Seen(y, i) <=> i <= id /\ i \notin y.available
        BY Zenon, <2>1, <4>2
      <4> HIDE DEF new
      <4> QED BY <2>3, <4>1, <4>2, <4>4
    <3>2. Seen(y, id)
      BY <1>2, <1>3, <2>1, <2>3
    <3> QED BY Zenon, <3>1, <3>2
  <2> QED BY Zenon, <2>2, <2>3
<1>7. y.available \cap (x.dynamic \cup x.locallyClosed \cup {id}) = {}
  <2>1. \A i \in Ids : i \in x.dynamic \cup x.locallyClosed => Seen(x, i)
    BY Zenon DEF SessionGood, StreamGood
  <2>2. \A i \in Ids : Seen(y, i) => i \notin y.available
    BY Zenon, <1>5 DEF Seen
  <2> QED BY Zenon, <1>1, <1>6, <2>1, <2>2
<1>8. ParityGood(y) /\ x.nextOutgoing <= y.nextOutgoing
  <2>1. x.nextOutgoing <= y.nextOutgoing
    BY <1>1, <1>5
  <2> QED BY Zenon, <1>1, <1>5, <2>1, SameCounting
<1>9. PeerGrows(x, y)
  <2>1. CASE id <= x.largestPeer
    BY <1>1, <1>3, <2>1, PeerSame
  <2>2. CASE ~(id <= x.largestPeer)
    <3>1. x.largestPeer <= y.largestPeer
      BY <1>1, <1>2, <1>3, <2>2
    <3>2. \A i \in new : i <= id
      BY <1>2
    <3> QED BY Zenon, <1>3, <2>2, <3>1, <3>2 DEF PeerGrows
  <2> QED BY Zenon, <2>1, <2>2
<1> QED BY Zenon, <1>5, <1>6, <1>7, <1>8, <1>9 DEF Named

\* QuicSession::GetOrCreateDynamicStream: the stream is there, or closed, or
\* is opened; or it is refused, or the connection is closed.
LEMMA GetOrCreateGood ==
  ASSUME NEW x, NEW id \in Ids, NEW known, NEW ended, SessionGood(x, known, ended),
         Tidy(x), x.connected, x.server => id \in known,
         NEW y, y = GetOrCreateDynamicStream(x, id)
  PROVE  Served(x, y, known, ended)
<1> DEFINE w == [x EXCEPT !.available = @ \ {id}]
           v == MaybeIncreaseLargestPeerStreamId(w, id)
<1>1. /\ x \in Sessions /\ ParityGood(x) /\ SessionConsistent(x)
      /\ x.server \in BOOLEAN /\ x.available \in SUBSET Ids
      /\ ~x.server => x.available = {}
  BY Zenon, Fields DEF SessionGood
<1>2. IsClosedStream(x, id) <=> id \notin x.dynamic /\ Seen(x, id)
  BY Zenon, <1>1, ClosedIs
<1>3. IsIncomingStream(x, id) <=> x.server
  BY Zenon, <1>1, IncomingIs
<1>4. CASE id \in x.dynamic \/ Seen(x, id)
  <2>1. y = x
    BY Zenon, <1>2, <1>4 DEF GetOrCreateDynamicStream
  <2> QED BY Zenon, <2>1, ServedSelf
<1>5. CASE id \notin x.dynamic /\ ~Seen(x, id) /\ ~x.server
  <2>1. y = CloseConnection(x)
    BY Zenon, <1>2, <1>3, <1>5 DEF GetOrCreateDynamicStream
  <2> QED BY Zenon, <2>1, CloseConnectionGood
<1>6. CASE id \notin x.dynamic /\ ~Seen(x, id) /\ x.server /\ TooManyAvailable(w, id)
  <2>1. y = CloseConnection(w)
    BY Zenon, <1>2, <1>3, <1>6 DEF GetOrCreateDynamicStream
  <2>2. /\ w \in Sessions /\ w.available = x.available \ {id}
        /\ w.server = x.server /\ w.connected = x.connected
        /\ w.dynamic = x.dynamic /\ w.draining = x.draining
        /\ w.locallyClosed = x.locallyClosed /\ w.nextOutgoing = x.nextOutgoing
        /\ w.numDynamicIn = x.numDynamicIn /\ w.numDrainingIn = x.numDrainingIn
        /\ w.numLocallyClosedIn = x.numLocallyClosedIn /\ w.log = x.log
        /\ w.largestPeer = x.largestPeer
        /\ w.stream = x.stream /\ w.frames = x.frames /\ w.headersOut = x.headersOut
    BY Zenon, <1>1 DEF Sessions
  <2> HIDE DEF w
  <2>3. ~(id <= x.largestPeer)
    <3>1. id > w.largestPeer /\ w.largestPeer \in Nat /\ id \in Nat
      BY <1>6, <2>2, Fields, IdsAssumption DEF TooManyAvailable
    <3> QED BY <2>2, <3>1
  <2>4. \A i \in Ids : SameStream(x, w, i)
    <3>1. \A i \in Ids : Seen(w, i) <=> Seen(x, i)
      BY Zenon, <2>2, <2>3 DEF Seen
    <3> QED BY Zenon, <2>2, <3>1 DEF SameStream, RstFramed
  <2>5. ParityGood(w) /\ SessionConsistent(w)
    <3>1. ParityGood(w) /\ \A S : Incoming(w, S) = Incoming(x, S)
      BY Zenon, <1>1, <2>2, SameCounting
    <3>2. w.available \cap (w.dynamic \cup w.locallyClosed) = {}
      BY Zenon, <1>1, <2>2 DEF SessionConsistent
    <3>3. /\ Incoming(w, w.dynamic) = Incoming(x, x.dynamic)
          /\ Incoming(w, w.draining) = Incoming(x, x.draining)
          /\ Incoming(w, w.locallyClosed) = Incoming(x, x.locallyClosed)
      BY Zenon, <2>2, <3>1
    <3>4. /\ w.numDynamicIn = Cardinality(Incoming(w, w.dynamic))
          /\ w.numDrainingIn = Cardinality(Incoming(w, w.draining))
          /\ w.numLocallyClosedIn = Cardinality(Incoming(w, w.locallyClosed))
      BY Zenon, <1>1, <2>2, <3>3 DEF SessionConsistent
    <3>5. w.draining \subseteq w.dynamic /\ w.locallyClosed \cap w.dynamic = {}
      BY Zenon, <1>1, <2>2 DEF SessionConsistent
    <3>6. SessionConsistent(w)
      BY Zenon, <3>2, <3>4, <3>5 DEF SessionConsistent
    <3> QED BY Zenon, <3>1, <3>6
  <2>6. ~w.server => w.available = {}
    BY Zenon, <1>6, <2>2
  <2>7. Served(x, w, known, ended)
    <3>1. PeerGrows(x, w)
      BY Zenon, <1>1, <2>2, PeerSame
    <3> QED BY <2>2, <2>4, <2>5, <2>6, <3>1, NoStreamChanged
  <2>8. Served(w, y, known, ended)
    BY Zenon, <2>1, <2>7, CloseConnectionGood DEF Served
  <2> QED BY Zenon, <1>1, <2>7, <2>8, ServedTrans
<1>7. CASE id \notin x.dynamic /\ ~Seen(x, id) /\ x.server /\ ~TooManyAvailable(w, id)
  <2>1. y = IF GetNumOpenIncomingStreams(v) >= MaxIncoming
            THEN SendRstStream(v, id, "REFUSED") ELSE ActivateStream(v, id)
    BY Zenon, <1>2, <1>3, <1>7 DEF GetOrCreateDynamicStream
  <2>2. Named(x, v, id) /\ NamedOnly(x, v) /\ v.nextOutgoing = x.nextOutgoing
    BY <1>7, PeerNames
  <2> HIDE DEF v
  <2>3. CASE y = SendRstStream(v, id, "REFUSED")
    <3>1. Closed(x, y, id, known, ended)
      BY Zenon, <1>7, <2>2, <2>3, RefuseGood
    <3> QED BY Zenon, <3>1 DEF Closed, Kept, Served, Tidy, StreamTidy
  <2>4. CASE y = ActivateStream(v, id)
    <3>1. Activated(x, y, id, known, ended)
      BY Zenon, <1>7, <2>2, <2>4, ActivateStreamGood
    <3>2. y.nextOutgoing = x.nextOutgoing
      BY Zenon, <2>2, <2>4 DEF ActivateStream, Named, Sessions
    <3> QED BY Zenon, <3>1, <3>2 DEF Activated, Served, Tidy, Follows
  <2> QED BY Zenon, <2>1, <2>3, <2>4
<1> QED BY Zenon, <1>4, <1>5, <1>6, <1>7

Opened(x, y, known, ended) ==
    /\ SessionGood(y, known, ended) /\ Goes(x, y) /\ Tidy(y)
    /\ y.nextOutgoing = x.nextOutgoing + 2

\* QuicSpdyClientBase::SendRequest opens the next stream.
LEMMA SendRequestGood ==
  ASSUME NEW x, NEW known, NEW ended, SessionGood(x, known, ended), Tidy(x),
         ~x.server, x.nextOutgoing \in Ids, NEW n \in Nat, n <= Chunks(x),
         NEW y, y = SendRequest(x, n)
  PROVE  Opened(x, y, known, ended)
<1> DEFINE id == x.nextOutgoing
           w == [x EXCEPT !.nextOutgoing = @ + 2]
           v == ActivateStream(w, id)
<1>1. /\ x \in Sessions /\ ParityGood(x) /\ SessionConsistent(x)
      /\ x.nextOutgoing \in Nat /\ x.available = {}
  BY Zenon, Fields DEF SessionGood
<1>2. y = SendMessage(v, id, n) /\ id \in Ids
  BY Zenon DEF SendRequest
<1>3. x.nextOutgoing + 2 \in Nat /\ x.nextOutgoing <= x.nextOutgoing + 2
  BY <1>1
<1>4. /\ w \in Sessions /\ w.server = x.server /\ w.nextOutgoing = x.nextOutgoing + 2
      /\ w.available = x.available /\ w.largestPeer = x.largestPeer /\ NamedOnly(x, w)
  BY Zenon, <1>1, <1>3 DEF Sessions, NamedOnly
<1> HIDE DEF w
<1>5. ParityGood(w)
  <2>1. (x.nextOutgoing + 2) % 2 = x.nextOutgoing % 2
    BY <1>1
  <2> QED BY Zenon, <1>1, <1>4, <2>1 DEF ParityGood
<1>6. /\ \A i \in Ids \ {id} : Seen(w, i) <=> Seen(x, i)
      /\ ~Seen(x, id) /\ Seen(w, id)
  <2>1. \A i \in Ids : /\ Seen(x, i) <=> i < x.nextOutgoing
                       /\ Seen(w, i) <=> i < x.nextOutgoing + 2
    BY Zenon, <1>4 DEF Seen
  <2>2. x.nextOutgoing % 2 = 1
    BY Zenon, <1>1 DEF ParityGood
  <2>3. ASSUME NEW i \in Ids \ {id} PROVE i < x.nextOutgoing + 2 <=> i < x.nextOutgoing
    <3>1. i \in Nat /\ i % 2 = 1 /\ i # x.nextOutgoing
      BY IdsAssumption
    <3>2. i # x.nextOutgoing + 1
      BY <1>1, <2>2, <3>1
    <3> QED BY <1>1, <3>1, <3>2
  <2>4. ~(id < x.nextOutgoing) /\ id < x.nextOutgoing + 2
    BY <1>1
  <2> QED BY Zenon, <1>2, <2>1, <2>3, <2>4
<1> HIDE DEF id
<1>7. Named(x, w, id)
  <2>1. PeerGrows(x, w)
    BY Zenon, <1>1, <1>4, PeerSame
  <2> QED BY Zenon, <1>1, <1>3, <1>4, <1>5, <1>6, <2>1 DEF Named
<1>8. Activated(x, v, id, known, ended)
  BY Zenon, <1>2, <1>4, <1>7, ActivateStreamGood
<1> HIDE DEF v
<1>9. /\ SessionGood(v, known, ended) /\ id \in v.dynamic /\ StreamTidy(v, id)
      /\ ~v.stream[id].finBuffered /\ ~v.stream[id].finSent /\ v.server = x.server
  BY Zenon, <1>8, NewStreamFacts DEF Activated, Goes
<1>10. n <= Chunks(v)
  BY Zenon, <1>9 DEF Chunks
<1>11. HalfClosed(v, y, id, known, ended)
  BY Zenon, <1>2, <1>9, <1>10, SendMessageGood
<1>12. Goes(x, v) /\ Tidy(v)
  BY Zenon, <1>2, <1>8 DEF Activated, Tidy
<1>13. Served(v, y, known, ended)
  BY Zenon, <1>2, <1>11, <1>12, HalfClosedServed
<1>14. v \in Sessions /\ y \in Sessions /\ Goes(v, y) /\ y.nextOutgoing = v.nextOutgoing
  BY Zenon, <1>9, <1>13 DEF Served, SessionGood, Follows
<1>15. Goes(x, y)
  BY Zenon, <1>1, <1>12, <1>14, GoesTrans
<1>16. v.nextOutgoing = x.nextOutgoing + 2
  BY Zenon, <1>4 DEF v, ActivateStream, Sessions
<1> QED BY Zenon, <1>13, <1>14, <1>15, <1>16 DEF Opened, Served

-----------------------------------------------------------------------------
\* Frames that arrive.

\* The sequencer of the stream takes in data or headers.
SameButRead(st, su) ==
    /\ su.finSent = st.finSent /\ su.finReceived = st.finReceived
    /\ su.finBuffered = st.finBuffered /\ su.written = st.written
    /\ su.rstSent = st.rstSent /\ su.rstReceived = st.rstReceived
    /\ su.readClosed = st.readClosed /\ su.writeClosed = st.writeClosed

TookIn(x, y, id, known, ended) ==
    HalfClosed(x, y, id, known, ended) /\ y.dynamic = x.dynamic

\* A frame is taken in by a stream that is open, without an effect on the
\* session.
LEMMA TakeInGood ==
  ASSUME NEW x, NEW id \in Ids, NEW known, NEW ended, SessionGood(x, known, ended),
         id \in x.dynamic, StreamTidy(x, id), NEW st \in Streams,
         SameButRead(x.stream[id], st),
         st.close = x.stream[id].close \/ id \in ended,
         NEW y, y = SetStream(x, id, st)
  PROVE  TookIn(x, y, id, known, ended)
<1>1. x \in Sessions /\ StreamGood(x, id, ended)
  BY Zenon DEF SessionGood
<1>2. Seen(x, id)
  BY Zenon, <1>1 DEF StreamGood
<1>3. StreamStep(x, id, st, ended)
  BY Zenon, <1>1 DEF StreamStep, StreamGood, Heard, SameButRead
<1>4. KeptAs(x, y, id, st, known, ended)
  BY Zenon, <1>2, <1>3, SetStreamGood
<1>5. /\ Kept(x, y, id, known, ended) /\ y.dynamic = x.dynamic /\ y.server = x.server
      /\ y.stream[id] = st /\ (RstFramed(y, id) <=> RstFramed(x, id))
  BY Zenon, <1>4 DEF KeptAs, SameBooks
<1>6. StreamTidy(y, id)
  BY Zenon, <1>5 DEF StreamTidy, Unfinished, SameButRead
<1> QED BY Zenon, <1>5, <1>6 DEF TookIn, HalfClosed

\* The FIN of a frame for an open stream, if it has one.
LEMMA MaybeFinGood ==
  ASSUME NEW x, NEW id \in Ids, NEW known, NEW ended, SessionGood(x, known, ended),
         id \in x.dynamic, StreamTidy(x, id), NEW fin \in BOOLEAN, fin => id \in ended,
         NEW y, y = IF fin THEN StreamFinReceived(x, id) ELSE x
  PROVE  TookIn(x, y, id, known, ended)
<1>1. CASE fin
  BY Zenon, <1>1, StreamFinReceivedGood DEF TookIn
<1>2. CASE ~fin
  <2>1. x \in Sessions /\ StreamGood(x, id, ended)
    BY Zenon DEF SessionGood
  <2>2. Seen(x, id) /\ Follows(x, x)
    BY Zenon, <2>1, FollowsSelf DEF StreamGood
  <2> QED BY Zenon, <1>2, <2>2 DEF TookIn, HalfClosed, Kept
<1> QED BY Zenon, <1>1, <1>2

\* Data or headers taken in, and then handed to the application.
LEMMA TakeInServed ==
  ASSUME NEW x, NEW id \in Ids, NEW known, NEW ended, x \in Sessions, Tidy(x),
         id \in x.dynamic, NEW n \in Nat, n <= Chunks(x),
         NEW z, TookIn(x, z, id, known, ended),
         NEW st \in Streams, SameButRead(z.stream[id], st),
         st.close = z.stream[id].close \/ id \in ended,
         NEW y, y = OnDataAvailable(SetStream(z, id, st), id, n)
  PROVE  Served(x, y, known, ended)
<1> DEFINE w == SetStream(z, id, st)
<1>1. /\ SessionGood(z, known, ended) /\ StreamTidy(z, id) /\ id \in z.dynamic
      /\ z.server = x.server
  BY Zenon DEF TookIn, HalfClosed, Kept, Follows, Goes
<1>2. TookIn(z, w, id, known, ended)
  BY Zenon, <1>1, TakeInGood
<1> HIDE DEF w
<1>3. /\ SessionGood(w, known, ended) /\ StreamTidy(w, id) /\ id \in w.dynamic
      /\ w.server = x.server
  BY Zenon, <1>1, <1>2 DEF TookIn, HalfClosed, Kept, Follows, Goes
<1>4. n <= Chunks(w)
  BY Zenon, <1>3 DEF Chunks
<1>5. y = OnDataAvailable(w, id, n)
  BY Zenon DEF w
<1>6. HalfClosed(w, y, id, known, ended)
  BY Zenon, <1>3, <1>4, <1>5, OnDataAvailableGood
<1>7. z \in Sessions
  BY Zenon, <1>1 DEF SessionGood
<1>8. HalfClosed(z, y, id, known, ended)
  BY Zenon, <1>2, <1>6, <1>7, HalfClosedTrans DEF TookIn
<1>9. HalfClosed(x, y, id, known, ended)
  BY Zenon, <1>8, HalfClosedTrans DEF TookIn
<1> QED BY Zenon, <1>9, HalfClosedServed

\* The stream after its sequencer has taken in data or headers.
TakenIn(su, got, close, headers) ==
    [su EXCEPT !.got = got, !.close = close, !.headers = headers]

\* The stream after a frame has been taken in.
LEMMA TakenStream ==
  ASSUME NEW su \in Streams, NEW got \in SUBSET Nat, NEW close \in Nat \cup {Unknown},
         NEW headers \in BOOLEAN
  PROVE  /\ TakenIn(su, got, close, headers) \in Streams
         /\ SameButRead(su, TakenIn(su, got, close, headers))
         /\ TakenIn(su, got, close, headers).close = close
<1> DEFINE st == TakenIn(su, got, close, headers)
<1>1. st \in Streams /\ st.close = close
  BY DEF Streams, TakenIn
<1>2. SameButRead(su, st)
  BY Zenon DEF Streams, SameButRead, TakenIn
<1> QED BY <1>1, <1>2

\* QuicSession::OnStreamFrame and QuicStream::OnStreamFrame.
LEMMA OnStreamFrameGood ==
  ASSUME NEW x, NEW f \in Frames, NEW known, NEW ended, SessionGood(x, known, ended),
         Tidy(x), x.connected, x.server => f.id \in known, f.fin => f.id \in ended,
         NEW n \in Nat, n <= Chunks(x), NEW y, y = OnStreamFrame(x, f, n)
  PROVE  Served(x, y, known, ended)
<1> DEFINE id == f.id
           v == GetOrCreateDynamicStream(x, id)
           z == IF f.fin THEN StreamFinReceived(v, id) ELSE v
           su == z.stream[id]
           got == su.got \cup {f.pos}
           close == IF f.fin THEN f.pos + 1 ELSE su.close
           st == TakenIn(su, got, close, su.headers)
<1>1. x \in Sessions /\ id \in Ids /\ f.pos \in Nat /\ f.fin \in BOOLEAN
  BY DEF SessionGood, Frames
<1>2. y = IF id \notin v.dynamic
          THEN IF f.fin THEN OnFinalByteOffsetReceived(v, id) ELSE v
          ELSE IF su.readClosed THEN z
          ELSE OnDataAvailable([z EXCEPT !.stream[id].got = @ \cup {f.pos},
                                         !.stream[id].close = IF f.fin THEN f.pos + 1 ELSE @],
                               id, n)
  BY Zenon DEF OnStreamFrame
<1> HIDE DEF id
<1>3. Served(x, v, known, ended)
  BY Zenon, <1>1, GetOrCreateGood DEF id
<1> HIDE DEF v
<1>4. SessionGood(v, known, ended) /\ Tidy(v) /\ (f.fin => id \in ended)
  BY Zenon, <1>3 DEF Served, id
<1>5. CASE id \notin v.dynamic
  <2>1. CASE f.fin
    <3>1. y = OnFinalByteOffsetReceived(v, id)
      BY Zenon, <1>2, <1>5, <2>1
    <3>2. Served(v, y, known, ended)
      BY Zenon, <1>1, <1>4, <2>1, <3>1, OnFinalByteOffsetReceivedGood
    <3> QED BY Zenon, <1>1, <1>3, <3>2, ServedTrans
  <2>2. CASE ~f.fin
    BY Zenon, <1>2, <1>3, <1>5, <2>2
  <2> QED BY Zenon, <2>1, <2>2
<1>6. CASE id \in v.dynamic
  <2>1. StreamTidy(v, id)
    BY Zenon, <1>1, <1>4 DEF Tidy
  <2>2. TookIn(v, z, id, known, ended)
    BY Zenon, <1>1, <1>4, <1>6, <2>1, MaybeFinGood
  <2> HIDE DEF z
  <2>3. z \in Sessions
    BY Zenon, <2>2 DEF TookIn, HalfClosed, Kept, SessionGood
  <2>4. CASE su.readClosed
    <3>1. y = z
      BY Zenon, <1>2, <1>6, <2>4
    <3>2. Served(v, z, known, ended)
      BY Zenon, <1>1, <1>4, <2>2, HalfClosedServed DEF TookIn
    <3> QED BY Zenon, <1>1, <1>3, <3>1, <3>2, ServedTrans
  <2>5. CASE ~su.readClosed
    <3>1. su \in Streams
      BY Zenon, <1>1, <2>3, Fields
    <3>2. [z EXCEPT !.stream[id].got = @ \cup {f.pos},
                    !.stream[id].close = IF f.fin THEN f.pos + 1 ELSE @]
          = SetStream(z, id, st)
      <4>1. st = [su EXCEPT !.got = got, !.close = close]
        <5> HIDE DEF got, close
        <5>1. su \in Streams
          BY Zenon, <3>1
        <5> HIDE DEF su
        <5> QED BY <5>1 DEF Streams, TakenIn
      <4>2. [z EXCEPT !.stream[id].got = @ \cup {f.pos},
                      !.stream[id].close = IF f.fin THEN f.pos + 1 ELSE @]
            = SetStream(z, id, [su EXCEPT !.got = got, !.close = close])
        BY Zenon DEF SetStream
      <4> HIDE DEF st
      <4> QED BY Zenon, <4>1, <4>2
    <3>3. /\ got \in SUBSET Nat /\ close \in Nat \cup {Unknown}
          /\ su.headers \in BOOLEAN /\ (~f.fin => close = su.close)
      <4> HIDE DEF su
      <4> QED BY <1>1, <3>1 DEF Streams
    <3> HIDE DEF got, close
    <3>4. st \in Streams /\ SameButRead(su, st) /\ st.close = close
      <4>1. su \in Streams
        BY Zenon, <3>1
      <4> HIDE DEF su
      <4> QED BY Zenon, <4>1, <3>3, TakenStream
    <3> HIDE DEF st
    <3>5. st.close = z.stream[id].close \/ id \in ended
      BY Zenon, <1>4, <3>3, <3>4
    <3>6. y = OnDataAvailable(SetStream(z, id, st), id, n)
      BY Zenon, <1>2, <1>6, <2>5, <3>2
    <3>7. n <= Chunks(v) /\ v \in Sessions
      BY Zenon, <1>3, <1>4 DEF Served, Follows, Goes, Chunks, SessionGood
    <3>8. Served(v, y, known, ended)
      BY Zenon, <1>1, <1>4, <1>6, <2>2, <3>4, <3>5, <3>6, <3>7, TakeInServed
    <3> QED BY Zenon, <1>1, <1>3, <3>8, ServedTrans
  <2> QED BY Zenon, <2>4, <2>5
<1> QED BY Zenon, <1>5, <1>6

\* QuicSession::OnStreamHeaderList.
LEMMA OnStreamHeaderListGood ==
  ASSUME NEW x, NEW f, NEW known, NEW ended, SessionGood(x, known, ended), Tidy(x),
         f.id \in Ids, f.fin \in BOOLEAN, x.connected, x.server => f.id \in known,
         f.fin => f.id \in ended, NEW n \in Nat, n <= Chunks(x),
         NEW y, y = OnStreamHeaderList(x, f, n)
  PROVE  Served(x, y, known, ended)
<1> DEFINE id == f.id
           v == GetOrCreateDynamicStream(x, id)
           z == IF f.fin THEN StreamFinReceived(v, id) ELSE v
           su == z.stream[id]
           close == IF f.fin /\ ~su.readClosed THEN 0 ELSE su.close
           st == TakenIn(su, su.got, close, TRUE)
<1>1. x \in Sessions /\ id \in Ids
  BY DEF SessionGood
<1>2. y = IF id \notin v.dynamic THEN v
          ELSE OnDataAvailable([z EXCEPT !.stream[id].headers = TRUE,
                                         !.stream[id].close =
                                             IF f.fin /\ ~z.stream[id].readClosed THEN 0 ELSE @],
                               id, n)
  BY Zenon DEF OnStreamHeaderList
<1> HIDE DEF id
<1>3. Served(x, v, known, ended)
  BY Zenon, <1>1, GetOrCreateGood DEF id
<1> HIDE DEF v
<1>4. SessionGood(v, known, ended) /\ Tidy(v) /\ (f.fin => id \in ended)
  BY Zenon, <1>3 DEF Served, id
<1>5. CASE id \notin v.dynamic
  BY Zenon, <1>2, <1>3, <1>5
<1>6. CASE id \in v.dynamic
  <2>1. StreamTidy(v, id)
    BY Zenon, <1>1, <1>4 DEF Tidy
  <2>2. TookIn(v, z, id, known, ended)
    BY Zenon, <1>1, <1>4, <1>6, <2>1, MaybeFinGood
  <2> HIDE DEF z
  <2>3. z \in Sessions
    BY Zenon, <2>2 DEF TookIn, HalfClosed, Kept, SessionGood
  <2>4. su \in Streams
    BY Zenon, <1>1, <2>3, Fields
  <2>5. [z EXCEPT !.stream[id].headers = TRUE,
                  !.stream[id].close = IF f.fin /\ ~z.stream[id].readClosed THEN 0 ELSE @]
        = SetStream(z, id, st)
    <3>1. st = [su EXCEPT !.headers = TRUE, !.close = close]
      <4> HIDE DEF close
      <4>1. su \in Streams
        BY Zenon, <2>4
      <4> HIDE DEF su
      <4> QED BY <4>1 DEF Streams, TakenIn
    <3>2. [z EXCEPT !.stream[id].headers = TRUE,
                    !.stream[id].close = IF f.fin /\ ~z.stream[id].readClosed THEN 0 ELSE @]
          = SetStream(z, id, [su EXCEPT !.headers = TRUE, !.close = close])
      BY Zenon DEF SetStream
    <3> HIDE DEF st
    <3> QED BY Zenon, <3>1, <3>2
  <2>6. /\ su.got \in SUBSET Nat /\ close \in Nat \cup {Unknown}
        /\ (~f.fin => close = su.close)
    <3> HIDE DEF su
    <3> QED BY <2>4 DEF Streams
  <2> HIDE DEF close
  <2>7. st \in Streams /\ SameButRead(su, st) /\ st.close = close
    <3>1. su \in Streams
      BY Zenon, <2>4
    <3> HIDE DEF su
    <3> QED BY Zenon, <3>1, <2>6, TakenStream
  <2> HIDE DEF st
  <2>8. st.close = z.stream[id].close \/ id \in ended
    BY Zenon, <1>4, <2>6, <2>7
  <2>9. y = OnDataAvailable(SetStream(z, id, st), id, n)
    BY Zenon, <1>2, <1>6, <2>5
  <2>10. n <= Chunks(v) /\ v \in Sessions
    BY Zenon, <1>3, <1>4 DEF Served, Follows, Goes, Chunks, SessionGood
  <2>11. Served(v, y, known, ended)
    BY Zenon, <1>1, <1>4, <1>6, <2>2, <2>7, <2>8, <2>9, <2>10, TakeInServed
  <2> QED BY Zenon, <1>1, <1>3, <2>11, ServedTrans
<1> QED BY Zenon, <1>5, <1>6

\* The stream has been reset by the peer.
WasReset(su) == [su EXCEPT !.rstReceived = TRUE]

\* The stream after a RST_STREAM has arrived.
LEMMA ResetStream ==
  ASSUME NEW su \in Streams, NEW st, st = WasReset(su)
  PROVE  /\ st \in Streams /\ st.finSent = su.finSent /\ st.finReceived = su.finReceived
         /\ st.finBuffered = su.finBuffered /\ st.written = su.written
         /\ st.rstSent = su.rstSent /\ st.readClosed = su.readClosed
         /\ st.writeClosed = su.writeClosed
BY Zenon DEF Streams, WasReset

\* QuicSession::OnRstStream and QuicStream::OnStreamReset.
LEMMA OnRstStreamGood ==
  ASSUME NEW x, NEW id \in Ids, NEW known, NEW ended, SessionGood(x, known, ended),
         Tidy(x), x.connected, x.server => id \in known, id \in ended,
         NEW y, y = OnRstStream(x, id)
  PROVE  Served(x, y, known, ended)
<1> DEFINE v == GetOrCreateDynamicStream(x, id)
           st == WasReset(v.stream[id])
           z == SetStream(v, id, st)
           w == CloseWriteSide(z, id)
<1>1. x \in Sessions
  BY Zenon DEF SessionGood
<1>2. y = IF id \in v.dynamic
          THEN CloseReadSide(CloseWriteSide([v EXCEPT !.stream[id].rstReceived = TRUE], id), id)
          ELSE IF IsClosedStream(v, id) THEN OnFinalByteOffsetReceived(v, id)
          ELSE v
  BY Zenon DEF OnRstStream
<1>3. Served(x, v, known, ended)
  BY Zenon, GetOrCreateGood
<1> HIDE DEF v
<1>4. /\ SessionGood(v, known, ended) /\ Tidy(v) /\ v \in Sessions
      /\ StreamGood(v, id, ended) /\ StreamTidy(v, id)
  BY Zenon, <1>3 DEF Served, SessionGood, Tidy
<1>5. CASE id \notin v.dynamic
  <2>1. CASE IsClosedStream(v, id)
    <3>1. y = OnFinalByteOffsetReceived(v, id)
      BY Zenon, <1>2, <1>5, <2>1
    <3>2. Served(v, y, known, ended)
      BY Zenon, <1>4, <3>1, OnFinalByteOffsetReceivedGood
    <3> QED BY Zenon, <1>1, <1>3, <3>2, ServedTrans
  <2>2. CASE ~IsClosedStream(v, id)
    BY Zenon, <1>2, <1>3, <1>5, <2>2
  <2> QED BY Zenon, <2>1, <2>2
<1>6. CASE id \in v.dynamic
  <2>1. [v EXCEPT !.stream[id].rstReceived = TRUE] = z
    BY Zenon DEF SetStream, WasReset
  <2>2. y = CloseReadSide(w, id)
    <3> HIDE DEF z
    <3> QED BY Zenon, <1>2, <1>6, <2>1
  <2>3. v.stream[id] \in Streams /\ Seen(v, id)
    BY Zenon, <1>4, <1>6, Fields DEF StreamGood
  <2>4. /\ st \in Streams /\ st.finSent = v.stream[id].finSent
        /\ st.finReceived = v.stream[id].finReceived
        /\ st.finBuffered = v.stream[id].finBuffered
        /\ st.written = v.stream[id].written /\ st.rstSent = v.stream[id].rstSent
        /\ st.readClosed = v.stream[id].readClosed
        /\ st.writeClosed = v.stream[id].writeClosed
    BY Zenon, <2>3, ResetStream
  <2> HIDE DEF st
  <2>5. StreamStep(v, id, st, ended)
    BY Zenon, <1>4, <2>4 DEF StreamStep, StreamGood
  <2>6. KeptAs(v, z, id, st, known, ended)
    BY Zenon, <1>4, <2>3, <2>4, <2>5, SetStreamGood
  <2> HIDE DEF z
  <2>7. /\ Kept(v, z, id, known, ended) /\ z.dynamic = v.dynamic /\ z.server = v.server
        /\ z.stream[id] = st /\ (RstFramed(z, id) <=> RstFramed(v, id))
    BY Zenon, <2>6 DEF KeptAs, SameBooks
  <2>8. StreamTidy(z, id) /\ Unfinished(z, id)
    BY Zenon, <1>4, <1>6, <2>4, <2>7 DEF StreamTidy, Unfinished
  <2>9. HalfClosed(v, z, id, known, ended) /\ SessionGood(z, known, ended) /\ Seen(z, id)
    BY Zenon, <2>7, <2>8 DEF HalfClosed, Kept
  <2>10. HalfClosed(z, w, id, known, ended)
    BY Zenon, <2>8, <2>9, CloseWriteSideGood
  <2> HIDE DEF w
  <2>11. SessionGood(w, known, ended) /\ Seen(w, id) /\ StreamTidy(w, id)
    BY Zenon, <2>10 DEF HalfClosed, Kept
  <2>12. HalfClosed(w, y, id, known, ended)
    BY Zenon, <2>2, <2>11, CloseReadSideGood
  <2>13. HalfClosed(v, w, id, known, ended)
    BY Zenon, <1>4, <2>9, <2>10, HalfClosedTrans
  <2>14. HalfClosed(v, y, id, known, ended)
    BY Zenon, <1>4, <2>12, <2>13, HalfClosedTrans
  <2>15. Served(v, y, known, ended)
    BY Zenon, <1>4, <2>14, HalfClosedServed
  <2> QED BY Zenon, <1>1, <1>3, <2>15, ServedTrans
<1> QED BY Zenon, <1>5, <1>6
=============================================================================
