------------------------- MODULE FlowControlProofs -------------------------
(***************************************************************************)
(* Proofs about FlowControl for every set of streams, every window and     *)
(* every amount of data.  The inductive invariant says how much each side  *)
(* of each level knows of the other; what the connection adds up over its  *)
(* streams is the subject of FlowAccounts.                                 *)
(***************************************************************************)
EXTENDS FlowControl, TLAPS

Limit(i) == IF i = Conn THEN SessionLimit ELSE StreamLimit

\* A receive window that was given out according to the rules.
Fits(c, limit) ==
    /\ c \in ReceiveSide
    /\ c.size <= limit
    /\ c.offset <= c.consumed + c.size

InStreams ==
    [got : SUBSET Nat, blocked : BOOLEAN, finReceived : BOOLEAN,
     rstReceived : BOOLEAN, close : Nat \cup {NoOffset}, open : BOOLEAN]

OutStreams ==
    [queued : Nat, written : Nat, finBuffered : BOOLEAN, finApart : BOOLEAN,
     finSent : BOOLEAN, open : BOOLEAN]

\* The state of a receiver: windows r, streams j and remembered offsets lc.
\* What was read has arrived, and what has arrived was sent.
ReceiverGood(r, j, lc) ==
    /\ r \in [Ids -> ReceiveSide]
    /\ j \in [Streams -> InStreams]
    /\ lc \in [Streams -> Nat \cup {NoOffset}]
    /\ \A i \in Ids : Fits(r[i], Limit(i))
    /\ \A s \in Streams :
          /\ r[s].consumed <= r[s].highest
          /\ r[s].highest <= snd[s].sent
          /\ \A b \in j[s].got : b < r[s].highest
          /\ lc[s] # NoOffset => lc[s] <= snd[s].sent

\* Windows only move forward.
Later(r, q) == \A i \in Ids : r[i].offset <= q[i].offset

\* The sender: it keeps within the credit it knows of.
SenderGood(sd) ==
    /\ sd \in [Ids -> SendSide]
    /\ \A i \in Ids : sd[i].sent <= sd[i].offset /\ sd[i].offset <= rcv[i].offset

FrameGood(f) ==
    /\ f.offset + f.len <= snd[f.id].sent
    /\ f.fin => f.offset + f.len = snd[f.id].sent /\ ~out[f.id].open
    /\ f.type = "RST" => f.offset = snd[f.id].sent /\ ~out[f.id].open

IInv ==
    /\ SenderGood(snd)
    /\ ReceiverGood(rcv, in, locallyClosed)
    /\ out \in [Streams -> OutStreams]
    /\ writeBlocked \subseteq Streams
    /\ toReceiver \subseteq Frames
    /\ toSender \subseteq Updates
    /\ error \in BOOLEAN
    /\ \A f \in toReceiver : FrameGood(f)
    /\ \A u \in toSender : /\ u.type = "RST" => u.id \in Streams
                           /\ u.type = "UPDATE" => u.offset <= rcv[u.id].offset

-----------------------------------------------------------------------------
\* Consuming keeps a window within the rules and moves it forward only
\* (QuicFlowController::AddBytesConsumed and MaybeSendWindowUpdate).
LEMMA ConsumeFits ==
  ASSUME NEW c, NEW limit \in Nat, Fits(c, limit), NEW bytes \in Nat,
         NEW grow \in BOOLEAN
  PROVE  LET d == AddBytesConsumed(c, bytes, grow, limit)
         IN /\ Fits(d, limit)
            /\ d.consumed = c.consumed + bytes
            /\ d.highest = c.highest
            /\ c.offset <= d.offset
            /\ c.size <= d.size
<1> DEFINE read == [c EXCEPT !.consumed = @ + bytes]
           available == read.offset - read.consumed
           tuned == IF grow THEN IncreaseWindowSize(read, limit) ELSE read
           moved == UpdateReceiveWindowOffset(tuned, available)
<1>1. /\ read \in ReceiveSide
      /\ read.consumed = c.consumed + bytes /\ read.highest = c.highest
      /\ read.offset = c.offset /\ read.size = c.size
  BY DEF Fits, ReceiveSide
<1>2. /\ tuned \in ReceiveSide
      /\ tuned.consumed = read.consumed /\ tuned.highest = read.highest
      /\ tuned.offset = read.offset
      /\ read.size <= tuned.size /\ tuned.size <= limit
  <2>1. read.size <= limit
    BY <1>1 DEF Fits
  <2> HIDE DEF read
  <2>2. CASE grow
    BY <1>1, <2>1, <2>2 DEF ReceiveSide, IncreaseWindowSize, Least
  <2>3. CASE ~grow
    BY <1>1, <2>1, <2>3 DEF ReceiveSide
  <2> QED BY <2>2, <2>3
<1>3. available \in Int /\ available = c.offset - (c.consumed + bytes)
  BY <1>1 DEF Fits, ReceiveSide
<1>4. CASE available >= WindowUpdateThreshold(read)
  <2>1. AddBytesConsumed(c, bytes, grow, limit) = read
    BY <1>4 DEF AddBytesConsumed, MaybeSendWindowUpdate,
                 MaybeIncreaseMaxWindowSize
  <2> QED BY <1>1, <2>1 DEF Fits, ReceiveSide
<1>5. CASE ~(available >= WindowUpdateThreshold(read))
  <2>1. available < c.size
    BY <1>1, <1>3, <1>5 DEF WindowUpdateThreshold, Fits, ReceiveSide
  <2>2. /\ moved = [tuned EXCEPT !.offset = @ + (tuned.size - available)]
        /\ moved \in ReceiveSide
        /\ moved.consumed = tuned.consumed /\ moved.highest = tuned.highest
        /\ moved.size = tuned.size
        /\ moved.offset = tuned.consumed + tuned.size
    BY <1>1, <1>2, <1>3, <2>1 DEF UpdateReceiveWindowOffset, Fits, ReceiveSide
  <2>3. AddBytesConsumed(c, bytes, grow, limit) = moved
    BY <1>5 DEF AddBytesConsumed, MaybeSendWindowUpdate,
                 MaybeIncreaseMaxWindowSize
  <2> QED BY <1>1, <1>2, <1>3, <2>1, <2>2, <2>3 DEF Fits, ReceiveSide
<1> QED BY <1>4, <1>5

\* So does asking for a larger window (EnsureWindowAtLeast).
LEMMA EnsureFits ==
  ASSUME NEW c, NEW limit \in Nat, Fits(c, limit), NEW window \in Nat
  PROVE  LET d == EnsureWindowAtLeast(c, window, limit)
         IN /\ Fits(d, limit)
            /\ d.consumed = c.consumed
            /\ d.highest = c.highest
            /\ c.offset <= d.offset
<1> DEFINE larger == IncreaseWindowSize(c, limit)
           moved == UpdateReceiveWindowOffset(larger, c.offset - c.consumed)
<1>1. /\ larger \in ReceiveSide
      /\ larger.consumed = c.consumed /\ larger.highest = c.highest
      /\ larger.offset = c.offset
      /\ c.size <= larger.size /\ larger.size <= limit
  BY DEF Fits, ReceiveSide, IncreaseWindowSize, Least
<1>2. Fits(moved, limit) /\ moved.consumed = c.consumed
        /\ moved.highest = c.highest /\ c.offset <= moved.offset
  BY <1>1 DEF UpdateReceiveWindowOffset, Fits, ReceiveSide
<1>3. CASE limit >= window
  BY <1>3 DEF EnsureWindowAtLeast, Fits, ReceiveSide
<1>4. CASE ~(limit >= window)
  <2>1. EnsureWindowAtLeast(c, window, limit) = moved
    BY <1>4 DEF EnsureWindowAtLeast
  <2> QED BY <1>2, <2>1
<1> QED BY <1>3, <1>4

\* A higher offset received changes no window.
LEMMA HighestFits ==
  ASSUME NEW c, NEW limit \in Nat, Fits(c, limit), NEW offset \in Nat
  PROVE  LET d == UpdateHighestReceivedOffset(c, offset)
         IN /\ Fits(d, limit)
            /\ d.consumed = c.consumed
            /\ d.offset = c.offset
            /\ d.highest = IF offset <= c.highest THEN c.highest ELSE offset
BY DEF UpdateHighestReceivedOffset, Fits, ReceiveSide

-----------------------------------------------------------------------------
\* The operators of the receiver keep it good.

\* The connection is not one of the streams.
LEMMA IdsFacts == Conn \in Ids /\ \A s \in Streams : s \in Ids /\ s # Conn
BY StreamsAssumption DEF Ids

\* Reading n bytes that have arrived (QuicStream::AddBytesConsumed).
LEMMA ConsumeRegionGood ==
  ASSUME NEW r, NEW j, NEW lc, ReceiverGood(r, j, lc), NEW s \in Streams,
         NEW n \in Nat, r[s].consumed + n <= r[s].highest,
         NEW gs \in BOOLEAN, NEW gc \in BOOLEAN
  PROVE  LET q == ConsumeRegion(r, s, n, gs, gc)
         IN /\ ReceiverGood(q, j, lc)
            /\ Later(r, q)
            /\ q[s].consumed = r[s].consumed + n
            /\ \A t \in Streams : q[t].highest = r[t].highest
<1> DEFINE stream == AddBytesConsumed(r[s], n, gs, StreamLimit)
           window == (3 * stream.size) \div 2
           conn == IF stream.size > r[s].size
                   THEN EnsureWindowAtLeast(r[Conn], window, SessionLimit)
                   ELSE r[Conn]
           both == AddBytesConsumed(conn, n, gc, SessionLimit)
           q == [r EXCEPT ![s] = stream, ![Conn] = both]
<1>1. /\ Fits(r[s], StreamLimit) /\ Fits(r[Conn], SessionLimit)
      /\ StreamLimit \in Nat /\ SessionLimit \in Nat
      /\ r \in [Ids -> ReceiveSide]
  BY IdsFacts, WindowAssumption DEF ReceiverGood, Limit
<1>2. /\ Fits(stream, StreamLimit) /\ stream.consumed = r[s].consumed + n
      /\ stream.highest = r[s].highest /\ r[s].offset <= stream.offset
  <2>1. Fits(r[s], StreamLimit) /\ StreamLimit \in Nat
    BY <1>1
  <2> QED BY Zenon, <2>1, ConsumeFits
<1>3. window \in Nat
  <2>1. stream.size \in Nat
    BY <1>2 DEF Fits, ReceiveSide
  <2> HIDE DEF stream
  <2> QED BY <2>1
<1>4. Fits(conn, SessionLimit) /\ r[Conn].offset <= conn.offset
  <2> HIDE DEF stream, window
  <2>1. CASE stream.size > r[s].size
    BY Zenon, <1>1, <1>3, <2>1, EnsureFits
  <2>2. CASE ~(stream.size > r[s].size)
    BY <1>1, <2>2 DEF Fits, ReceiveSide
  <2> QED BY <2>1, <2>2
<1>5. /\ Fits(both, SessionLimit) /\ r[Conn].offset <= both.offset
  <2> HIDE DEF conn
  <2>1. Fits(both, SessionLimit) /\ conn.offset <= both.offset
    BY Zenon, <1>1, <1>4, ConsumeFits
  <2>2. r[Conn].offset \in Nat /\ conn.offset \in Nat /\ both.offset \in Nat
    BY <1>1, <1>4, <2>1 DEF Fits, ReceiveSide
  <2> HIDE DEF both
  <2> QED BY <1>4, <2>1, <2>2
<1> HIDE DEF stream, both
<1>6. /\ q \in [Ids -> ReceiveSide]
      /\ q[s] = stream /\ q[Conn] = both
      /\ \A i \in Ids : i # s /\ i # Conn => q[i] = r[i]
  BY <1>1, <1>2, <1>5, IdsFacts DEF Fits
<1>7. Later(r, q) /\ \A i \in Ids : Fits(q[i], Limit(i))
  <2> SUFFICES ASSUME NEW i \in Ids
               PROVE  r[i].offset <= q[i].offset /\ Fits(q[i], Limit(i))
    BY Zenon DEF Later
  <2>1. CASE i = s
    BY <1>2, <1>6, <2>1, IdsFacts DEF Limit
  <2>2. CASE i = Conn
    BY <1>5, <1>6, <2>2, IdsFacts DEF Limit
  <2>3. CASE i # s /\ i # Conn
    BY <1>6, <2>3 DEF ReceiverGood, Fits, ReceiveSide
  <2> QED BY <2>1, <2>2, <2>3
<1>8. \A t \in Streams : /\ q[t].highest = r[t].highest
                         /\ q[t].consumed <= q[t].highest
  BY <1>1, <1>2, <1>6, IdsFacts DEF ReceiverGood
<1>9. ReceiverGood(q, j, lc)
  BY Zenon, <1>6, <1>7, <1>8 DEF ReceiverGood
<1>10. CASE n = 0
  <2>1. ConsumeRegion(r, s, n, gs, gc) = r
    BY <1>10 DEF ConsumeRegion
  <2> QED BY <1>1, <1>10, <2>1, IdsFacts DEF Later, ReceiveSide
<1>11. CASE n # 0
  <2>1. ConsumeRegion(r, s, n, gs, gc) = q
    BY <1>11 DEF ConsumeRegion, stream, both
  <2> QED BY Zenon, <1>2, <1>6, <1>7, <1>8, <1>9, <2>1
<1> QED BY <1>10, <1>11

\* A frame that was sent may raise the highest offset.
LEMMA HighestGood ==
  ASSUME NEW r, NEW j, NEW lc, ReceiverGood(r, j, lc), NEW s \in Streams,
         NEW offset \in Nat, offset <= snd[s].sent
  PROVE  LET q == MaybeIncreaseHighest(r, s, offset)
         IN /\ ReceiverGood(q, j, lc)
            /\ Later(r, q)
            /\ offset <= q[s].highest
            /\ \A i \in Ids : q[i].consumed = r[i].consumed
<1>1. CASE offset <= r[s].highest
  <2>1. MaybeIncreaseHighest(r, s, offset) = r
    BY <1>1 DEF MaybeIncreaseHighest
  <2> QED BY <1>1, <2>1, IdsFacts DEF Later, ReceiverGood, ReceiveSide
<1>2. CASE ~(offset <= r[s].highest)
  <2> DEFINE more == r[Conn].highest + (offset - r[s].highest)
             stream == UpdateHighestReceivedOffset(r[s], offset)
             conn == UpdateHighestReceivedOffset(r[Conn], more)
             q == [r EXCEPT ![s] = stream, ![Conn] = conn]
  <2>1. /\ Fits(r[s], StreamLimit) /\ Fits(r[Conn], SessionLimit)
        /\ StreamLimit \in Nat /\ SessionLimit \in Nat
        /\ r \in [Ids -> ReceiveSide]
    BY IdsFacts, WindowAssumption DEF ReceiverGood, Limit
  <2>2. more \in Nat
    BY <1>2, <2>1 DEF Fits, ReceiveSide
  <2> HIDE DEF more
  <2>3. /\ Fits(stream, StreamLimit) /\ stream.consumed = r[s].consumed
        /\ stream.offset = r[s].offset /\ stream.highest = offset
    BY <1>2, <2>1, HighestFits
  <2>4. /\ Fits(conn, SessionLimit) /\ conn.consumed = r[Conn].consumed
        /\ conn.offset = r[Conn].offset
    BY Zenon, <2>1, <2>2, HighestFits
  <2>5. MaybeIncreaseHighest(r, s, offset) = q
    BY <1>2 DEF MaybeIncreaseHighest, more
  <2> HIDE DEF stream, conn
  <2>6. /\ q \in [Ids -> ReceiveSide]
        /\ q[s] = stream /\ q[Conn] = conn
        /\ \A i \in Ids : i # s /\ i # Conn => q[i] = r[i]
    BY <2>1, <2>3, <2>4, IdsFacts DEF Fits
  <2>7. \A i \in Ids : /\ Fits(q[i], Limit(i))
                       /\ q[i].offset = r[i].offset
                       /\ q[i].consumed = r[i].consumed
    <3> SUFFICES ASSUME NEW i \in Ids
                 PROVE  /\ Fits(q[i], Limit(i)) /\ q[i].offset = r[i].offset
                        /\ q[i].consumed = r[i].consumed
      BY Zenon
    <3>1. CASE i = s
      BY <2>3, <2>6, <3>1, IdsFacts DEF Limit
    <3>2. CASE i = Conn
      BY <2>4, <2>6, <3>2, IdsFacts DEF Limit
    <3>3. CASE i # s /\ i # Conn
      BY <2>6, <3>3 DEF ReceiverGood
    <3> QED BY <3>1, <3>2, <3>3
  <2>8. \A t \in Streams : /\ q[t].highest <= snd[t].sent
                           /\ r[t].highest <= q[t].highest
    BY <1>2, <2>1, <2>3, <2>6, IdsFacts DEF ReceiverGood, ReceiveSide
  <2>9. \A t \in Streams : /\ q[t].consumed <= q[t].highest
                           /\ \A b \in j[t].got : b < q[t].highest
    <3> SUFFICES ASSUME NEW t \in Streams
                 PROVE  /\ q[t].consumed <= q[t].highest
                        /\ \A b \in j[t].got : b < q[t].highest
      BY Zenon
    <3>1. /\ r[t].consumed \in Nat /\ r[t].highest \in Nat /\ q[t].highest \in Nat
          /\ j[t].got \subseteq Nat
      BY <2>1, <2>6, IdsFacts DEF ReceiverGood, ReceiveSide, InStreams
    <3>2. /\ q[t].consumed = r[t].consumed /\ r[t].consumed <= r[t].highest
          /\ r[t].highest <= q[t].highest /\ \A b \in j[t].got : b < r[t].highest
      BY <2>7, <2>8, IdsFacts DEF ReceiverGood
    <3> HIDE DEF q
    <3> QED BY <3>1, <3>2
  <2>10. ReceiverGood(q, j, lc)
    BY Zenon, <2>6, <2>7, <2>8, <2>9 DEF ReceiverGood
  <2>11. Later(r, q)
    BY <2>1, <2>7 DEF Later, ReceiveSide
  <2> QED BY <2>3, <2>5, <2>6, <2>7, <2>10, <2>11
<1> QED BY <1>1, <1>2

\* Consuming at the connection level only.
LEMMA ConsumeConnGood ==
  ASSUME NEW r, NEW j, NEW lc, ReceiverGood(r, j, lc), NEW c,
         Fits(c, SessionLimit), r[Conn].offset <= c.offset,
         NEW n \in Nat, NEW gc \in BOOLEAN
  PROVE  LET q == [r EXCEPT ![Conn] = AddBytesConsumed(c, n, gc, SessionLimit)]
         IN ReceiverGood(q, j, lc) /\ Later(r, q)
<1> DEFINE conn == AddBytesConsumed(c, n, gc, SessionLimit)
           q == [r EXCEPT ![Conn] = conn]
<1>1. SessionLimit \in Nat /\ r \in [Ids -> ReceiveSide]
  BY WindowAssumption DEF ReceiverGood
<1>2. Fits(conn, SessionLimit) /\ c.offset <= conn.offset
  BY <1>1, ConsumeFits
<1> HIDE DEF conn
<1>3. r[Conn].offset <= conn.offset
  BY <1>1, <1>2, IdsFacts DEF Fits, ReceiveSide
<1>4. /\ q \in [Ids -> ReceiveSide]
      /\ q[Conn] = conn
      /\ \A i \in Ids : i # Conn => q[i] = r[i]
  BY <1>1, <1>2, IdsFacts DEF Fits
<1>5. \A i \in Ids : Fits(q[i], Limit(i)) /\ r[i].offset <= q[i].offset
  BY <1>1, <1>2, <1>3, <1>4, IdsFacts DEF ReceiverGood, Limit, ReceiveSide
<1>6. ReceiverGood(q, j, lc)
  BY <1>4, <1>5, IdsFacts DEF ReceiverGood
<1> QED BY <1>5, <1>6 DEF Later, conn

\* Closing a stream gives back at the connection level what was not read
\* (QuicStream::OnClose and QuicSession::CloseStreamInner).
LEMMA CloseReceivingGood ==
  ASSUME NEW r, NEW s \in Streams, NEW i \in InStreams, NEW grow \in BOOLEAN,
         in \in [Streams -> InStreams],
         ReceiverGood(r, [in EXCEPT ![s] = i], locallyClosed),
         CloseReceiving(r, s, i, grow)
  PROVE  ReceiverGood(rcv', in', locallyClosed') /\ Later(r, rcv')
<1> DEFINE j == [in EXCEPT ![s] = i]
           unread == r[s].highest - r[s].consumed
           k == [in EXCEPT ![s] = [i EXCEPT !.open = FALSE]]
<1>1. unread \in Nat
  BY IdsFacts DEF ReceiverGood, ReceiveSide
<1>2. Fits(r[Conn], SessionLimit) /\ r[Conn].offset <= r[Conn].offset
  BY IdsFacts DEF ReceiverGood, Limit, ReceiveSide
<1>3. ReceiverGood(rcv', j, locallyClosed) /\ Later(r, rcv')
  <2>1. rcv' = [r EXCEPT ![Conn] =
                    AddBytesConsumed(r[Conn], unread, grow, SessionLimit)]
    BY DEF CloseReceiving
  <2> HIDE DEF unread, j
  <2>2. ReceiverGood(r, j, locallyClosed)
    BY DEF j
  <2> QED BY Zenon, <1>1, <1>2, <2>1, <2>2, ConsumeConnGood
<1>4. /\ in' = k /\ k \in [Streams -> InStreams]
      /\ \A t \in Streams : k[t].got = j[t].got
  BY Zenon DEF CloseReceiving, InStreams
<1>5. /\ locallyClosed' \in [Streams -> Nat \cup {NoOffset}]
      /\ \A t \in Streams : locallyClosed'[t] # NoOffset =>
              locallyClosed'[t] <= snd[t].sent
  BY IdsFacts DEF CloseReceiving, ReceiverGood, ReceiveSide
<1> HIDE DEF j, k
<1> QED BY <1>3, <1>4, <1>5 DEF ReceiverGood

\* Reading all that is readable keeps the receiver good (OnDataAvailable).
LEMMA OnDataAvailableGood ==
  ASSUME NEW r, NEW s \in Streams, NEW i \in InStreams,
         NEW gs \in BOOLEAN, NEW gc \in BOOLEAN,
         in \in [Streams -> InStreams],
         ReceiverGood(r, [in EXCEPT ![s] = i], locallyClosed),
         OnDataAvailable(r, s, i, gs, gc)
  PROVE  ReceiverGood(rcv', in', locallyClosed') /\ Later(r, rcv')
<1> DEFINE j == [in EXCEPT ![s] = i]
<1>1. PICK n, cut, some, all :
        /\ n \in 0..Length /\ cut \in 0..n
        /\ Readable(i.got, r[s].consumed, n)
        /\ some = ConsumeRegion(r, s, cut, gs, gc)
        /\ all = ConsumeRegion(some, s, n - cut, gs, gc)
        /\ IF i.close # NoOffset /\ all[s].consumed >= i.close
           THEN CloseReceiving(all, s, [i EXCEPT !.finReceived = TRUE], FALSE)
           ELSE /\ rcv' = all
                /\ in' = j
                /\ UNCHANGED locallyClosed
  BY Zenon DEF OnDataAvailable
<1>2. n \in Nat /\ cut \in Nat /\ n - cut \in Nat /\ cut <= n
  BY <1>1, WindowAssumption
<1>3. /\ r[s].consumed \in Nat /\ r[s].highest \in Nat
      /\ r[s].consumed <= r[s].highest /\ \A b \in i.got : b < r[s].highest
  BY IdsFacts DEF ReceiverGood, ReceiveSide
<1>4. r[s].consumed + n <= r[s].highest
  <2>1. CASE n = 0
    BY <1>3, <2>1
  <2>2. CASE n > 0
    <3>1. r[s].consumed + n - 1 \in r[s].consumed..(r[s].consumed + n - 1)
      BY <1>2, <1>3, <2>2
    <3>2. r[s].consumed + n - 1 \in i.got
      BY <1>1, <3>1 DEF Readable
    <3>3. r[s].consumed + n - 1 < r[s].highest
      BY <1>3, <3>2
    <3> QED BY <1>2, <1>3, <3>3
  <2> QED BY <1>2, <2>1, <2>2
<1>5. /\ ReceiverGood(some, j, locallyClosed) /\ Later(r, some)
      /\ some[s].consumed = r[s].consumed + cut
      /\ some[s].highest = r[s].highest
  <2>1. r[s].consumed + cut <= r[s].highest
    BY <1>2, <1>3, <1>4
  <2> QED BY <1>1, <1>2, <2>1, ConsumeRegionGood
<1>6. ReceiverGood(all, j, locallyClosed) /\ Later(some, all)
  <2>1. some[s].consumed + (n - cut) <= some[s].highest
    BY <1>2, <1>3, <1>4, <1>5
  <2> HIDE DEF j
  <2> QED BY <1>1, <1>2, <1>5, <2>1, ConsumeRegionGood
<1>7. Later(r, all)
  BY <1>5, <1>6 DEF Later, ReceiverGood, ReceiveSide
<1>8. CASE i.close # NoOffset /\ all[s].consumed >= i.close
  <2> DEFINE i2 == [i EXCEPT !.finReceived = TRUE]
  <2>1. i2 \in InStreams /\ i2.got = i.got
    BY Zenon DEF InStreams
  <2>2. CloseReceiving(all, s, i2, FALSE)
    BY Zenon, <1>1, <1>8
  <2>3. ReceiverGood(all, [in EXCEPT ![s] = i2], locallyClosed)
    BY <1>6, <2>1 DEF ReceiverGood
  <2> HIDE DEF i2
  <2>4. ReceiverGood(rcv', in', locallyClosed') /\ Later(all, rcv')
    BY Zenon, <2>1, <2>2, <2>3, CloseReceivingGood
  <2> QED BY <1>6, <1>7, <2>4 DEF Later, ReceiverGood, ReceiveSide
<1>9. CASE ~(i.close # NoOffset /\ all[s].consumed >= i.close)
  BY Zenon, <1>1, <1>6, <1>7, <1>9
<1> QED BY <1>8, <1>9

-----------------------------------------------------------------------------
\* The steps of the receiver.

\* A good receiver that announces the windows that moved keeps the invariant.
LEMMA ReceiverKeeps ==
  ASSUME IInv, ReceiverGood(rcv', in', locallyClosed'), Later(rcv, rcv'),
         UNCHANGED <<sender, toReceiver>>, error' \in BOOLEAN,
         NEW resets \in SUBSET {[type |-> "RST", id |-> s, offset |-> 0] :
                                    s \in Streams},
         toSender' = toSender \cup SendWindowUpdates \cup resets
  PROVE  IInv'
<1>1. snd' = snd /\ out' = out /\ writeBlocked' = writeBlocked
        /\ toReceiver' = toReceiver
  BY Zenon DEF sender
<1>2. ReceiverGood(rcv, in, locallyClosed)'
  BY Zenon, <1>1 DEF ReceiverGood
<1>3. \A i \in Ids : /\ rcv[i].offset \in Nat /\ rcv'[i].offset \in Nat
                     /\ rcv[i].offset <= rcv'[i].offset
  BY Zenon, <1>2 DEF IInv, ReceiverGood, Later, ReceiveSide
<1>4. SenderGood(snd)'
  BY <1>1, <1>3 DEF IInv, SenderGood, SendSide
<1>5. \A f \in toReceiver' : FrameGood(f)'
  BY <1>1 DEF IInv, FrameGood
<1>6. \A u \in toSender' : /\ u \in Updates
                           /\ u.type = "RST" => u.id \in Streams
                           /\ u.type = "UPDATE" => u.offset <= rcv'[u.id].offset
  <2> SUFFICES ASSUME NEW u \in toSender'
               PROVE  /\ u \in Updates
                      /\ u.type = "RST" => u.id \in Streams
                      /\ u.type = "UPDATE" => u.offset <= rcv'[u.id].offset
    OBVIOUS
  <2>1. CASE u \in toSender
    BY <1>3, <2>1 DEF IInv, Updates
  <2>2. CASE u \in SendWindowUpdates
    BY <1>3, <2>2 DEF SendWindowUpdates, WindowUpdate, Updates
  <2>3. CASE u \in resets
    BY <2>3, IdsFacts DEF Updates
  <2> QED BY <2>1, <2>2, <2>3
<1> QED BY <1>1, <1>2, <1>4, <1>5, <1>6 DEF IInv

\* The same for a handler that resets no stream.
LEMMA ReceiverKeepsQuietly ==
  ASSUME IInv, ReceiverGood(rcv', in', locallyClosed'), Later(rcv, rcv'),
         UNCHANGED <<sender, toReceiver>>, error' \in BOOLEAN,
         toSender' = toSender \cup SendWindowUpdates
  PROVE  IInv'
<1> DEFINE resets == {}
<1>1. /\ resets \in SUBSET {[type |-> "RST", id |-> s, offset |-> 0] : s \in Streams}
      /\ toSender' = toSender \cup SendWindowUpdates \cup resets
  OBVIOUS
<1> HIDE DEF resets
<1> QED BY <1>1, ReceiverKeeps

\* A final offset that was announced is not below what had arrived
\* (QuicSession::OnFinalByteOffsetReceived).
LEMMA OnFinalByteOffsetGood ==
  ASSUME IInv, NEW s \in Streams, NEW offset \in Nat, offset = snd[s].sent,
         NEW grow \in BOOLEAN, OnFinalByteOffsetReceived(s, offset, grow)
  PROVE  /\ ReceiverGood(rcv', in', locallyClosed')
         /\ Later(rcv, rcv')
         /\ error' \in BOOLEAN
<1> DEFINE diff == offset - locallyClosed[s]
           more == rcv[Conn].highest + diff
           conn == UpdateHighestReceivedOffset(rcv[Conn], more)
<1>1. ReceiverGood(rcv, in, locallyClosed) /\ error \in BOOLEAN
  BY DEF IInv
<1>2. diff \in Nat
  BY <1>1 DEF OnFinalByteOffsetReceived, ReceiverGood
<1>3. more \in Nat
  BY <1>1, <1>2, IdsFacts DEF ReceiverGood, ReceiveSide
<1>4. Fits(rcv[Conn], SessionLimit) /\ SessionLimit \in Nat
  BY <1>1, IdsFacts, WindowAssumption DEF ReceiverGood, Limit
<1> HIDE DEF more
<1>5. Fits(conn, SessionLimit) /\ conn.offset = rcv[Conn].offset
  BY Zenon, <1>3, <1>4, HighestFits
<1>6. CASE diff > 0 /\ FlowControlViolation(conn)
  <2>1. rcv' = [rcv EXCEPT ![Conn] = conn] /\ error' = TRUE
          /\ UNCHANGED <<in, locallyClosed>>
    BY <1>6 DEF OnFinalByteOffsetReceived, more
  <2> HIDE DEF conn
  <2>2. /\ rcv' \in [Ids -> ReceiveSide] /\ rcv'[Conn] = conn
        /\ \A i \in Ids : i # Conn => rcv'[i] = rcv[i]
    BY Zenon, <1>1, <1>5, <2>1, IdsFacts DEF ReceiverGood, Fits
  <2>3. \A i \in Ids : Fits(rcv'[i], Limit(i)) /\ rcv[i].offset <= rcv'[i].offset
    BY <1>1, <1>5, <2>2, IdsFacts DEF ReceiverGood, Limit, ReceiveSide
  <2> QED BY Zenon, <1>1, <2>1, <2>2, <2>3, IdsFacts DEF ReceiverGood, Later
<1>7. CASE ~(diff > 0 /\ FlowControlViolation(conn))
  <2>1. /\ rcv' = [rcv EXCEPT ![Conn] =
                      AddBytesConsumed(conn, diff, grow, SessionLimit)]
        /\ locallyClosed' = [locallyClosed EXCEPT ![s] = NoOffset]
        /\ UNCHANGED <<in, error>>
    BY <1>7 DEF OnFinalByteOffsetReceived, more
  <2> HIDE DEF conn, diff
  <2>2. rcv[Conn].offset <= conn.offset
    BY <1>1, <1>5, IdsFacts DEF ReceiverGood, ReceiveSide
  <2>3. ReceiverGood(rcv', in, locallyClosed) /\ Later(rcv, rcv')
    BY Zenon, <1>1, <1>2, <1>5, <2>1, <2>2, ConsumeConnGood
  <2>4. ReceiverGood(rcv', in', locallyClosed')
    BY <1>1, <2>1, <2>3 DEF ReceiverGood
  <2> QED BY Zenon, <1>1, <2>1, <2>3, <2>4
<1> QED BY <1>6, <1>7

\* A frame on an open stream (QuicStream::OnStreamFrame).
LEMMA StreamOnStreamFrameGood ==
  ASSUME IInv, NEW f \in toReceiver, NEW gs \in BOOLEAN, NEW gc \in BOOLEAN,
         StreamOnStreamFrame(f, gs, gc)
  PROVE  /\ ReceiverGood(rcv', in', locallyClosed')
         /\ Later(rcv, rcv')
         /\ error' \in BOOLEAN
<1> DEFINE s == f.id
           end == f.offset + f.len
           i == [in[s] EXCEPT !.got = @ \cup (f.offset..(end - 1)),
                              !.finReceived = @ \/ f.fin,
                              !.close = IF f.fin THEN end ELSE @]
           passUp == \/ f.fin /\ rcv[s].consumed >= end
                     \/ i.got # in[s].got /\ f.offset = rcv[s].consumed
           r == IF f.len = 0 THEN rcv ELSE MaybeIncreaseHighest(rcv, s, end)
           violated == r # rcv /\ \E c \in {s, Conn} : FlowControlViolation(r[c])
<1>1. /\ s \in Streams /\ f.offset \in Nat /\ f.len \in Nat /\ f.fin \in BOOLEAN
      /\ end \in Nat /\ end <= snd[s].sent
  BY DEF IInv, Frames, FrameGood
<1>2. ReceiverGood(rcv, in, locallyClosed) /\ error \in BOOLEAN
  BY DEF IInv
<1>3. /\ i \in InStreams
      /\ i.got = in[s].got \cup (f.offset..(end - 1))
  <2> DEFINE g == in[s].got \cup (f.offset..(end - 1))
             fin == in[s].finReceived \/ f.fin
             cl == IF f.fin THEN end ELSE in[s].close
  <2>1. in[s] \in InStreams
    BY <1>1, <1>2 DEF ReceiverGood
  <2>2. g \in SUBSET Nat
    BY <1>1, <2>1 DEF InStreams
  <2>3. fin \in BOOLEAN
    BY Zenon
  <2>4. cl \in Nat \cup {NoOffset}
    BY <1>1, <2>1 DEF InStreams
  <2>5. i = [in[s] EXCEPT !.got = g, !.finReceived = fin, !.close = cl]
    OBVIOUS
  <2> HIDE DEF g, fin, cl, i, s
  <2>6. i \in InStreams /\ i.got = g
    BY ZenonT(40), <2>1, <2>2, <2>3, <2>4, <2>5 DEF InStreams
  <2> QED BY <2>6 DEF g
<1>4. ReceiverGood(r, in, locallyClosed) /\ Later(rcv, r)
        /\ (f.len # 0 => end <= r[s].highest)
  <2>1. CASE f.len = 0
    BY <1>2, <2>1 DEF Later, ReceiverGood, ReceiveSide
  <2>2. CASE f.len # 0
    BY <1>1, <1>2, <2>2, HighestGood
  <2> QED BY Zenon, <2>1, <2>2
<1>5. \/ violated /\ rcv' = r /\ in' = [in EXCEPT ![s].finReceived = @ \/ f.fin]
            /\ error' = TRUE /\ UNCHANGED locallyClosed
      \/ OnDataAvailable(r, s, i, gs, gc) /\ UNCHANGED error
      \/ rcv' = r /\ in' = [in EXCEPT ![s] = i] /\ UNCHANGED <<locallyClosed, error>>
  BY Zenon DEF StreamOnStreamFrame
<1> HIDE DEF r, violated
<1>6. ReceiverGood(r, [in EXCEPT ![s] = i], locallyClosed)
  <2>1. \A b \in i.got : b < r[s].highest
    <3> SUFFICES ASSUME NEW b \in i.got PROVE b < r[s].highest
      OBVIOUS
    <3>1. CASE b \in in[s].got
      BY <1>1, <1>4, <3>1 DEF ReceiverGood
    <3>2. CASE b \in f.offset..(end - 1)
      BY <1>1, <1>4, <3>2, IdsFacts DEF ReceiverGood, ReceiveSide
    <3> QED BY <1>3, <3>1, <3>2
  <2> HIDE DEF i, s
  <2> QED BY <1>1, <1>3, <1>4, <2>1 DEF ReceiverGood
<1>7. CASE violated /\ rcv' = r /\ in' = [in EXCEPT ![s].finReceived = @ \/ f.fin]
            /\ error' = TRUE /\ UNCHANGED locallyClosed
  <2>1. in' \in [Streams -> InStreams] /\ \A t \in Streams : in'[t].got = in[t].got
    BY <1>1, <1>2, <1>7 DEF ReceiverGood, InStreams
  <2> QED BY <1>4, <1>7, <2>1 DEF ReceiverGood
<1>8. CASE OnDataAvailable(r, s, i, gs, gc) /\ UNCHANGED error
  <2>1. in \in [Streams -> InStreams]
    BY <1>2 DEF ReceiverGood
  <2> HIDE DEF i, s
  <2>2. ReceiverGood(rcv', in', locallyClosed') /\ Later(r, rcv')
    BY Zenon, <1>1, <1>3, <1>6, <1>8, <2>1, OnDataAvailableGood
  <2>3. Later(rcv, rcv')
    BY <1>2, <1>4, <2>2 DEF Later, ReceiverGood, ReceiveSide
  <2> QED BY Zenon, <1>2, <1>8, <2>2, <2>3
<1>9. CASE rcv' = r /\ in' = [in EXCEPT ![s] = i] /\ UNCHANGED <<locallyClosed, error>>
  BY <1>2, <1>4, <1>6, <1>9
<1> QED BY Zenon, <1>5, <1>7, <1>8, <1>9

\* Every handler of the receiver keeps the invariant.
LEMMA ReceiverSteps ==
  ASSUME IInv, ReceiverStep
  PROVE  IInv' /\ Later(rcv, rcv')
<1>1. ReceiverGood(rcv, in, locallyClosed) /\ error \in BOOLEAN
        /\ in \in [Streams -> InStreams]
  BY DEF IInv, ReceiverGood
<1>2. \A g \in Grow : g \in BOOLEAN
  BY Zenon DEF Grow
<1>3. \A f \in toReceiver :
        /\ f.id \in Streams /\ f.offset \in Nat /\ f.len \in Nat
        /\ f.offset + f.len <= snd[f.id].sent
        /\ f.fin => f.offset + f.len = snd[f.id].sent
  BY DEF IInv, Frames, FrameGood
<1>4. ASSUME NEW f \in toReceiver, NEW gs \in Grow, NEW gc \in Grow,
             OnStreamFrame(f, gs, gc)
      PROVE  IInv' /\ Later(rcv, rcv')
  <2>1. /\ toSender' = toSender \cup SendWindowUpdates
        /\ UNCHANGED <<sender, toReceiver>>
    BY <1>4 DEF OnStreamFrame
  <2>2. gs \in BOOLEAN /\ gc \in BOOLEAN
    BY <1>2
  <2>3. CASE in[f.id].open
    <3>1. StreamOnStreamFrame(f, gs, gc)
      BY <1>4, <2>3 DEF OnStreamFrame
    <3>2. /\ ReceiverGood(rcv', in', locallyClosed') /\ Later(rcv, rcv')
          /\ error' \in BOOLEAN
      BY <2>2, <3>1, StreamOnStreamFrameGood
    <3> QED BY <2>1, <3>2, ReceiverKeepsQuietly
  <2>4. CASE ~in[f.id].open
    <3>1. f.fin /\ OnFinalByteOffsetReceived(f.id, f.offset + f.len, gc)
      BY <1>4, <2>4 DEF OnStreamFrame
    <3>2. f.offset + f.len \in Nat /\ f.offset + f.len = snd[f.id].sent
            /\ f.id \in Streams
      BY <1>3, <3>1
    <3>3. /\ ReceiverGood(rcv', in', locallyClosed') /\ Later(rcv, rcv')
          /\ error' \in BOOLEAN
      BY <2>2, <3>1, <3>2, OnFinalByteOffsetGood
    <3> QED BY <2>1, <3>3, ReceiverKeepsQuietly
  <2> QED BY <2>3, <2>4
<1>5. ASSUME NEW f \in toReceiver, NEW gc \in Grow, OnRstStream(f, gc)
      PROVE  IInv' /\ Later(rcv, rcv')
  <2>1. /\ toSender' = toSender \cup SendWindowUpdates
        /\ UNCHANGED <<sender, toReceiver>>
    BY <1>5 DEF OnRstStream
  <2>2. f.offset \in Nat /\ f.id \in Streams /\ gc \in BOOLEAN
          /\ f.offset <= snd[f.id].sent
    BY <1>2, <1>3, IdsFacts DEF IInv, SenderGood, SendSide
  <2>3. CASE in[f.id].open
    <3> DEFINE r == MaybeIncreaseHighest(rcv, f.id, f.offset)
               i == [in[f.id] EXCEPT !.rstReceived = TRUE]
    <3>1. CloseReceiving(r, f.id, i, gc) /\ UNCHANGED error
      BY <1>5, <2>3 DEF OnRstStream
    <3>2. ReceiverGood(r, in, locallyClosed) /\ Later(rcv, r)
      BY <1>1, <2>2, HighestGood
    <3>3. i \in InStreams /\ i.got = in[f.id].got
      BY ZenonT(40), <1>1, <2>2 DEF InStreams
    <3> HIDE DEF r, i
    <3>4. ReceiverGood(r, [in EXCEPT ![f.id] = i], locallyClosed)
      BY <1>1, <2>2, <3>2, <3>3 DEF ReceiverGood
    <3>5. ReceiverGood(rcv', in', locallyClosed') /\ Later(r, rcv')
      BY Zenon, <1>1, <2>2, <3>1, <3>3, <3>4, CloseReceivingGood
    <3>6. Later(rcv, rcv')
      BY <1>1, <3>2, <3>5 DEF Later, ReceiverGood, ReceiveSide
    <3>7. error' \in BOOLEAN
      BY <1>1, <3>1
    <3> QED BY <2>1, <3>5, <3>6, <3>7, ReceiverKeepsQuietly
  <2>4. CASE ~in[f.id].open
    <3>1. OnFinalByteOffsetReceived(f.id, f.offset, gc)
      BY <1>5, <2>4 DEF OnRstStream
    <3>2. f.offset = snd[f.id].sent
      BY Zenon, <1>5 DEF OnRstStream, IInv, FrameGood
    <3>3. /\ ReceiverGood(rcv', in', locallyClosed') /\ Later(rcv, rcv')
          /\ error' \in BOOLEAN
      BY <2>2, <3>1, <3>2, OnFinalByteOffsetGood
    <3> QED BY <2>1, <3>3, ReceiverKeepsQuietly
  <2> QED BY <2>3, <2>4
<1>6. ASSUME NEW s \in Streams, NEW gs \in Grow, NEW gc \in Grow,
             OnHeaders(s, gs, gc)
      PROVE  IInv' /\ Later(rcv, rcv')
  <2> DEFINE i == [in[s] EXCEPT !.blocked = FALSE]
  <2>1. /\ OnDataAvailable(rcv, s, i, gs, gc)
        /\ toSender' = toSender \cup SendWindowUpdates
        /\ UNCHANGED <<sender, toReceiver, error>>
    BY <1>6 DEF OnHeaders
  <2>2. gs \in BOOLEAN /\ gc \in BOOLEAN
    BY <1>2
  <2>3. i \in InStreams /\ i.got = in[s].got
    BY Zenon, <1>1 DEF InStreams
  <2> HIDE DEF i
  <2>4. ReceiverGood(rcv, [in EXCEPT ![s] = i], locallyClosed)
    BY <1>1, <2>3 DEF ReceiverGood
  <2>5. ReceiverGood(rcv', in', locallyClosed') /\ Later(rcv, rcv')
    BY Zenon, <1>1, <2>1, <2>2, <2>3, <2>4, OnDataAvailableGood
  <2>6. error' \in BOOLEAN /\ UNCHANGED <<sender, toReceiver>>
    BY <1>1, <2>1
  <2> QED BY <2>1, <2>5, <2>6, ReceiverKeepsQuietly
<1>7. ASSUME NEW s \in Streams, NEW grow \in Grow, ReceiverReset(s, grow)
      PROVE  IInv' /\ Later(rcv, rcv')
  <2> DEFINE resets == {[type |-> "RST", id |-> s, offset |-> 0]}
  <2>1. /\ CloseReceiving(rcv, s, in[s], grow)
        /\ toSender' = toSender \cup SendWindowUpdates \cup resets
        /\ UNCHANGED <<sender, toReceiver, error>>
    BY <1>7 DEF ReceiverReset
  <2>2. in[s] \in InStreams /\ [in EXCEPT ![s] = in[s]] = in
    BY <1>1
  <2>3. ReceiverGood(rcv', in', locallyClosed') /\ Later(rcv, rcv')
    BY <1>1, <1>2, <2>1, <2>2, CloseReceivingGood
  <2>4. resets \in SUBSET {[type |-> "RST", id |-> t, offset |-> 0] : t \in Streams}
    OBVIOUS
  <2>5. error' \in BOOLEAN /\ UNCHANGED <<sender, toReceiver>>
    BY <1>1, <2>1
  <2> HIDE DEF resets
  <2> QED BY <2>1, <2>3, <2>4, <2>5, ReceiverKeeps
<1> QED BY Zenon, <1>4, <1>5, <1>6, <1>7 DEF ReceiverStep, Deliver, DeliverHeaders

-----------------------------------------------------------------------------
\* The steps of the sender.

\* Sending a BLOCKED frame changes no credit and nothing sent
\* (QuicStream::MaybeSendBlocked).
LEMMA SendBlockedGood ==
  ASSUME NEW sd, SenderGood(sd), NEW s \in Streams, NEW list \in SUBSET Streams,
         NEW after, StreamMaybeSendBlocked(s, sd, list, after)
  PROVE  /\ SenderGood(snd')
         /\ \A i \in Ids : snd'[i].sent = sd[i].sent /\ snd'[i].offset = sd[i].offset
         /\ after \subseteq Streams
<1>1. sd \in [Ids -> SendSide] /\ s \in Ids /\ Conn \in Ids /\ s # Conn
  BY IdsFacts DEF SenderGood
<1>2. ASSUME NEW c \in SendSide
      PROVE  /\ MaybeSendBlocked(c) \in SendSide
             /\ MaybeSendBlocked(c).sent = c.sent
             /\ MaybeSendBlocked(c).offset = c.offset
  BY DEF MaybeSendBlocked, SendSide
<1>3. snd' = [sd EXCEPT ![s] = MaybeSendBlocked(sd[s]),
                        ![Conn] = MaybeSendBlocked(sd[Conn])]
  BY <1>1 DEF StreamMaybeSendBlocked
<1>4. /\ snd' \in [Ids -> SendSide]
      /\ \A i \in Ids : snd'[i].sent = sd[i].sent /\ snd'[i].offset = sd[i].offset
  BY Zenon, <1>1, <1>2, <1>3
<1> QED BY <1>4 DEF SenderGood, StreamMaybeSendBlocked

\* Bytes within both windows are charged in full at both levels
\* (QuicStream::AddBytesSent).
LEMMA ChargeGood ==
  ASSUME NEW sd, SenderGood(sd), NEW s \in Streams, NEW n \in Nat,
         n <= SendWindowSize(sd[s]), n <= SendWindowSize(sd[Conn])
  PROVE  LET q == StreamAddBytesSent(s, sd, n)
         IN /\ SenderGood(q)
            /\ q[s].sent = sd[s].sent + n /\ q[Conn].sent = sd[Conn].sent + n
            /\ \A t \in Streams : t # s => q[t].sent = sd[t].sent
            /\ \A i \in Ids : q[i].offset = sd[i].offset
<1>1. sd \in [Ids -> SendSide] /\ s \in Ids /\ Conn \in Ids /\ s # Conn
  BY IdsFacts DEF SenderGood
<1>2. ASSUME NEW c \in SendSide, n <= SendWindowSize(c), c.sent <= c.offset
      PROVE  LET d == AddBytesSent(c, n)
             IN /\ d \in SendSide /\ d.offset = c.offset
                /\ d.sent = c.sent + n /\ d.sent <= d.offset
  BY <1>2 DEF AddBytesSent, SendSide, SendWindowSize
<1> DEFINE stream == AddBytesSent(sd[s], n)
           conn == AddBytesSent(sd[Conn], n)
           q == [sd EXCEPT ![s] = stream, ![Conn] = conn]
<1>3. /\ stream \in SendSide /\ stream.offset = sd[s].offset
      /\ stream.sent = sd[s].sent + n /\ stream.sent <= stream.offset
      /\ conn \in SendSide /\ conn.offset = sd[Conn].offset
      /\ conn.sent = sd[Conn].sent + n /\ conn.sent <= conn.offset
  BY <1>1, <1>2 DEF SenderGood
<1>4. StreamAddBytesSent(s, sd, n) = q
  BY <1>1 DEF StreamAddBytesSent
<1> HIDE DEF stream, conn
<1>5. /\ q \in [Ids -> SendSide] /\ q[s] = stream /\ q[Conn] = conn
      /\ \A i \in Ids : i # s /\ i # Conn => q[i] = sd[i]
  BY <1>1, <1>3
<1>6. SenderGood(q)
  BY <1>1, <1>3, <1>5 DEF SenderGood
<1> QED BY <1>3, <1>4, <1>5, <1>6, IdsFacts

\* What a write of n bytes puts on the wire.
WireGood(s, start, n, f, frames) ==
    \A w \in frames : /\ w \in Frames /\ w.type = "STREAM" /\ w.id = s
                      /\ w.offset + w.len <= start + n
                      /\ w.fin => f /\ w.offset + w.len = start + n

\* The frames of a write end at or before the bytes it sends.
LEMMA WrittenFramesGood ==
  ASSUME NEW s \in Streams, NEW start \in Nat, NEW n \in Nat, NEW f \in BOOLEAN,
         NEW apart \in BOOLEAN
  PROVE  WireGood(s, start, n, f, WrittenFrames(s, start, n, f, apart))
<1> SUFFICES ASSUME NEW w \in WrittenFrames(s, start, n, f, apart)
             PROVE  /\ w \in Frames /\ w.type = "STREAM" /\ w.id = s
                    /\ w.offset + w.len <= start + n
                    /\ w.fin => f /\ w.offset + w.len = start + n
  BY DEF WireGood
<1>1. CASE apart /\ w \in {StreamFrame(s, start, k, FALSE) : k \in {n} \ {0}}
  <2>1. w = StreamFrame(s, start, n, FALSE)
    BY ZenonT(40), <1>1
  <2> QED BY <2>1 DEF StreamFrame, Frames
<1>2. CASE apart /\ w \in {StreamFrame(s, start + n, 0, TRUE) : x \in {f} \cap {TRUE}}
  BY <1>2 DEF StreamFrame, Frames
<1>3. CASE ~apart /\ w = StreamFrame(s, start, n, f)
  BY <1>3 DEF StreamFrame, Frames
<1> QED BY Zenon, <1>1, <1>2, <1>3 DEF WrittenFrames

\* A write of n bytes on s, and of the FIN if f, that started from sd
\* and leaves the list after.
WriteGood(s, sd, n, f, after) ==
    /\ SenderGood(snd')
    /\ snd'[s].sent = sd[s].sent + n
    /\ \A t \in Streams : t # s => snd'[t].sent = sd[t].sent
    /\ \A i \in Ids : snd'[i].offset = sd[i].offset
    /\ after \subseteq Streams
    /\ error' \in BOOLEAN
    /\ \E frames : /\ toReceiver' = toReceiver \cup frames
                   /\ WireGood(s, sd[s].sent, n, f, frames)

\* One write keeps within both windows (QuicStream::WritevData).
LEMMA WritevGood ==
  ASSUME NEW sd, SenderGood(sd), NEW s \in Streams, NEW list \in SUBSET Streams,
         NEW current \in BOOLEAN, NEW len \in Nat, NEW fin \in BOOLEAN,
         NEW apart \in BOOLEAN, NEW n \in Nat, NEW f \in BOOLEAN,
         error \in BOOLEAN, NEW after,
         WritevData(s, sd, list, current, len, fin, apart, n, f, after)
  PROVE  WriteGood(s, sd, n, f, after)
<1> SUFFICES /\ SenderGood(snd')
             /\ snd'[s].sent = sd[s].sent + n
             /\ \A t \in Streams : t # s => snd'[t].sent = sd[t].sent
             /\ \A i \in Ids : snd'[i].offset = sd[i].offset
             /\ after \subseteq Streams
             /\ error' \in BOOLEAN
             /\ \E frames : /\ toReceiver' = toReceiver \cup frames
                                /\ WireGood(s, sd[s].sent, n, f, frames)
  BY Zenon DEF WriteGood
<1> DEFINE finAlone == fin /\ len = 0
           window == Least(SendWindowSize(sd[s]), SendWindowSize(sd[Conn]))
           length == Least(len, window)
           finNow == fin /\ len <= window
           charged == StreamAddBytesSent(s, sd, n)
           listed == IF finNow /\ ~f THEN list \cup {s} ELSE list
<1>1. /\ sd[s] \in SendSide /\ sd[Conn] \in SendSide
      /\ SendWindowSize(sd[s]) \in Nat /\ SendWindowSize(sd[Conn]) \in Nat
  BY IdsFacts DEF SenderGood, SendSide, SendWindowSize
<1>2. \A t \in Streams : sd[t].sent \in Nat
  BY IdsFacts DEF SenderGood, SendSide
<1>3. toReceiver' = toReceiver /\ n = 0 =>
        \E frames : /\ toReceiver' = toReceiver \cup frames
                    /\ WireGood(s, sd[s].sent, n, f, frames)
  <2> SUFFICES ASSUME toReceiver' = toReceiver
               PROVE  \E frames : /\ toReceiver' = toReceiver \cup frames
                                  /\ WireGood(s, sd[s].sent, n, f, frames)
    OBVIOUS
  <2> WITNESS {}
  <2> QED BY DEF WireGood
<1>4. CASE /\ n = 0
           /\ snd' = sd
           /\ after = list \cup {s}
           /\ UNCHANGED <<toReceiver, error>>
  BY SMTT(30), <1>2, <1>3, <1>4
<1>5. CASE /\ n = 0
           /\ StreamMaybeSendBlocked(s, sd, list, after)
           /\ UNCHANGED <<toReceiver, error>>
  BY SMTT(30), <1>2, <1>3, <1>5, SendBlockedGood, IdsFacts
<1>6. CASE /\ n <= length
           /\ toReceiver' = toReceiver \cup WrittenFrames(s, sd[s].sent, n, f, apart)
           /\ error' = \E i \in {s, Conn} : SentTooMuch(sd[i], n)
           /\ IF n = length
              THEN IF finAlone THEN snd' = charged /\ after = listed
                   ELSE StreamMaybeSendBlocked(s, charged, listed, after)
              ELSE snd' = charged /\ after = list \cup {s}
  <2>1. n <= SendWindowSize(sd[s]) /\ n <= SendWindowSize(sd[Conn])
    BY SMTT(30), <1>1, <1>6 DEF Least
  <2>2. /\ SenderGood(charged) /\ charged[s].sent = sd[s].sent + n
        /\ \A t \in Streams : t # s => charged[t].sent = sd[t].sent
        /\ \A i \in Ids : charged[i].offset = sd[i].offset
    BY ZenonT(40), <2>1, ChargeGood
  <2>3. \E frames : /\ toReceiver' = toReceiver \cup frames
                    /\ WireGood(s, sd[s].sent, n, f, frames)
    BY <1>2, <1>6, WrittenFramesGood
  <2>4. error' \in BOOLEAN
    BY <1>6, Zenon
  <2>5. listed \in SUBSET Streams
    BY Zenon
  <2> HIDE DEF charged, listed
  <2>6. CASE snd' = charged /\ after \subseteq Streams
    BY Zenon, <2>2, <2>3, <2>4, <2>6
  <2>7. CASE StreamMaybeSendBlocked(s, charged, listed, after)
    BY ZenonT(40), <2>2, <2>3, <2>4, <2>5, <2>7, SendBlockedGood, IdsFacts
  <2> QED BY Zenon, <1>6, <2>5, <2>6, <2>7
<1> QED BY ZenonT(40), <1>4, <1>5, <1>6 DEF WritevData

\* Nothing was sent yet, and credit can only have been added.
SameSent(sd) ==
    /\ \A s \in Streams : sd[s].sent = snd[s].sent
    /\ \A i \in Ids : snd[i].offset <= sd[i].offset

\* What the steps of the sender establish.
Kept == IInv' /\ \A i \in Ids : snd[i].offset <= snd'[i].offset

\* A write on an open stream keeps the invariant: no FIN or RST_STREAM of the
\* stream is on the wire yet.
LEMMA WriteKeeps ==
  ASSUME IInv, NEW sd, SenderGood(sd), SameSent(sd),
         NEW s \in Streams, out[s].open, NEW n \in Nat, NEW f \in BOOLEAN,
         NEW after, WriteGood(s, sd, n, f, after), writeBlocked' \subseteq after,
         NEW o \in OutStreams, f => ~o.open,
         out' = [out EXCEPT ![s] = o],
         UNCHANGED <<receiver, toSender>>
  PROVE  Kept
<1>1. rcv' = rcv /\ in' = in /\ locallyClosed' = locallyClosed /\ toSender' = toSender
  BY Zenon DEF receiver
<1>2. /\ SenderGood(snd')
      /\ snd'[s].sent = sd[s].sent + n
      /\ \A t \in Streams : t # s => snd'[t].sent = sd[t].sent
      /\ \A i \in Ids : snd'[i].offset = sd[i].offset
      /\ writeBlocked' \subseteq Streams
      /\ error' \in BOOLEAN
      /\ \E frames : /\ toReceiver' = toReceiver \cup frames
                     /\ WireGood(s, sd[s].sent, n, f, frames)
  BY Zenon DEF WriteGood
<1>3. PICK frames : /\ toReceiver' = toReceiver \cup frames
                    /\ WireGood(s, sd[s].sent, n, f, frames)
  BY Zenon, <1>2
<1>4. \A t \in Streams : snd[t].sent \in Nat /\ snd'[t].sent \in Nat
  BY Zenon, <1>2, IdsFacts DEF IInv, SenderGood, SendSide
<1>5. /\ snd'[s].sent = snd[s].sent + n
      /\ \A t \in Streams : t # s => snd'[t].sent = snd[t].sent
      /\ \A t \in Streams : snd[t].sent <= snd'[t].sent
  BY SMTT(30), <1>2, <1>4 DEF SameSent
<1>6. SenderGood(snd)'
  BY Zenon, <1>1, <1>2 DEF SenderGood
<1>7. ReceiverGood(rcv, in, locallyClosed)'
  <2>1. ASSUME NEW t \in Streams
        PROVE  /\ rcv[t].highest <= snd'[t].sent
               /\ locallyClosed[t] # NoOffset => locallyClosed[t] <= snd'[t].sent
    <3>1. rcv[t].highest \in Nat /\ locallyClosed[t] \in Nat \cup {NoOffset}
      BY Zenon, IdsFacts DEF IInv, ReceiverGood, ReceiveSide
    <3>2. /\ rcv[t].highest <= snd[t].sent
          /\ locallyClosed[t] # NoOffset => locallyClosed[t] <= snd[t].sent
      BY Zenon DEF IInv, ReceiverGood
    <3> QED BY SMTT(30), <1>4, <1>5, <3>1, <3>2
  <2> QED BY Zenon, <1>1, <2>1 DEF IInv, ReceiverGood
<1>8. /\ out' \in [Streams -> OutStreams] /\ (f => ~out'[s].open)
      /\ \A t \in Streams : t # s => out'[t] = out[t]
  BY Zenon DEF IInv
<1>9. ASSUME NEW w \in toReceiver' PROVE w \in Frames /\ FrameGood(w)'
  <2>1. CASE w \in toReceiver
    <3>1. w \in Frames /\ FrameGood(w) /\ w.id \in Streams
            /\ w.offset \in Nat /\ w.len \in Nat
      BY Zenon, <2>1 DEF IInv, Frames
    <3>2. CASE w.id = s
      BY SMTT(30), <1>4, <1>5, <3>1, <3>2 DEF FrameGood
    <3>3. CASE w.id # s
      BY Zenon, <1>5, <1>8, <3>1, <3>3 DEF FrameGood
    <3> QED BY Zenon, <3>1, <3>2, <3>3
  <2>2. CASE w \in frames
    <3>1. /\ w \in Frames /\ w.type = "STREAM" /\ w.id = s
          /\ w.offset + w.len <= snd'[s].sent
          /\ w.fin => f /\ w.offset + w.len = snd'[s].sent
      BY Zenon, <1>2, <1>3, <2>2 DEF WireGood
    <3> QED BY Zenon, <1>8, <3>1 DEF FrameGood
  <2> QED BY <1>3, <2>1, <2>2
<1>10. IInv'
  BY Zenon, <1>1, <1>2, <1>6, <1>7, <1>8, <1>9 DEF IInv
<1> QED BY <1>2, <1>10 DEF Kept, SameSent

\* A step that only changes what the sender knows keeps the invariant.
LEMMA SenderKeeps ==
  ASSUME IInv, SenderGood(snd'), SameSent(snd'),
         writeBlocked' \subseteq Streams,
         UNCHANGED <<out, toReceiver, error, receiver, toSender>>
  PROVE  Kept
<1>1. /\ rcv' = rcv /\ in' = in /\ locallyClosed' = locallyClosed
      /\ toSender' = toSender /\ toReceiver' = toReceiver /\ out' = out
      /\ error' = error
  BY DEF receiver
<1>2. SenderGood(snd)'
  BY Zenon, <1>1 DEF SenderGood
<1>3. ReceiverGood(rcv, in, locallyClosed)'
  BY ZenonT(40), <1>1 DEF IInv, ReceiverGood, SameSent
<1>4. \A w \in toReceiver' : FrameGood(w)'
  BY Zenon, <1>1 DEF IInv, FrameGood, Frames, SameSent
<1>5. IInv'
  BY <1>1, <1>2, <1>3, <1>4 DEF IInv
<1> QED BY <1>5 DEF Kept, SameSent

\* What is left of a queue after a write.
LEMMA WrittenGood ==
  ASSUME NEW o \in OutStreams, NEW total \in Nat, NEW n \in 0..total,
         NEW f \in BOOLEAN
  PROVE  /\ Written(o, total, n, f) \in OutStreams
         /\ f => ~Written(o, total, n, f).open
         /\ n \in Nat
<1> DEFINE left == total - n
           open == ~f
<1>1. left \in Nat /\ n \in Nat
  OBVIOUS
<1>2. open \in BOOLEAN
  BY Zenon
<1>3. Written(o, total, n, f) = [o EXCEPT !.queued = left, !.finSent = f, !.open = open]
  BY DEF Written
<1> HIDE DEF left, open
<1>4. /\ Written(o, total, n, f) \in OutStreams
      /\ Written(o, total, n, f).open = open
  BY Zenon, <1>1, <1>2, <1>3 DEF OutStreams
<1> QED BY <1>1, <1>4, Zenon DEF open

\* QuicStream::OnCanWrite on an open stream.
LEMMA StreamOnCanWriteKeeps ==
  ASSUME IInv, NEW sd, SenderGood(sd), SameSent(sd),
         NEW s \in Streams, out[s].open, NEW list \in SUBSET Streams,
         NEW current \in BOOLEAN, NEW after,
         StreamOnCanWrite(s, sd, list, current, after),
         writeBlocked' \subseteq after,
         UNCHANGED <<receiver, toSender>>
  PROVE  Kept
<1>1. out[s] \in OutStreams /\ out[s].queued \in Nat
        /\ out[s].finBuffered \in BOOLEAN /\ out[s].finApart \in BOOLEAN
        /\ error \in BOOLEAN
  BY DEF IInv, OutStreams
<1>2. CASE HasBufferedData(s)
  <2>1. PICK k \in 0..out[s].queued, f \in BOOLEAN :
            /\ WritevData(s, sd, list, current, out[s].queued,
                          out[s].finBuffered, out[s].finApart, k, f, after)
            /\ out' = [out EXCEPT ![s] = Written(@, out[s].queued, k, f)]
    BY Zenon, <1>2 DEF StreamOnCanWrite
  <2> DEFINE o == Written(out[s], out[s].queued, k, f)
  <2>2. o \in OutStreams /\ k \in Nat
    BY <1>1, WrittenGood
  <2>4. f => ~o.open
    BY ZenonT(40), <1>1, WrittenGood
  <2>3. out' = [out EXCEPT ![s] = o]
    BY Zenon, <2>1 DEF IInv
  <2>5. WriteGood(s, sd, k, f, after)
    <3>1. WritevData(s, sd, list, current, out[s].queued,
                     out[s].finBuffered, out[s].finApart, k, f, after)
      BY <2>1
    <3>2. k \in Nat
      BY <2>2
    <3> HIDE DEF o
    <3> QED BY SMTT(30), <1>1, <3>1, <3>2, WritevGood
  <2> HIDE DEF o
  <2> QED BY ZenonT(40), <2>2, <2>3, <2>4, <2>5, WriteKeeps
<1>3. CASE ~HasBufferedData(s)
  <2>1. /\ snd' = sd /\ after = list
        /\ UNCHANGED <<out, toReceiver, error>>
    BY <1>3 DEF StreamOnCanWrite
  <2> QED BY <2>1, SenderKeeps
<1> QED BY Zenon, <1>2, <1>3

\* What WriteOrBufferData records before it writes or queues.
LEMMA BufferedGood ==
  ASSUME NEW o \in OutStreams, NEW n \in Nat, NEW fin \in BOOLEAN,
         NEW apart \in BOOLEAN
  PROVE  LET p == [o EXCEPT !.written = @ + n, !.finBuffered = fin]
             q == [p EXCEPT !.queued = @ + n, !.finApart = apart]
         IN /\ p \in OutStreams /\ (p.open <=> o.open)
            /\ q \in OutStreams /\ (q.open <=> o.open)
<1> DEFINE w == o.written + n
           k == o.queued + n
           p == [o EXCEPT !.written = w, !.finBuffered = fin]
           q == [p EXCEPT !.queued = k, !.finApart = apart]
<1>1. w \in Nat /\ k \in Nat
  BY DEF OutStreams
<1>2. /\ p = [o EXCEPT !.written = @ + n, !.finBuffered = fin]
      /\ q = [p EXCEPT !.queued = @ + n, !.finApart = apart]
  BY DEF OutStreams
<1> HIDE DEF w, k
<1>3. p \in OutStreams /\ (p.open <=> o.open)
  BY Zenon, <1>1 DEF OutStreams
<1>4. q = [p EXCEPT !.queued = k, !.finApart = apart]
  OBVIOUS
<1> HIDE DEF p, q
<1>5. q \in OutStreams /\ (q.open <=> p.open)
  BY Zenon, <1>1, <1>3, <1>4 DEF OutStreams
<1> QED BY <1>2, <1>3, <1>5

\* Every step of the sender keeps the invariant and takes no credit back.
LEMMA SenderSteps ==
  ASSUME IInv, SenderStep
  PROVE  Kept /\ rcv' = rcv
<1>1. /\ SenderGood(snd) /\ out \in [Streams -> OutStreams]
      /\ writeBlocked \in SUBSET Streams /\ error \in BOOLEAN
  BY DEF IInv
<1>2. SameSent(snd)
  BY <1>1 DEF SameSent, SenderGood, SendSide
<1>3. ASSUME NEW s \in Streams, NEW n \in 0..Length, NEW fin \in BOOLEAN,
             WriteOrBufferData(s, n, fin)
      PROVE  Kept /\ rcv' = rcv
  <2> DEFINE o == [out[s] EXCEPT !.written = @ + n, !.finBuffered = fin]
  <2>1. out[s].open /\ UNCHANGED <<receiver, toSender>> /\ n \in Nat
    BY <1>3, WindowAssumption DEF WriteOrBufferData
  <2>2. o \in OutStreams /\ o.queued \in Nat /\ (o.open <=> out[s].open)
    <3>1. out[s] \in OutStreams /\ FALSE \in BOOLEAN
      BY Zenon, <1>1
    <3>2. o \in OutStreams /\ (o.open <=> out[s].open)
      BY Zenon, <2>1, <3>1, BufferedGood
    <3> HIDE DEF o
    <3> QED BY <3>2 DEF OutStreams
  <2>3. CASE HasBufferedData(s)
    <3> DEFINE p == [o EXCEPT !.queued = @ + n, !.finApart = n = 0]
               apart == n = 0
    <3>1. /\ out' = [out EXCEPT ![s] = p]
          /\ UNCHANGED <<snd, writeBlocked, toReceiver, error>>
      BY <1>3, <2>3 DEF WriteOrBufferData
    <3>2. apart \in BOOLEAN
      BY Zenon
    <3>3. p = [o EXCEPT !.queued = @ + n, !.finApart = apart] /\ out[s] \in OutStreams
      BY Zenon, <1>1
    <3> HIDE DEF apart, p
    <3>4. p \in OutStreams /\ (p.open <=> out[s].open)
      BY Zenon, <2>1, <3>2, <3>3, BufferedGood
    <3> HIDE DEF o
    <3>5. /\ out' \in [Streams -> OutStreams]
          /\ \A t \in Streams : out'[t].open <=> out[t].open
      BY <1>1, <3>1, <3>4
    <3>6. /\ rcv' = rcv /\ in' = in /\ locallyClosed' = locallyClosed
          /\ toSender' = toSender /\ toReceiver' = toReceiver /\ snd' = snd
          /\ writeBlocked' = writeBlocked /\ error' = error
      BY Zenon, <2>1, <3>1 DEF receiver
    <3>7. SenderGood(snd)' /\ ReceiverGood(rcv, in, locallyClosed)'
      BY Zenon, <3>6 DEF IInv, SenderGood, ReceiverGood
    <3>8. \A w \in toReceiver' : FrameGood(w)'
      BY Zenon, <3>5, <3>6 DEF IInv, FrameGood, Frames
    <3>9. IInv'
      BY Zenon, <3>5, <3>6, <3>7, <3>8 DEF IInv
    <3> QED BY <1>2, <3>6, <3>9 DEF Kept, SameSent
  <2>4. CASE ~HasBufferedData(s)
    <3>1. PICK k \in 0..n, f \in BOOLEAN :
            /\ WritevData(s, snd, writeBlocked, FALSE, n, fin, FALSE, k, f,
                          writeBlocked')
            /\ out' = [out EXCEPT ![s] = Written(o, n, k, f)]
      BY Zenon, <1>3, <2>4 DEF WriteOrBufferData
    <3> DEFINE p == Written(o, n, k, f)
    <3> HIDE DEF o
    <3>2. p \in OutStreams /\ (f => ~p.open) /\ k \in Nat
      BY <2>1, <2>2, WrittenGood
    <3>3. WriteGood(s, snd, k, f, writeBlocked')
      <4> DEFINE no == FALSE
      <4>1. no \in BOOLEAN
            /\ WritevData(s, snd, writeBlocked, no, n, fin, no, k, f, writeBlocked')
        BY Zenon, <3>1
      <4> HIDE DEF no
      <4> QED BY <1>1, <2>1, <3>2, <4>1, WritevGood
    <3>4. out' = [out EXCEPT ![s] = p]
      BY <3>1
    <3> HIDE DEF p
    <3>5. Kept
      BY ZenonT(40), <1>1, <1>2, <2>1, <3>2, <3>3, <3>4, WriteKeeps
    <3> QED BY <2>1, <3>5 DEF receiver
  <2> QED BY <2>3, <2>4
<1>4. ASSUME NEW s \in Streams, OnCanWrite(s)
      PROVE  Kept /\ rcv' = rcv
  <2>1. UNCHANGED <<receiver, toSender>> /\ rcv' = rcv
    BY <1>4 DEF OnCanWrite, receiver
  <2>2. CASE out[s].open /\ ~IsBlocked(snd[s])
    <3> DEFINE list == writeBlocked \ {s}
    <3>1. StreamOnCanWrite(s, snd, list, TRUE, writeBlocked') /\ list \in SUBSET Streams
      BY ZenonT(40), <1>1, <1>4, <2>2 DEF OnCanWrite
    <3> HIDE DEF list
    <3> QED BY Zenon, <1>1, <1>2, <2>1, <2>2, <3>1, StreamOnCanWriteKeeps
  <2>3. CASE ~(out[s].open /\ ~IsBlocked(snd[s]))
    <3>1. /\ writeBlocked' = writeBlocked \ {s}
          /\ UNCHANGED <<snd, out, toReceiver, error>>
      BY ZenonT(40), <1>4, <2>3 DEF OnCanWrite
    <3> QED BY <1>1, <1>2, <2>1, <3>1, SenderKeeps
  <2> QED BY Zenon, <2>2, <2>3
<1>5. ASSUME NEW u \in toSender, OnWindowUpdateFrame(u)
      PROVE  Kept /\ rcv' = rcv
  <2> DEFINE updated == [snd EXCEPT ![u.id] = UpdateSendWindowOffset(@, u.offset)]
             c == UpdateSendWindowOffset(snd[u.id], u.offset)
  <2>1. /\ UNCHANGED <<receiver, toSender>> /\ rcv' = rcv /\ u.type = "UPDATE"
    BY Zenon, <1>5 DEF OnWindowUpdateFrame, receiver
  <2>2. u.id \in Ids /\ u.offset \in Nat /\ u.offset <= rcv[u.id].offset
    BY Zenon, <2>1 DEF IInv, Updates
  <2>3. /\ c \in SendSide /\ c.sent = snd[u.id].sent /\ snd[u.id].offset <= c.offset
        /\ c.sent <= c.offset /\ c.offset <= rcv[u.id].offset
    <3>1. snd[u.id] \in SendSide /\ snd[u.id].sent <= snd[u.id].offset
            /\ snd[u.id].offset <= rcv[u.id].offset
      BY <1>1, <2>2 DEF SenderGood
    <3>2. CASE u.offset <= snd[u.id].offset
      BY <2>2, <3>1, <3>2 DEF UpdateSendWindowOffset, SendSide
    <3>3. CASE ~(u.offset <= snd[u.id].offset)
      BY <2>2, <3>1, <3>3 DEF UpdateSendWindowOffset, SendSide
    <3> QED BY Zenon, <3>2, <3>3
  <2>4. updated = [snd EXCEPT ![u.id] = c]
    BY Zenon
  <2>5. updated \in [Ids -> SendSide] /\ updated[u.id] = c
          /\ \A i \in Ids : i # u.id => updated[i] = snd[i]
    <3> HIDE DEF c
    <3> QED BY Zenon, <1>1, <2>2, <2>3, <2>4 DEF SenderGood
  <2> HIDE DEF updated, c
  <2>6. SenderGood(updated)
    BY Zenon, <1>1, <2>3, <2>5 DEF SenderGood
  <2>7. SameSent(updated)
    BY <1>2, <2>3, <2>5, IdsFacts DEF SameSent
  <2>8. CASE u.id # Conn /\ out[u.id].open /\ Unblocks(snd[u.id], u.offset)
    <3>1. PICK list \in SUBSET Streams :
             /\ StreamOnCanWrite(u.id, updated, writeBlocked, FALSE, list)
             /\ writeBlocked' \subseteq list
      BY ZenonT(40), <1>5, <2>8 DEF OnWindowUpdateFrame, updated, ClearClosedStreams
    <3> u.id \in Streams
      BY Zenon, <2>2, <2>8 DEF Ids
    <3>2. Kept
      BY Zenon, <1>1, <2>1, <2>6, <2>7, <2>8, <3>1, StreamOnCanWriteKeeps
    <3> QED BY Zenon, <2>1, <3>2
  <2>9. CASE ~(u.id # Conn /\ out[u.id].open /\ Unblocks(snd[u.id], u.offset))
    <3>1. /\ snd' = updated \/ snd' = snd
          /\ UNCHANGED <<out, toReceiver, error>>
          /\ writeBlocked' \subseteq writeBlocked
      BY Zenon, <1>5, <2>9 DEF OnWindowUpdateFrame, updated, ClearClosedStreams
    <3>2. SenderGood(snd') /\ SameSent(snd')
      BY <1>1, <1>2, <2>6, <2>7, <3>1
    <3> QED BY <1>1, <2>1, <3>1, <3>2, SenderKeeps
  <2> QED BY Zenon, <2>8, <2>9
<1>6. ASSUME NEW s \in Streams, CloseSending(s), writeBlocked' \subseteq writeBlocked
      PROVE  Kept /\ rcv' = rcv
  <2>1. /\ out' = [out EXCEPT ![s].open = FALSE]
        /\ toReceiver' = toReceiver \cup {Rst(s, snd[s].sent)}
        /\ snd' = snd /\ writeBlocked' \subseteq Streams /\ toSender' = toSender
        /\ error' = error /\ rcv' = rcv /\ in' = in /\ locallyClosed' = locallyClosed
    BY <1>1, <1>6 DEF CloseSending, receiver
  <2>2. /\ out' \in [Streams -> OutStreams] /\ ~out'[s].open
        /\ \A t \in Streams : t # s => out'[t] = out[t]
    BY ZenonT(40), <1>1, <2>1 DEF OutStreams
  <2>3. SenderGood(snd)' /\ ReceiverGood(rcv, in, locallyClosed)'
    BY <2>1 DEF IInv, SenderGood, ReceiverGood
  <2>4. snd[s].sent \in Nat
    BY <1>1, IdsFacts DEF SenderGood, SendSide
  <2>5. ASSUME NEW w \in toReceiver' PROVE w \in Frames /\ FrameGood(w)'
    <3>1. CASE w \in toReceiver
      BY <2>1, <2>2, <3>1 DEF IInv, FrameGood, Frames
    <3>2. CASE w = Rst(s, snd[s].sent)
      BY <2>1, <2>2, <2>4, <3>2 DEF Rst, FrameGood, Frames
    <3> QED BY <2>1, <3>1, <3>2
  <2>6. IInv'
    BY <2>1, <2>2, <2>3, <2>5 DEF IInv
  <2> QED BY <1>2, <2>1, <2>6 DEF Kept, SameSent
<1>7. ASSUME NEW u \in toSender, SenderOnRstStream(u)
      PROVE  Kept /\ rcv' = rcv
  <2>1. writeBlocked' \subseteq writeBlocked /\ CloseSending(u.id)
          /\ u.id \in Streams
    BY <1>7 DEF SenderOnRstStream, ClearClosedStreams, IInv
  <2> QED BY Zenon, <1>6, <2>1
<1>8. ASSUME PostProcessAfterData
      PROVE  Kept /\ rcv' = rcv
  <2>1. /\ UNCHANGED <<snd, out, toReceiver, error, receiver, toSender>>
        /\ rcv' = rcv /\ writeBlocked' \subseteq Streams
    BY <1>1, <1>8 DEF PostProcessAfterData, ClearClosedStreams, receiver
  <2> QED BY <1>1, <1>2, <2>1, SenderKeeps
<1>9. ASSUME NEW s \in Streams, SenderReset(s)
      PROVE  Kept /\ rcv' = rcv
  BY Zenon, <1>6, <1>9 DEF SenderReset
<1> QED BY <1>3, <1>4, <1>5, <1>7, <1>8, <1>9 DEF SenderStep, DeliverToSender

-----------------------------------------------------------------------------
\* The invariant holds initially.
LEMMA InitGood ==
  ASSUME Init
  PROVE  IInv
<1> DEFINE window(i) == IF i = Conn THEN SessionWindow ELSE StreamWindow
<1>1. \A i \in Ids : window(i) \in Nat /\ window(i) <= Limit(i)
  BY Zenon, WindowAssumption DEF Limit
<1>2. snd = [i \in Ids |-> NewSendSide(window(i))]
        /\ rcv = [i \in Ids |-> NewReceiveSide(window(i))]
  BY Zenon DEF Init
<1> HIDE DEF window
<1>3. \A i \in Ids :
        /\ snd[i] \in SendSide /\ snd[i].sent = 0 /\ snd[i].offset = window(i)
        /\ rcv[i] \in ReceiveSide /\ rcv[i].consumed = 0 /\ rcv[i].highest = 0
        /\ rcv[i].offset = window(i) /\ rcv[i].size = window(i)
  BY <1>1, <1>2 DEF NewSendSide, NewReceiveSide, SendSide, ReceiveSide
<1>4. SenderGood(snd)
  BY SMTT(30), <1>1, <1>2, <1>3 DEF SenderGood
<1>5. out \in [Streams -> OutStreams] /\ in \in [Streams -> InStreams]
        /\ locallyClosed = [s \in Streams |-> NoOffset]
        /\ \A s \in Streams : in[s].got = {}
  BY Zenon DEF Init, OutStreams, InStreams
<1>6. ReceiverGood(rcv, in, locallyClosed)
  BY SMTT(30), <1>1, <1>2, <1>3, <1>5, IdsFacts DEF ReceiverGood, Fits
<1> QED BY Zenon, <1>4, <1>5, <1>6 DEF IInv, Init

\* Every step keeps the invariant and takes no credit back.
LEMMA StepGood ==
  ASSUME IInv, [Next]_vars
  PROVE  /\ IInv'
         /\ \A i \in Ids : /\ snd[i].offset <= snd'[i].offset
                           /\ rcv[i].offset <= rcv'[i].offset
<1>1. \A i \in Ids : snd[i].offset \in Nat /\ rcv[i].offset \in Nat
  BY DEF IInv, SenderGood, ReceiverGood, SendSide, ReceiveSide
<1>2. CASE SenderStep
  BY <1>1, <1>2, SenderSteps DEF Kept
<1>3. CASE ReceiverStep
  <2>1. snd' = snd
    BY Zenon, <1>3 DEF ReceiverStep, Deliver, DeliverHeaders, OnStreamFrame, OnRstStream,
                OnHeaders, ReceiverReset, sender
  <2> QED BY <1>1, <1>3, <2>1, ReceiverSteps DEF Later
<1>4. CASE UNCHANGED vars
  <2>1. IInv'
    BY Zenon, <1>4 DEF vars, IInv, SenderGood, ReceiverGood, FrameGood
  <2> QED BY <1>1, <1>4, <2>1 DEF vars
<1> QED BY ZenonT(40), <1>2, <1>3, <1>4 DEF Next

\* The sender keeps within the credit it knows of, which keeps within the
\* credit the receiver has given, which keeps within its window; and nothing
\* arrives that was not sent.
THEOREM Inductive == Spec => []IInv
<1>1. Init => IInv
  BY Zenon, InitGood
<1>2. IInv /\ [Next]_vars => IInv'
  BY Zenon, StepGood
<1> QED BY <1>1, <1>2, PTL DEF Spec

\* Every variable keeps its type: in particular offsets stay natural numbers,
\* so none of the subtractions of the flow controller goes below zero.
THEOREM FlowTypeCorrect == Spec => []TypeOK
<1>1. IInv => TypeOK
  BY DEF IInv, TypeOK, SenderGood, ReceiverGood, OutStreams, InStreams
<1> QED BY <1>1, Inductive, PTL

\* QuicFlowController: at both levels, what is sent is within the credit the
\* sender knows of, that within the credit given out, and that within one
\* window of what was consumed.
THEOREM CreditSafe == Spec => []CreditBounded
<1>1. IInv => CreditBounded
  BY DEF IInv, CreditBounded, SenderGood, ReceiverGood, Fits
<1> QED BY <1>1, Inductive, PTL

\* Credit once given is never taken back by either side
\* (UpdateSendWindowOffset ignores WINDOW_UPDATE frames that come late).
THEOREM CreditMonotone == Spec => CreditNeverShrinks
<1> DEFINE Forward == \A i \in Ids : /\ snd'[i].offset >= snd[i].offset
                                     /\ rcv'[i].offset >= rcv[i].offset
<1>1. IInv /\ [Next]_vars => [Forward]_vars
  <2> SUFFICES ASSUME IInv, [Next]_vars PROVE Forward
    BY Zenon
  <2>1. \A i \in Ids : /\ snd[i].offset \in Nat /\ snd'[i].offset \in Nat
                       /\ rcv[i].offset \in Nat /\ rcv'[i].offset \in Nat
    BY ZenonT(40), StepGood DEF IInv, SenderGood, ReceiverGood, SendSide, ReceiveSide
  <2> QED BY Zenon, <2>1, StepGood
<1> QED BY <1>1, Inductive, PTL DEF Spec, CreditNeverShrinks

-----------------------------------------------------------------------------
\* No wakeup is lost.

\* A WINDOW_UPDATE moves the offset of the sender forward or changes nothing
\* (QuicFlowController::UpdateSendWindowOffset).
LEMMA UpdateType ==
  ASSUME NEW d \in SendSide, NEW offset \in Nat
  PROVE  LET c == UpdateSendWindowOffset(d, offset)
         IN /\ c \in SendSide /\ c.sent = d.sent
            /\ c.offset = offset \/ c.offset = d.offset
            /\ c.offset >= d.offset
            /\ c # d => offset > d.offset
BY DEF UpdateSendWindowOffset, SendSide

\* A stream that StreamMaybeSendBlocked leaves with a window closed at either
\* level is on the list, or blocked at its own level.
LEMMA SendBlockedWakes ==
  ASSUME NEW sd, SenderGood(sd), NEW s \in Streams, NEW list \in SUBSET Streams,
         NEW after, StreamMaybeSendBlocked(s, sd, list, after),
         IsBlocked(sd[s]) \/ IsBlocked(sd[Conn])
  PROVE  s \in after \/ IsBlocked(snd'[s])
<1>1. CASE IsBlocked(sd[s])
  BY <1>1, SendBlockedGood, IdsFacts DEF IsBlocked, SendWindowSize
<1>2. CASE ~IsBlocked(sd[s])
  BY Zenon, <1>2 DEF StreamMaybeSendBlocked
<1> QED BY ZenonT(40), <1>1, <1>2

\* A write that leaves something behind leaves the stream on the list or
\* blocked at its own level (QuicStream::WritevData).
LEMMA WritevWakes ==
  ASSUME NEW sd, SenderGood(sd), NEW s \in Streams, NEW list \in SUBSET Streams,
         NEW current \in BOOLEAN, NEW len \in Nat, NEW fin \in BOOLEAN,
         NEW apart \in BOOLEAN, NEW n \in Nat, NEW f \in BOOLEAN, NEW after,
         WritevData(s, sd, list, current, len, fin, apart, n, f, after), n <= len
  PROVE  /\ n < len \/ (fin /\ ~f) => s \in after \/ IsBlocked(snd'[s])
         /\ list \subseteq after
<1> DEFINE finAlone == fin /\ len = 0
           window == Least(SendWindowSize(sd[s]), SendWindowSize(sd[Conn]))
           length == Least(len, window)
           finNow == fin /\ len <= window
           charged == StreamAddBytesSent(s, sd, n)
           listed == IF finNow /\ ~f THEN list \cup {s} ELSE list
<1>1. /\ sd[s] \in SendSide /\ sd[Conn] \in SendSide
      /\ SendWindowSize(sd[s]) \in Nat /\ SendWindowSize(sd[Conn]) \in Nat
  BY IdsFacts DEF SenderGood, SendSide, SendWindowSize
<1>2. CASE after = list \cup {s}
  BY Zenon, <1>2
<1>3. CASE window = 0 /\ StreamMaybeSendBlocked(s, sd, list, after)
  <2>1. IsBlocked(sd[s]) \/ IsBlocked(sd[Conn])
    BY <1>1, <1>3 DEF IsBlocked, Least
  <2>2. list \subseteq after
    BY Zenon, <1>3 DEF StreamMaybeSendBlocked
  <2> QED BY <1>3, <2>1, <2>2, SendBlockedWakes
<1>4. CASE /\ n = length
           /\ IF finAlone THEN snd' = charged /\ after = listed
              ELSE StreamMaybeSendBlocked(s, charged, listed, after)
  <2>1. window \in Nat /\ length \in Nat /\ length <= len /\ length <= window
          /\ (length = len \/ length = window)
          /\ (window = SendWindowSize(sd[s]) \/ window = SendWindowSize(sd[Conn]))
          /\ window <= SendWindowSize(sd[s]) /\ window <= SendWindowSize(sd[Conn])
    BY SMTT(30), <1>1 DEF Least
  <2>2. listed \subseteq after
    BY Zenon, <1>4 DEF StreamMaybeSendBlocked
  <2>3. CASE finNow /\ ~f
    BY Zenon, <2>2, <2>3
  <2>4. CASE ~(finNow /\ ~f) /\ n < len
    <3>1. n = window /\ ~finAlone
      BY SMTT(30), <1>4, <2>1, <2>4
    <3>2. n <= SendWindowSize(sd[s]) /\ n <= SendWindowSize(sd[Conn])
      BY Zenon, <2>1, <3>1
    <3>3. /\ SenderGood(charged)
          /\ charged[s].sent = sd[s].sent + n /\ charged[Conn].sent = sd[Conn].sent + n
          /\ charged[s].offset = sd[s].offset /\ charged[Conn].offset = sd[Conn].offset
      <4>1. s \in Ids /\ Conn \in Ids
        BY Zenon, IdsFacts
      <4> QED BY ZenonT(40), <3>2, <4>1, ChargeGood
    <3>4. listed \in SUBSET Streams /\ StreamMaybeSendBlocked(s, charged, listed, after)
      BY Zenon, <1>4, <3>1
    <3>5. n = SendWindowSize(sd[s]) \/ n = SendWindowSize(sd[Conn])
      BY <2>1, <3>1
    <3> HIDE DEF charged, listed, window, length, finNow, finAlone
    <3>6. IsBlocked(charged[s]) \/ IsBlocked(charged[Conn])
      <4>1. ASSUME NEW c \in SendSide, NEW d, c.sent <= c.offset,
                   n = SendWindowSize(c), d.sent = c.sent + n, d.offset = c.offset
            PROVE  IsBlocked(d)
        <5>1. c.sent \in Nat /\ c.offset \in Nat /\ c.sent + n = c.offset
          BY SMTT(30), <4>1 DEF SendSide, SendWindowSize
        <5> QED BY <4>1, <5>1 DEF SendWindowSize, IsBlocked
      <4>2. sd[s].sent <= sd[s].offset /\ sd[Conn].sent <= sd[Conn].offset
        BY Zenon, IdsFacts DEF SenderGood
      <4> QED BY ZenonT(40), <1>1, <3>3, <3>5, <4>1, <4>2
    <3>7. s \in after \/ IsBlocked(snd'[s])
      BY <3>3, <3>4, <3>6, SendBlockedWakes
    <3>8. list \subseteq listed
      BY DEF listed
    <3> QED BY Zenon, <2>2, <3>7, <3>8
  <2>5. CASE ~(finNow /\ ~f) /\ ~(n < len)
    <3>1. len <= window
      BY <1>4, <2>1, <2>5
    <3>2. ~(fin /\ ~f)
      BY <2>5, <3>1
    <3>3. list \subseteq after
      BY Zenon, <2>2
    <3> HIDE DEF charged, listed, window, length, finNow, finAlone
    <3> QED BY Zenon, <2>5, <3>2, <3>3
  <2> QED BY Zenon, <2>3, <2>4, <2>5
<1> HIDE DEF finAlone, window, length, finNow, charged, listed
<1> QED BY ZenonT(40), <1>2, <1>3, <1>4
        DEF WritevData, finAlone, window, length, finNow, charged, listed

\* A stream with the sending state o has something left to send.
Left(o) == o.open /\ (o.queued > 0 \/ (o.finBuffered /\ ~o.finSent))

\* Only stream s is changed by a step that starts from sd and list.
OnlyFor(s, sd, list) ==
    /\ \A t \in Streams : t # s => sd[t] = snd[t]
    /\ writeBlocked \ {s} \subseteq list

\* The open streams of the list stay on the write blocked list.
OpenStayListed(list) == \A t \in list : out'[t].open => t \in writeBlocked'

\* A step that changes one stream has to wake no other.
LEMMA OneStreamWakes ==
  ASSUME IInv, NoLostWakeup, NEW s \in Streams,
         \A t \in Streams : t # s => /\ snd'[t].sent = snd[t].sent
                                     /\ snd'[t].offset = snd[t].offset
                                     /\ out'[t] = out[t],
         OpenStayListed(writeBlocked \ {s}),
         Left(out'[s]) => s \in writeBlocked' \/ IsBlocked(snd'[s])
  PROVE  NoLostWakeup'
<1> SUFFICES ASSUME NEW t \in Streams, Left(out'[t])
             PROVE  t \in writeBlocked' \/ IsBlocked(snd'[t])
  BY Zenon DEF NoLostWakeup, HasBufferedData, Left
<1>1. CASE t = s
  BY Zenon, <1>1
<1>2. CASE t # s
  <2>1. t \in writeBlocked \/ IsBlocked(snd[t])
    BY Zenon, <1>2 DEF NoLostWakeup, HasBufferedData, Left
  <2> QED BY Zenon, <1>2, <2>1 DEF IsBlocked, SendWindowSize, OpenStayListed, Left
<1> QED BY Zenon, <1>1, <1>2

\* What a write leaves behind is left to send.
LEMMA WrittenLeft ==
  ASSUME NEW o \in OutStreams, NEW total \in Nat, NEW n \in 0..total,
         NEW f \in BOOLEAN, Left(Written(o, total, n, f))
  PROVE  n < total \/ (o.finBuffered /\ ~f)
<1> DEFINE open == ~f
           left == total - n
           w == [o EXCEPT !.queued = left, !.finSent = f, !.open = open]
<1>1. w = Written(o, total, n, f)
  BY DEF Written
<1>2. left \in Nat /\ (left > 0 => n < total)
  OBVIOUS
<1> HIDE DEF left, open
<1>3. w.queued = left /\ (w.finSent <=> f) /\ (w.finBuffered <=> o.finBuffered)
  BY DEF OutStreams
<1> HIDE DEF w
<1> QED BY <1>1, <1>2, <1>3 DEF Left

\* QuicStream::OnCanWrite loses no wakeup.
LEMMA StreamOnCanWriteWakes ==
  ASSUME IInv, NoLostWakeup, NEW sd, SenderGood(sd), NEW s \in Streams,
         NEW list \in SUBSET Streams, OnlyFor(s, sd, list),
         NEW current \in BOOLEAN, NEW after,
         StreamOnCanWrite(s, sd, list, current, after), OpenStayListed(after)
  PROVE  NoLostWakeup'
<1>1. out[s] \in OutStreams /\ out[s].queued \in Nat /\ out \in [Streams -> OutStreams]
        /\ out[s].finBuffered \in BOOLEAN /\ out[s].finApart \in BOOLEAN
        /\ error \in BOOLEAN
  BY Zenon DEF IInv, OutStreams
<1>2. CASE HasBufferedData(s)
  <2>1. PICK k \in 0..out[s].queued, f \in BOOLEAN :
            /\ WritevData(s, sd, list, current, out[s].queued,
                          out[s].finBuffered, out[s].finApart, k, f, after)
            /\ out' = [out EXCEPT ![s] = Written(@, out[s].queued, k, f)]
    BY <1>2 DEF StreamOnCanWrite
  <2>2. k \in Nat /\ k <= out[s].queued
    BY SMTT(30), <1>1
  <2>3. WriteGood(s, sd, k, f, after)
    BY SMTT(30), <1>1, <2>1, <2>2, WritevGood
  <2>4. /\ k < out[s].queued \/ (out[s].finBuffered /\ ~f)
              => s \in after \/ IsBlocked(snd'[s])
        /\ list \subseteq after
    BY SMTT(30), <1>1, <2>1, <2>2, WritevWakes
  <2>5. /\ out'[s] = Written(out[s], out[s].queued, k, f)
        /\ \A t \in Streams : t # s => out'[t] = out[t]
    BY Zenon, <1>1, <2>1
  <2>6. Left(out'[s]) => s \in writeBlocked' \/ IsBlocked(snd'[s])
    BY ZenonT(40), <1>1, <2>4, <2>5, WrittenLeft DEF OpenStayListed, Left
  <2>7. \A t \in Streams : t # s => /\ snd'[t].sent = snd[t].sent
                                    /\ snd'[t].offset = snd[t].offset
    BY ZenonT(40), <2>3, IdsFacts DEF WriteGood, OnlyFor
  <2>8. OpenStayListed(writeBlocked \ {s})
    BY Zenon, <2>4 DEF OnlyFor, OpenStayListed
  <2> QED BY ZenonT(40), <2>5, <2>6, <2>7, <2>8, OneStreamWakes
<1>3. CASE ~HasBufferedData(s)
  <2>1. snd' = sd /\ after = list /\ out' = out
    BY Zenon, <1>3 DEF StreamOnCanWrite
  <2>2. ~Left(out'[s])
    BY Zenon, <1>3, <2>1 DEF Left, HasBufferedData
  <2>3. OpenStayListed(writeBlocked \ {s})
    BY <2>1 DEF OnlyFor, OpenStayListed
  <2> QED BY <2>1, <2>2, <2>3, OneStreamWakes DEF OnlyFor
<1> QED BY Zenon, <1>2, <1>3

\* No step loses a wakeup.
LEMMA StepWakes ==
  ASSUME IInv, NoLostWakeup, [Next]_vars
  PROVE  NoLostWakeup'
<1>1. /\ SenderGood(snd) /\ out \in [Streams -> OutStreams]
      /\ writeBlocked \in SUBSET Streams /\ error \in BOOLEAN
  BY DEF IInv
<1>2. ASSUME NEW s \in Streams, NEW n \in 0..Length, NEW fin \in BOOLEAN,
             WriteOrBufferData(s, n, fin)
      PROVE  NoLostWakeup'
  <2> DEFINE o == [out[s] EXCEPT !.written = @ + n, !.finBuffered = fin]
             no == FALSE
             apart == n = 0
  <2>1. out[s] \in OutStreams /\ out[s].open /\ n \in Nat
    BY <1>1, <1>2, WindowAssumption DEF WriteOrBufferData
  <2>2. no \in BOOLEAN /\ apart \in BOOLEAN
    BY Zenon
  <2>3. CASE HasBufferedData(s)
    <3> DEFINE p == [o EXCEPT !.queued = @ + n, !.finApart = apart]
    <3>1. out' = [out EXCEPT ![s] = p] /\ snd' = snd /\ writeBlocked' = writeBlocked
      BY Zenon, <1>2, <2>3 DEF WriteOrBufferData
    <3>2. s \in writeBlocked \/ IsBlocked(snd[s])
      BY <2>1, <2>3 DEF NoLostWakeup
    <3> HIDE DEF p
    <3>3. \A t \in Streams : t # s => out'[t] = out[t]
      BY Zenon, <1>1, <3>1
    <3> QED BY <3>1, <3>2, <3>3, OneStreamWakes DEF OpenStayListed
  <2>4. CASE ~HasBufferedData(s)
    <3>1. PICK k \in 0..n, f \in BOOLEAN :
            /\ WritevData(s, snd, writeBlocked, no, n, fin, no, k, f, writeBlocked')
            /\ out' = [out EXCEPT ![s] = Written(o, n, k, f)]
      BY Zenon, <1>2, <2>4 DEF WriteOrBufferData
    <3>2. o \in OutStreams
      BY Zenon, <2>1, <2>2, BufferedGood
    <3>3. o.finBuffered <=> fin
      BY <2>1 DEF OutStreams
    <3> HIDE DEF o, no, apart
    <3>4. k \in Nat /\ k <= n
      BY SMTT(30), <2>1
    <3>5. WriteGood(s, snd, k, f, writeBlocked')
      BY SMTT(30), <1>1, <2>1, <2>2, <3>1, <3>4, WritevGood
    <3>6. /\ k < n \/ (fin /\ ~f) => s \in writeBlocked' \/ IsBlocked(snd'[s])
          /\ writeBlocked \subseteq writeBlocked'
      BY <1>1, <2>1, <2>2, <3>1, <3>4, WritevWakes
    <3>7. /\ out'[s] = Written(o, n, k, f)
          /\ \A t \in Streams : t # s => out'[t] = out[t]
      BY Zenon, <1>1, <3>1
    <3>8. Left(out'[s]) => s \in writeBlocked' \/ IsBlocked(snd'[s])
      BY Zenon, <2>1, <3>2, <3>3, <3>6, <3>7, WrittenLeft
    <3>9. \A t \in Streams : t # s => /\ snd'[t].sent = snd[t].sent
                                      /\ snd'[t].offset = snd[t].offset
      BY Zenon, <3>5, IdsFacts DEF WriteGood
    <3> QED BY <3>6, <3>7, <3>8, <3>9, OneStreamWakes DEF OpenStayListed
  <2> QED BY <2>3, <2>4
<1>3. ASSUME NEW s \in Streams, OnCanWrite(s)
      PROVE  NoLostWakeup'
  <2> DEFINE list == writeBlocked \ {s}
             yes == TRUE
  <2>1. CASE out[s].open /\ ~IsBlocked(snd[s])
    <3>1. StreamOnCanWrite(s, snd, list, yes, writeBlocked')
            /\ list \in SUBSET Streams /\ OnlyFor(s, snd, list) /\ yes \in BOOLEAN
            /\ OpenStayListed(writeBlocked')
      BY Zenon, <1>1, <1>3, <2>1 DEF OnCanWrite, OnlyFor, OpenStayListed
    <3> HIDE DEF list, yes
    <3> QED BY Zenon, <1>1, <3>1, StreamOnCanWriteWakes
  <2>2. CASE ~(out[s].open /\ ~IsBlocked(snd[s]))
    <3>1. writeBlocked' = list /\ snd' = snd /\ out' = out
      BY ZenonT(40), <1>3, <2>2 DEF OnCanWrite
    <3> QED BY <2>2, <3>1, OneStreamWakes DEF Left, OpenStayListed
  <2> QED BY <2>1, <2>2
<1>4. ASSUME NEW u \in toSender, OnWindowUpdateFrame(u)
      PROVE  NoLostWakeup'
  <2> DEFINE c == UpdateSendWindowOffset(snd[u.id], u.offset)
             updated == [snd EXCEPT ![u.id] = c]
             no == FALSE
  <2>1. u.id \in Ids /\ u.offset \in Nat /\ u.offset <= rcv[u.id].offset
    BY Zenon, <1>4 DEF OnWindowUpdateFrame, IInv, Updates
  <2>2. snd[u.id] \in SendSide /\ snd[u.id].sent <= snd[u.id].offset
          /\ snd[u.id].offset <= rcv[u.id].offset
    BY Zenon, <1>1, <2>1 DEF SenderGood
  <2>3. /\ c \in SendSide /\ c.sent <= c.offset /\ c.offset <= rcv[u.id].offset
        /\ IsBlocked(snd[u.id]) /\ ~IsBlocked(c) => Unblocks(snd[u.id], u.offset)
    <3>1. /\ c \in SendSide /\ c.sent = snd[u.id].sent
          /\ c.offset = u.offset \/ c.offset = snd[u.id].offset
          /\ c.offset >= snd[u.id].offset
          /\ c # snd[u.id] => u.offset > snd[u.id].offset
      BY Zenon, <2>1, <2>2, UpdateType
    <3> HIDE DEF c
    <3>2. snd[u.id].sent \in Nat /\ snd[u.id].offset \in Nat /\ rcv[u.id].offset \in Nat
      BY Zenon, <1>1, <2>1, <2>2 DEF IInv, ReceiverGood, ReceiveSide, SendSide
    <3>3. c.sent <= c.offset /\ c.offset <= rcv[u.id].offset
      BY SMTT(30), <2>1, <2>2, <3>1, <3>2
    <3>4. IsBlocked(snd[u.id]) /\ ~IsBlocked(c) => Unblocks(snd[u.id], u.offset)
      BY Zenon, <3>1 DEF Unblocks
    <3> QED BY Zenon, <3>1, <3>3, <3>4
  <2>4. SenderGood(updated) /\ updated[u.id] = c
          /\ \A i \in Ids : i # u.id => updated[i] = snd[i]
    <3> HIDE DEF c
    <3> QED BY Zenon, <1>1, <2>1, <2>3 DEF SenderGood
  <2>5. CASE u.id # Conn /\ out[u.id].open /\ Unblocks(snd[u.id], u.offset)
    <3>1. PICK list \in SUBSET Streams :
             /\ StreamOnCanWrite(u.id, updated, writeBlocked, no, list)
             /\ OpenStayListed(list)
      BY Zenon, <1>4, <2>5 DEF OnWindowUpdateFrame, ClearClosedStreams, OpenStayListed
    <3> u.id \in Streams /\ no \in BOOLEAN
      BY <2>1, <2>5 DEF Ids
    <3> HIDE DEF updated, c, no
    <3>2. OnlyFor(u.id, updated, writeBlocked)
      BY Zenon, <2>4, IdsFacts DEF OnlyFor
    <3> QED BY Zenon, <1>1, <2>4, <3>1, <3>2, StreamOnCanWriteWakes
  <2>6. CASE ~(u.id # Conn /\ out[u.id].open /\ Unblocks(snd[u.id], u.offset))
    <3>1. /\ snd' = IF u.id = Conn \/ out[u.id].open THEN updated ELSE snd
          /\ out' = out /\ OpenStayListed(writeBlocked)
      BY ZenonT(40), <1>4, <2>6 DEF OnWindowUpdateFrame, ClearClosedStreams, OpenStayListed
    <3> HIDE DEF updated, c
    <3>2. ASSUME NEW t \in Streams, Left(out'[t])
          PROVE  t \in writeBlocked' \/ IsBlocked(snd'[t])
      <4>1. t \in writeBlocked \/ IsBlocked(snd[t])
        BY Zenon, <3>1, <3>2 DEF NoLostWakeup, HasBufferedData, Left
      <4>2. CASE t # u.id
        BY Zenon, <2>4, <3>1, <3>2, <4>1, <4>2, IdsFacts DEF OpenStayListed, Left
      <4>3. CASE t = u.id
        BY <2>3, <2>4, <2>6, <3>1, <3>2, <4>1, <4>3, IdsFacts DEF Left, OpenStayListed
      <4> QED BY Zenon, <4>2, <4>3
    <3> QED BY Zenon, <3>2 DEF NoLostWakeup, HasBufferedData, Left
  <2> QED BY <2>5, <2>6
<1>5. ASSUME NEW s \in Streams, CloseSending(s), OpenStayListed(writeBlocked)
      PROVE  NoLostWakeup'
  <2>1. /\ out' = [out EXCEPT ![s].open = FALSE]
        /\ snd' = snd /\ OpenStayListed(writeBlocked \ {s})
    BY <1>5 DEF CloseSending, OpenStayListed
  <2>2. ~out'[s].open /\ \A t \in Streams : t # s => out'[t] = out[t]
    BY <1>1, <2>1 DEF OutStreams
  <2> QED BY <2>1, <2>2, OneStreamWakes DEF Left
<1>6. CASE SenderStep
  <2>1. ASSUME NEW u \in toSender, SenderOnRstStream(u)
        PROVE  NoLostWakeup'
    <3>1. CloseSending(u.id) /\ OpenStayListed(writeBlocked) /\ u.id \in Streams
      BY <2>1 DEF SenderOnRstStream, ClearClosedStreams, OpenStayListed, IInv
    <3> QED BY Zenon, <1>5, <3>1
  <2>2. ASSUME NEW s \in Streams, SenderReset(s)
        PROVE  NoLostWakeup'
    <3>1. CloseSending(s) /\ OpenStayListed(writeBlocked)
      BY Zenon, <2>2 DEF SenderReset, OpenStayListed
    <3> QED BY <1>5, <3>1
  <2>3. ASSUME PostProcessAfterData
        PROVE  NoLostWakeup'
    BY Zenon, <2>3 DEF PostProcessAfterData, ClearClosedStreams, NoLostWakeup, HasBufferedData
  <2> QED BY <1>2, <1>3, <1>4, <1>6, <2>1, <2>2, <2>3
          DEF SenderStep, DeliverToSender
<1>7. CASE ReceiverStep \/ UNCHANGED vars
  <2>1. snd' = snd /\ out' = out /\ writeBlocked' = writeBlocked
    BY Zenon, <1>7 DEF ReceiverStep, Deliver, DeliverHeaders, OnStreamFrame, OnRstStream,
                OnHeaders, ReceiverReset, sender, vars
  <2> QED BY <2>1 DEF NoLostWakeup, HasBufferedData
<1> QED BY Zenon, <1>6, <1>7 DEF Next

\* A stream with something left to send is on the write blocked list or
\* waits for a WINDOW_UPDATE of its own: between QuicStream::WritevData,
\* MaybeSendBlocked, QuicSession::OnCanWrite and OnWindowUpdateFrame no
\* wakeup is lost.
THEOREM WakeupSafe == Spec => []NoLostWakeup
<1>1. Init => NoLostWakeup
  BY DEF Init, NoLostWakeup, HasBufferedData
<1>2. IInv /\ NoLostWakeup /\ [Next]_vars => NoLostWakeup'
  BY StepWakes
<1> QED BY <1>1, <1>2, Inductive, PTL DEF Spec
=============================================================================
