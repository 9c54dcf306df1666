---------------------------- MODULE FlowAccounts ----------------------------
(***************************************************************************)
(* Proofs about the accounts that the two levels of FlowControl keep of    *)
(* the same bytes: the counters of the connection are the sums over its    *)
(* streams.  That no window of the connection is overrun follows from it.  *)
(***************************************************************************)
EXTENDS FlowControlProofs, SumTheorems

\* The bytes of a stream that have arrived, as the connection counts them.
ArrivedBytes(s) ==
    IF in[s].open THEN rcv[s].highest
    ELSE IF locallyClosed[s] # NoOffset THEN locallyClosed[s]
    ELSE snd[s].sent

\* The three counts of the streams that the connection adds up.
Sent == [s \in Streams |-> snd[s].sent]
Arrived == [s \in Streams |-> ArrivedBytes(s)]
Accounted == [s \in Streams |-> AccountedBytes(s)]

\* A receiving stream i with the window c that knows of its end knows it right.
EndGood(s, c, i) ==
    /\ i.finReceived \/ i.rstReceived \/ i.close # NoOffset => ~out[s].open
    /\ i.close # NoOffset => i.close = snd[s].sent
    /\ i.rstReceived => c.highest = snd[s].sent
    /\ ~FinAlone /\ i.finReceived => c.highest = snd[s].sent

\* What the receiver remembers of s agrees with what the sender has done: a
\* stream closed for good at the receiver is one the sender has finished.
StreamAccount(s) ==
    /\ EndGood(s, rcv[s], in[s])
    /\ in[s].open => locallyClosed[s] = NoOffset
    /\ ~in[s].open /\ locallyClosed[s] = NoOffset => ~out[s].open

\* With no FIN of its own, a FIN that waits has bytes to wait with.
QueueGood(o) == o.open /\ o.finBuffered => o.queued > 0

\* The accounts of the connection, at the sender and at the receiver.  Only
\* when no FIN is sent without data does the receiver give back every byte.
AInv ==
    /\ ~error
    /\ snd[Conn].sent = SumFunctionOnSet(Sent, Streams)
    /\ rcv[Conn].highest <= SumFunctionOnSet(Arrived, Streams)
    /\ \A s \in Streams : StreamAccount(s)
    /\ ~FinAlone =>
        /\ rcv[Conn].consumed = SumFunctionOnSet(Accounted, Streams)
        /\ \A s \in Streams : QueueGood(out[s]) /\ ~out[s].finApart
        /\ \A f \in toReceiver : f.type = "STREAM" /\ f.fin => f.len > 0

-----------------------------------------------------------------------------
\* Every count is a natural number, and what has arrived was sent.
LEMMA CountersType ==
  ASSUME IInv
  PROVE  /\ rcv \in [Ids -> ReceiveSide] /\ snd \in [Ids -> SendSide]
         /\ \A i \in Ids : /\ rcv[i].highest \in Nat /\ rcv[i].consumed \in Nat
                           /\ rcv[i].offset \in Nat
                           /\ snd[i].sent \in Nat /\ snd[i].offset \in Nat
         /\ \A s \in Streams : /\ ArrivedBytes(s) \in Nat /\ Arrived[s] = ArrivedBytes(s)
                               /\ AccountedBytes(s) \in Nat
                               /\ Accounted[s] = AccountedBytes(s)
                               /\ Sent[s] = snd[s].sent
                               /\ ArrivedBytes(s) <= snd[s].sent
<1>1. rcv \in [Ids -> ReceiveSide] /\ snd \in [Ids -> SendSide]
        /\ locallyClosed \in [Streams -> Nat \cup {NoOffset}]
  BY Zenon DEF IInv, ReceiverGood, SenderGood
<1>2. \A i \in Ids : /\ rcv[i].highest \in Nat /\ rcv[i].consumed \in Nat
                     /\ rcv[i].offset \in Nat
                     /\ snd[i].sent \in Nat /\ snd[i].offset \in Nat
  BY <1>1 DEF ReceiveSide, SendSide
<1>3. ASSUME NEW s \in Streams
      PROVE  /\ ArrivedBytes(s) \in Nat /\ AccountedBytes(s) \in Nat
             /\ ArrivedBytes(s) <= snd[s].sent
  <2>1. /\ rcv[s].highest <= snd[s].sent
        /\ locallyClosed[s] # NoOffset => locallyClosed[s] <= snd[s].sent
        /\ locallyClosed[s] \in Nat \cup {NoOffset}
    BY Zenon, <1>1 DEF IInv, ReceiverGood
  <2> QED BY <1>2, <2>1, IdsFacts DEF ArrivedBytes, AccountedBytes
<1>4. \A s \in Streams : /\ Arrived[s] = ArrivedBytes(s)
                         /\ Accounted[s] = AccountedBytes(s)
                         /\ Sent[s] = snd[s].sent
  BY Zenon DEF Arrived, Accounted, Sent
<1> QED BY Zenon, <1>1, <1>2, <1>3, <1>4

\* The types of the counts of the receiver.
CountsTyped ==
    /\ \A t \in Streams : /\ Arrived[t] \in Nat /\ Arrived[t] = ArrivedBytes(t)
                          /\ Accounted[t] \in Nat /\ Accounted[t] = AccountedBytes(t)
    /\ rcv[Conn].highest \in Nat /\ rcv[Conn].consumed \in Nat

\* They hold in the next state too.
LEMMA CountsTypedNext == IInv' => CountsTyped'
<1>1. IInv => CountsTyped
  BY CountersType, IdsFacts DEF CountsTyped
<1> QED BY <1>1, PTL

\* What has arrived at the connection was sent, even when more arrives on s.
LEMMA ConnWithin ==
  ASSUME IInv, AInv, NEW s \in Streams, NEW h \in Nat,
         h <= snd[s].sent
  PROVE  rcv[Conn].highest + (h - ArrivedBytes(s)) <= rcv[Conn].offset
<1> DEFINE g == [t \in Streams |-> IF t = s THEN h ELSE ArrivedBytes(t)]
<1>1. /\ \A t \in Streams : /\ Arrived[t] \in Nat /\ Sent[t] \in Nat
                            /\ Arrived[t] = ArrivedBytes(t)
      /\ snd[Conn].sent \in Nat /\ rcv[Conn].highest \in Nat
      /\ snd[Conn].offset \in Nat /\ rcv[Conn].offset \in Nat
  BY CountersType, IdsFacts
<1>2. \A t \in Streams : g[t] \in Nat /\ g[t] <= Sent[t]
  BY CountersType
<1>3. g[s] = h /\ \A t \in Streams \ {s} : Arrived[t] = g[t]
  BY <1>1
<1> HIDE DEF g
<1>4. SumFunctionOnSet(g, Streams) =
        SumFunctionOnSet(Arrived, Streams) + h - ArrivedBytes(s)
  BY <1>1, <1>2, <1>3, SumChange, StreamsAssumption
<1>5. SumFunctionOnSet(g, Streams) <= SumFunctionOnSet(Sent, Streams)
  BY <1>1, <1>2, SumMonotone, StreamsAssumption
<1>6. SumFunctionOnSet(Arrived, Streams) \in Int
  BY <1>1, SumInt, StreamsAssumption
<1>7. /\ snd[Conn].sent <= snd[Conn].offset /\ snd[Conn].offset <= rcv[Conn].offset
  BY Zenon, IdsFacts DEF IInv, SenderGood
<1>8. ArrivedBytes(s) \in Nat
  BY <1>1
<1> QED BY <1>1, <1>4, <1>5, <1>6, <1>7, <1>8 DEF AInv

\* No window is overrun in a state whose accounts are in order.
LEMMA NotViolated ==
  ASSUME IInv, AInv
  PROVE  NoFlowControlViolation
<1>1. ASSUME NEW s \in Streams PROVE ~FlowControlViolation(rcv[s])
  <2>1. rcv[s].highest <= snd[s].sent /\ snd[s].sent <= snd[s].offset
          /\ snd[s].offset <= rcv[s].offset
    BY IdsFacts DEF IInv, SenderGood, ReceiverGood
  <2> QED BY <2>1, CountersType, IdsFacts DEF FlowControlViolation
<1>2. ~FlowControlViolation(rcv[Conn])
  <2>1. SumFunctionOnSet(Arrived, Streams) <= SumFunctionOnSet(Sent, Streams)
    BY CountersType, IdsFacts, SumMonotone, StreamsAssumption
  <2>2. /\ SumFunctionOnSet(Arrived, Streams) \in Int
    BY CountersType, SumInt, StreamsAssumption
  <2>3. /\ snd[Conn].sent <= snd[Conn].offset /\ snd[Conn].offset <= rcv[Conn].offset
    BY Zenon, IdsFacts DEF IInv, SenderGood
  <2> QED BY <2>1, <2>2, <2>3, CountersType, IdsFacts DEF AInv, FlowControlViolation
<1> QED BY <1>1, <1>2 DEF NoFlowControlViolation, AInv, Ids

-----------------------------------------------------------------------------
\* The receiver.

\* What a read of n bytes does to the counters (QuicStream::AddBytesConsumed).
LEMMA ConsumeRegionCounts ==
  ASSUME NEW r \in [Ids -> ReceiveSide], \A i \in Ids : Fits(r[i], Limit(i)),
         NEW s \in Streams, NEW n \in Nat, NEW gs \in BOOLEAN, NEW gc \in BOOLEAN
  PROVE  LET q == ConsumeRegion(r, s, n, gs, gc)
         IN /\ \A t \in Streams : t # s => q[t] = r[t]
            /\ q[s].highest = r[s].highest
            /\ q[s].consumed = r[s].consumed + n
            /\ q[Conn].highest = r[Conn].highest
            /\ q[Conn].consumed = r[Conn].consumed + n
<1> DEFINE stream == AddBytesConsumed(r[s], n, gs, StreamLimit)
           window == (3 * stream.size) \div 2
           conn == IF stream.size > r[s].size
                   THEN EnsureWindowAtLeast(r[Conn], window, SessionLimit)
                   ELSE r[Conn]
           both == AddBytesConsumed(conn, n, gc, SessionLimit)
           q == [r EXCEPT ![s] = stream, ![Conn] = both]
<1>1. /\ Fits(r[s], StreamLimit) /\ Fits(r[Conn], SessionLimit)
      /\ StreamLimit \in Nat /\ SessionLimit \in Nat
  BY IdsFacts, WindowAssumption DEF Limit
<1>2. /\ Fits(stream, StreamLimit) /\ stream.consumed = r[s].consumed + n
      /\ stream.highest = r[s].highest
  <2>1. Fits(r[s], StreamLimit) /\ StreamLimit \in Nat
    BY <1>1
  <2> HIDE DEF stream
  <2> QED BY <2>1, ConsumeFits DEF stream
<1>3. window \in Nat
  <2>1. stream.size \in Nat
    BY <1>2 DEF Fits, ReceiveSide
  <2> HIDE DEF stream
  <2> QED BY <2>1
<1>4. Fits(conn, SessionLimit) /\ conn.consumed = r[Conn].consumed
        /\ conn.highest = r[Conn].highest
  <2> HIDE DEF stream, window
  <2>1. CASE stream.size > r[s].size
    BY Zenon, <1>1, <1>3, <2>1, EnsureFits
  <2>2. CASE ~(stream.size > r[s].size)
    BY Zenon, <1>1, <2>2
  <2> QED BY Zenon, <2>1, <2>2
<1>5. both.highest = r[Conn].highest /\ both.consumed = r[Conn].consumed + n
  <2> HIDE DEF conn, stream, window
  <2>1. both.highest = conn.highest /\ both.consumed = conn.consumed + n
    <3>1. Fits(conn, SessionLimit) /\ SessionLimit \in Nat
      BY Zenon, <1>1, <1>4
    <3> HIDE DEF both
    <3> QED BY <3>1, ConsumeFits DEF both
  <2> HIDE DEF both
  <2> QED BY Zenon, <1>4, <2>1
<1> HIDE DEF stream, both
<1>6. q[s] = stream /\ q[Conn] = both
        /\ \A t \in Streams : t # s => q[t] = r[t]
  BY Zenon, IdsFacts
<1>7. CASE n = 0
  <2>1. ConsumeRegion(r, s, n, gs, gc) = r
    BY <1>7 DEF ConsumeRegion
  <2> QED BY <1>7, <2>1, IdsFacts DEF ReceiveSide
<1>8. CASE n # 0
  <2>1. ConsumeRegion(r, s, n, gs, gc) = q
    BY <1>8 DEF ConsumeRegion, stream, both
  <2> QED BY Zenon, <1>2, <1>5, <1>6, <2>1
<1> QED BY Zenon, <1>7, <1>8

\* What a higher offset does (QuicStream::MaybeIncreaseHighestReceivedOffset).
LEMMA HighestCounts ==
  ASSUME NEW r \in [Ids -> ReceiveSide], NEW s \in Streams, NEW offset \in Nat
  PROVE  LET q == MaybeIncreaseHighest(r, s, offset)
         IN /\ \A t \in Streams : t # s => q[t] = r[t]
            /\ q[s].highest = IF offset <= r[s].highest THEN r[s].highest ELSE offset
            /\ q[s].consumed = r[s].consumed
            /\ q[Conn].highest = r[Conn].highest + (q[s].highest - r[s].highest)
            /\ q[Conn].consumed = r[Conn].consumed
            /\ q[s].offset = r[s].offset /\ q[Conn].offset = r[Conn].offset
<1>1. r[s] \in ReceiveSide /\ r[Conn] \in ReceiveSide /\ s # Conn
  BY IdsFacts
<1>2. CASE offset <= r[s].highest
  <2>1. MaybeIncreaseHighest(r, s, offset) = r
    BY <1>2 DEF MaybeIncreaseHighest
  <2> QED BY <1>1, <1>2, <2>1 DEF ReceiveSide
<1>3. CASE ~(offset <= r[s].highest)
  <2> DEFINE more == r[Conn].highest + (offset - r[s].highest)
             stream == UpdateHighestReceivedOffset(r[s], offset)
             conn == UpdateHighestReceivedOffset(r[Conn], more)
             q == [r EXCEPT ![s] = stream, ![Conn] = conn]
  <2>1. MaybeIncreaseHighest(r, s, offset) = q
    BY <1>3 DEF MaybeIncreaseHighest
  <2>2. /\ stream.highest = offset /\ stream.consumed = r[s].consumed
        /\ stream.offset = r[s].offset
    BY <1>1, <1>3 DEF UpdateHighestReceivedOffset, ReceiveSide
  <2>3. /\ conn.highest = more /\ conn.consumed = r[Conn].consumed
        /\ conn.offset = r[Conn].offset
    BY <1>1, <1>3 DEF UpdateHighestReceivedOffset, ReceiveSide
  <2> HIDE DEF stream, conn
  <2>4. q[s] = stream /\ q[Conn] = conn
          /\ \A t \in Streams : t # s => q[t] = r[t]
    BY Zenon, IdsFacts
  <2> QED BY Zenon, <1>3, <2>1, <2>2, <2>3, <2>4
<1> QED BY Zenon, <1>2, <1>3

\* A handler has brought the windows of the receiver to r and stream s to i.
Pending(r, s, i) ==
    /\ in[s].open /\ i \in InStreams /\ i.open
    /\ ReceiverGood(r, [in EXCEPT ![s] = i], locallyClosed)
    /\ \A t \in Streams : t # s => r[t] = rcv[t]
    /\ r[Conn].highest - rcv[Conn].highest = r[s].highest - rcv[s].highest
    /\ r[Conn].consumed - rcv[Conn].consumed = r[s].consumed - rcv[s].consumed
    /\ EndGood(s, r[s], i)

\* A handler leaves the accounts of the connection in order with those of s,
\* the only stream that it changes.
Balanced(s) ==
    /\ \A t \in Streams : t # s => /\ rcv'[t] = rcv[t] /\ in'[t] = in[t]
                                   /\ locallyClosed'[t] = locallyClosed[t]
    /\ rcv'[Conn].highest - rcv[Conn].highest <= ArrivedBytes(s)' - ArrivedBytes(s)
    /\ ~FinAlone => rcv'[Conn].consumed - rcv[Conn].consumed =
                        AccountedBytes(s)' - AccountedBytes(s)
    /\ StreamAccount(s)'

\* A handler that passes nothing up.
LEMMA PendingBalanced ==
  ASSUME IInv, AInv, NEW r, NEW s \in Streams, NEW i, Pending(r, s, i),
         rcv' = r, in' = [in EXCEPT ![s] = i], UNCHANGED <<locallyClosed, sender>>
  PROVE  Balanced(s)
<1>1. snd' = snd /\ out' = out /\ locallyClosed' = locallyClosed
  BY DEF sender
<1>2. /\ in'[s] = i /\ \A t \in Streams : t # s => in'[t] = in[t]
  BY DEF IInv, ReceiverGood
<1>3. /\ ArrivedBytes(s) = rcv[s].highest /\ ArrivedBytes(s)' = r[s].highest
      /\ AccountedBytes(s) = rcv[s].consumed /\ AccountedBytes(s)' = r[s].consumed
  BY <1>2 DEF ArrivedBytes, AccountedBytes, Pending
<1>4. StreamAccount(s)'
  BY <1>1, <1>2 DEF Pending, StreamAccount, EndGood, AInv
<1>5. r[s].highest \in Nat /\ rcv[s].highest \in Nat
  BY IdsFacts DEF Pending, ReceiverGood, ReceiveSide, IInv
<1>6. rcv'[Conn].highest - rcv[Conn].highest <= ArrivedBytes(s)' - ArrivedBytes(s)
  BY <1>3, <1>5 DEF Pending
<1> QED BY <1>1, <1>2, <1>3, <1>4, <1>6 DEF Balanced, Pending

\* Reading n more bytes of those that have arrived.
LEMMA ConsumePending ==
  ASSUME IInv, NEW r, NEW s \in Streams, NEW i, Pending(r, s, i),
         NEW n \in Nat, r[s].consumed + n <= r[s].highest,
         NEW gs \in BOOLEAN, NEW gc \in BOOLEAN
  PROVE  LET q == ConsumeRegion(r, s, n, gs, gc)
         IN /\ Pending(q, s, i)
            /\ q[s].consumed = r[s].consumed + n
            /\ q[s].highest = r[s].highest
<1> DEFINE q == ConsumeRegion(r, s, n, gs, gc)
           j == [in EXCEPT ![s] = i]
<1>1. ReceiverGood(r, j, locallyClosed) /\ r \in [Ids -> ReceiveSide]
        /\ \A k \in Ids : Fits(r[k], Limit(k))
  BY Zenon DEF Pending, ReceiverGood
<1>2. ReceiverGood(q, j, locallyClosed)
  <2> HIDE DEF j
  <2> QED BY Zenon, <1>1, ConsumeRegionGood
<1>3. /\ \A t \in Streams : t # s => q[t] = r[t]
      /\ q[s].highest = r[s].highest
      /\ q[s].consumed = r[s].consumed + n
      /\ q[Conn].highest = r[Conn].highest
      /\ q[Conn].consumed = r[Conn].consumed + n
  BY <1>1, ConsumeRegionCounts
<1> HIDE DEF q
<1>4. /\ r[Conn].consumed \in Nat /\ rcv[Conn].consumed \in Nat
      /\ r[s].consumed \in Nat /\ rcv[s].consumed \in Nat
  BY <1>1, CountersType, IdsFacts DEF ReceiveSide
<1>5. q[Conn].consumed - rcv[Conn].consumed = q[s].consumed - rcv[s].consumed
  BY <1>3, <1>4 DEF Pending
<1>6. q[Conn].highest - rcv[Conn].highest = q[s].highest - rcv[s].highest
  BY Zenon, <1>3 DEF Pending
<1>7. EndGood(s, q[s], i)
  BY Zenon, <1>3 DEF Pending, EndGood
<1>8. Pending(q, s, i)
  BY Zenon, <1>2, <1>3, <1>5, <1>6, <1>7 DEF Pending
<1> QED BY Zenon, <1>3, <1>8 DEF q

\* Closing a stream (QuicStream::OnClose and QuicSession::CloseStreamInner):
\* the connection counts as consumed all that arrived on it.
LEMMA CloseBalanced ==
  ASSUME IInv, AInv, NEW r, NEW s \in Streams, NEW i, Pending(r, s, i),
         NEW grow \in BOOLEAN, CloseReceiving(r, s, i, grow), UNCHANGED sender
  PROVE  Balanced(s)
<1> DEFINE unread == r[s].highest - r[s].consumed
           k == [i EXCEPT !.open = FALSE]
           conn == AddBytesConsumed(r[Conn], unread, grow, SessionLimit)
<1>1. snd' = snd /\ out' = out
  BY DEF sender
<1>2. /\ r \in [Ids -> ReceiveSide] /\ Fits(r[Conn], SessionLimit)
      /\ SessionLimit \in Nat /\ i \in InStreams
      /\ r[s].highest \in Nat /\ r[s].consumed \in Nat /\ unread \in Nat
      /\ r[Conn].highest \in Nat /\ r[Conn].consumed \in Nat
      /\ r[s].highest <= snd[s].sent
  BY IdsFacts, WindowAssumption DEF Pending, ReceiverGood, Limit, ReceiveSide
<1>3. rcv' = [r EXCEPT ![Conn] = conn] /\ in' = [in EXCEPT ![s] = k]
  BY Zenon, <1>2 DEF CloseReceiving
<1>4. /\ locallyClosed' = IF i.finReceived \/ i.rstReceived THEN locallyClosed
                          ELSE [locallyClosed EXCEPT ![s] = r[s].highest]
      /\ in \in [Streams -> InStreams]
      /\ locallyClosed \in [Streams -> Nat \cup {NoOffset}]
      /\ locallyClosed[s] = NoOffset
  BY Zenon DEF CloseReceiving, IInv, ReceiverGood, AInv, StreamAccount, Pending
<1>5. conn.highest = r[Conn].highest /\ conn.consumed = r[Conn].consumed + unread
  <2> HIDE DEF unread
  <2>1. unread \in Nat /\ Fits(r[Conn], SessionLimit) /\ SessionLimit \in Nat
    BY <1>2
  <2> QED BY <2>1, ConsumeFits
<1>6. /\ k.open = FALSE /\ k.finReceived = i.finReceived
      /\ k.rstReceived = i.rstReceived /\ k.close = i.close
  BY Zenon, <1>2 DEF InStreams
<1> HIDE DEF k, conn
<1>7. /\ rcv'[Conn] = conn /\ in'[s] = k
      /\ \A t \in Streams : rcv'[t] = r[t]
      /\ \A t \in Streams : t # s => /\ in'[t] = in[t]
                                     /\ locallyClosed'[t] = locallyClosed[t]
  BY Zenon, <1>2, <1>3, <1>4, IdsFacts
<1>8. /\ ArrivedBytes(s) = rcv[s].highest /\ AccountedBytes(s) = rcv[s].consumed
      /\ r[Conn].highest - rcv[Conn].highest = r[s].highest - rcv[s].highest
      /\ r[Conn].consumed - rcv[Conn].consumed = r[s].consumed - rcv[s].consumed
      /\ rcv[s].highest \in Nat /\ rcv[s].consumed \in Nat
      /\ rcv[Conn].highest \in Nat /\ rcv[Conn].consumed \in Nat
      /\ snd[s].sent \in Nat
  BY CountersType, IdsFacts DEF ArrivedBytes, AccountedBytes, Pending
<1>9. CASE i.finReceived \/ i.rstReceived
  <2>1. locallyClosed'[s] = NoOffset
    BY <1>4, <1>9
  <2>2. ArrivedBytes(s)' = snd[s].sent /\ AccountedBytes(s)' = snd[s].sent
    BY Zenon, <1>1, <1>6, <1>7, <2>1 DEF ArrivedBytes, AccountedBytes
  <2>3. ~FinAlone => r[s].highest = snd[s].sent
    BY Zenon, <1>9 DEF Pending, EndGood
  <2>4. StreamAccount(s)'
    BY Zenon, <1>1, <1>6, <1>7, <1>9, <2>1 DEF StreamAccount, Pending, EndGood
  <2>5. rcv'[Conn].highest - rcv[Conn].highest <= ArrivedBytes(s)' - ArrivedBytes(s)
    BY SMTT(30), <1>2, <1>5, <1>7, <1>8, <2>2
  <2>6. ~FinAlone => rcv'[Conn].consumed - rcv[Conn].consumed =
                        AccountedBytes(s)' - AccountedBytes(s)
    BY <1>2, <1>5, <1>7, <1>8, <2>2, <2>3
  <2> QED BY Zenon, <1>7, <2>4, <2>5, <2>6 DEF Balanced, Pending
<1>10. CASE ~(i.finReceived \/ i.rstReceived)
  <2>1. locallyClosed'[s] = r[s].highest
    BY <1>4, <1>10
  <2>2. r[s].highest # NoOffset
    BY <1>2, NoOffsetAssumption
  <2>3. ArrivedBytes(s)' = r[s].highest /\ AccountedBytes(s)' = r[s].highest
    BY Zenon, <1>6, <1>7, <2>1, <2>2 DEF ArrivedBytes, AccountedBytes
  <2>4. StreamAccount(s)'
    BY Zenon, <1>1, <1>6, <1>7, <1>10, <2>1, <2>2 DEF StreamAccount, Pending, EndGood
  <2>5. rcv'[Conn].highest - rcv[Conn].highest <= ArrivedBytes(s)' - ArrivedBytes(s)
    BY SMTT(30), <1>2, <1>5, <1>7, <1>8, <2>3
  <2>6. rcv'[Conn].consumed - rcv[Conn].consumed =
                        AccountedBytes(s)' - AccountedBytes(s)
    BY <1>2, <1>5, <1>7, <1>8, <2>3
  <2> QED BY Zenon, <1>7, <2>4, <2>5, <2>6 DEF Balanced, Pending
<1> QED BY Zenon, <1>9, <1>10

\* Reading all that is readable (OnDataAvailable).
LEMMA OnDataAvailableBalanced ==
  ASSUME IInv, AInv, NEW r, NEW s \in Streams, NEW i, Pending(r, s, i),
         NEW gs \in BOOLEAN, NEW gc \in BOOLEAN,
         OnDataAvailable(r, s, i, gs, gc), UNCHANGED sender
  PROVE  Balanced(s)
<1>1. PICK n, cut, some, all :
        /\ n \in 0..Length /\ cut \in 0..n
        /\ Readable(i.got, r[s].consumed, n)
        /\ some = ConsumeRegion(r, s, cut, gs, gc)
        /\ all = ConsumeRegion(some, s, n - cut, gs, gc)
        /\ IF i.close # NoOffset /\ all[s].consumed >= i.close
           THEN CloseReceiving(all, s, [i EXCEPT !.finReceived = TRUE], FALSE)
           ELSE /\ rcv' = all
                /\ in' = [in EXCEPT ![s] = i]
                /\ UNCHANGED locallyClosed
  BY Zenon DEF OnDataAvailable
<1>2. n \in Nat /\ cut \in Nat /\ n - cut \in Nat /\ cut <= n
  BY <1>1, WindowAssumption
<1>3. /\ r[s].consumed \in Nat /\ r[s].highest \in Nat
      /\ r[s].consumed <= r[s].highest /\ \A b \in i.got : b < r[s].highest
  <2>1. in \in [Streams -> InStreams]
    BY DEF IInv, ReceiverGood
  <2> QED BY <2>1, IdsFacts DEF Pending, ReceiverGood, ReceiveSide
<1>4. r[s].consumed + n <= r[s].highest
  <2>1. CASE n = 0
    BY <1>3, <2>1
  <2>2. CASE n > 0
    <3>1. r[s].consumed + n - 1 \in r[s].consumed..(r[s].consumed + n - 1)
      BY <1>2, <1>3, <2>2
    <3>2. r[s].consumed + n - 1 \in i.got
      BY <1>1, <3>1 DEF Readable
    <3>3. r[s].consumed + n - 1 < r[s].highest
      BY <1>3, <3>2
    <3> QED BY <1>2, <1>3, <3>3
  <2> QED BY <1>2, <2>1, <2>2
<1>5. /\ Pending(some, s, i) /\ some[s].consumed = r[s].consumed + cut
      /\ some[s].highest = r[s].highest
  <2>1. r[s].consumed + cut <= r[s].highest
    BY <1>2, <1>3, <1>4
  <2> QED BY <1>1, <1>2, <2>1, ConsumePending
<1>6. Pending(all, s, i)
  <2> DEFINE rest == n - cut
  <2>1. some[s].consumed + rest <= some[s].highest /\ rest \in Nat
    BY <1>2, <1>3, <1>4, <1>5
  <2> HIDE DEF rest
  <2>2. all = ConsumeRegion(some, s, rest, gs, gc)
    BY <1>1 DEF rest
  <2> QED BY Zenon, <1>5, <2>1, <2>2, ConsumePending
<1>7. CASE i.close # NoOffset /\ all[s].consumed >= i.close
  <2> DEFINE i2 == [i EXCEPT !.finReceived = TRUE]
  <2>1. /\ i2 \in InStreams /\ i2.got = i.got /\ i2.open = i.open
        /\ i2.close = i.close /\ i2.rstReceived = i.rstReceived
        /\ i2.finReceived = TRUE
    BY Zenon DEF InStreams, Pending
  <2>2. CloseReceiving(all, s, i2, FALSE)
    BY Zenon, <1>1, <1>7
  <2>3. ReceiverGood(all, [in EXCEPT ![s] = i2], locallyClosed)
    BY <1>6, <2>1 DEF Pending, ReceiverGood, IInv
  <2> HIDE DEF i2
  <2>4. all[s].highest = snd[s].sent /\ ~out[s].open
    <3>1. i.close = snd[s].sent /\ ~out[s].open
      BY <1>6, <1>7 DEF Pending, EndGood
    <3>2. /\ all[s].consumed <= all[s].highest /\ all[s].highest <= snd[s].sent
          /\ all[s].consumed \in Nat /\ all[s].highest \in Nat
      BY <2>3, IdsFacts DEF ReceiverGood, ReceiveSide
    <3>3. snd[s].sent \in Nat
      BY CountersType, IdsFacts
    <3> QED BY SMTT(30), <1>7, <3>1, <3>2, <3>3
  <2>5. EndGood(s, all[s], i2)
    BY Zenon, <1>6, <2>1, <2>4 DEF Pending, EndGood
  <2>6. Pending(all, s, i2)
    BY Zenon, <1>6, <2>1, <2>3, <2>5 DEF Pending
  <2> QED BY Zenon, <2>2, <2>6, CloseBalanced
<1>8. CASE ~(i.close # NoOffset /\ all[s].consumed >= i.close)
  BY Zenon, <1>1, <1>6, <1>8, PendingBalanced
<1> QED BY Zenon, <1>7, <1>8

\* The final offset of a stream that was closed before it was known
\* (QuicSession::OnFinalByteOffsetReceived).
LEMMA FinalBalanced ==
  ASSUME IInv, AInv, NEW s \in Streams, ~in[s].open, ~out[s].open,
         NEW grow \in BOOLEAN,
         OnFinalByteOffsetReceived(s, snd[s].sent, grow), UNCHANGED sender
  PROVE  Balanced(s) /\ ~error'
<1> DEFINE diff == snd[s].sent - locallyClosed[s]
           more == rcv[Conn].highest + diff
           conn == UpdateHighestReceivedOffset(rcv[Conn], more)
           new == AddBytesConsumed(conn, diff, grow, SessionLimit)
<1>1. snd' = snd /\ out' = out
  BY SMTT(30) DEF sender
<1>2. /\ locallyClosed[s] \in Nat /\ locallyClosed[s] # NoOffset
      /\ locallyClosed \in [Streams -> Nat \cup {NoOffset}]
      /\ locallyClosed[s] <= snd[s].sent
      /\ snd[s].sent \in Nat /\ diff \in Nat /\ more \in Nat
      /\ rcv[Conn].highest \in Nat /\ rcv[Conn].consumed \in Nat
      /\ rcv[Conn].offset \in Nat
  BY CountersType, IdsFacts DEF OnFinalByteOffsetReceived, IInv, ReceiverGood
<1>3. ArrivedBytes(s) = locallyClosed[s] /\ AccountedBytes(s) = locallyClosed[s]
  BY <1>2 DEF ArrivedBytes, AccountedBytes
<1>4. rcv \in [Ids -> ReceiveSide] /\ Fits(rcv[Conn], SessionLimit)
        /\ rcv[Conn] \in ReceiveSide /\ SessionLimit \in Nat
  BY IdsFacts, WindowAssumption DEF IInv, ReceiverGood, Limit
<1>5. /\ conn.highest = more /\ conn.consumed = rcv[Conn].consumed
      /\ conn.offset = rcv[Conn].offset
  BY <1>2, <1>4 DEF UpdateHighestReceivedOffset, ReceiveSide
<1>6. Fits(conn, SessionLimit)
  <2> HIDE DEF more
  <2> QED BY Zenon, <1>2, <1>4, HighestFits
<1>7. more <= rcv[Conn].offset
  BY SMTT(30), <1>2, <1>3, ConnWithin
<1>8. ~FlowControlViolation(conn)
  BY <1>2, <1>5, <1>7 DEF FlowControlViolation
<1>9. /\ rcv' = [rcv EXCEPT ![Conn] = new]
      /\ locallyClosed' = [locallyClosed EXCEPT ![s] = NoOffset]
      /\ in' = in /\ error' = error
  BY <1>8 DEF OnFinalByteOffsetReceived
<1> HIDE DEF conn
<1>10. new.highest = conn.highest /\ new.consumed = conn.consumed + diff
  <2>1. diff \in Nat /\ SessionLimit \in Nat
    BY <1>2, <1>4
  <2> HIDE DEF diff
  <2> QED BY <1>6, <2>1, ConsumeFits
<1> HIDE DEF new
<1>11. /\ rcv'[Conn] = new /\ \A t \in Streams : rcv'[t] = rcv[t]
       /\ locallyClosed'[s] = NoOffset
       /\ \A t \in Streams : t # s => locallyClosed'[t] = locallyClosed[t]
  BY Zenon, <1>2, <1>4, <1>9, IdsFacts
<1>12. ArrivedBytes(s)' = snd[s].sent /\ AccountedBytes(s)' = snd[s].sent
  BY Zenon, <1>1, <1>9, <1>11 DEF ArrivedBytes, AccountedBytes
<1>13. rcv'[Conn].highest - rcv[Conn].highest <= ArrivedBytes(s)' - ArrivedBytes(s)
  BY SMTT(30), <1>2, <1>3, <1>5, <1>10, <1>11, <1>12
<1>14. rcv'[Conn].consumed - rcv[Conn].consumed = AccountedBytes(s)' - AccountedBytes(s)
  BY <1>2, <1>3, <1>5, <1>10, <1>11, <1>12
<1>15. StreamAccount(s)'
  BY Zenon, <1>1, <1>9, <1>11 DEF StreamAccount, EndGood, AInv
<1> QED BY Zenon, <1>9, <1>11, <1>13, <1>14, <1>15 DEF Balanced, AInv

\* A frame on an open stream (QuicStream::OnStreamFrame).
LEMMA StreamFrameBalanced ==
  ASSUME IInv, AInv, NEW f \in toReceiver, f.type = "STREAM", in[f.id].open,
         NEW gs \in BOOLEAN, NEW gc \in BOOLEAN,
         StreamOnStreamFrame(f, gs, gc), UNCHANGED sender
  PROVE  Balanced(f.id) /\ ~error'
<1> DEFINE s == f.id
           end == f.offset + f.len
           i == [in[s] EXCEPT !.got = @ \cup (f.offset..(end - 1)),
                              !.finReceived = @ \/ f.fin,
                              !.close = IF f.fin THEN end ELSE @]
           passUp == \/ f.fin /\ rcv[s].consumed >= end
                     \/ i.got # in[s].got /\ f.offset = rcv[s].consumed
           r == IF f.len = 0 THEN rcv ELSE MaybeIncreaseHighest(rcv, s, end)
           violated == r # rcv /\ \E c \in {s, Conn} : FlowControlViolation(r[c])
<1>1. /\ s \in Streams /\ f.offset \in Nat /\ f.len \in Nat /\ f.fin \in BOOLEAN
      /\ end \in Nat /\ end <= snd[s].sent
      /\ f.fin => end = snd[s].sent /\ ~out[s].open
  BY DEF IInv, Frames, FrameGood
<1>2. ReceiverGood(rcv, in, locallyClosed) /\ rcv \in [Ids -> ReceiveSide]
        /\ in \in [Streams -> InStreams]
  BY DEF IInv, ReceiverGood
<1>3. /\ i \in InStreams
      /\ i.got = in[s].got \cup (f.offset..(end - 1))
      /\ i.open = in[s].open /\ i.rstReceived = in[s].rstReceived
      /\ i.finReceived <=> (in[s].finReceived \/ f.fin)
      /\ i.close = IF f.fin THEN end ELSE in[s].close
  <2> DEFINE g == in[s].got \cup (f.offset..(end - 1))
             fin == in[s].finReceived \/ f.fin
             cl == IF f.fin THEN end ELSE in[s].close
  <2>1. in[s] \in InStreams
    BY <1>1, <1>2 DEF ReceiverGood
  <2>2. g \in SUBSET Nat
    BY <1>1, <2>1 DEF InStreams
  <2>3. fin \in BOOLEAN
    BY Zenon
  <2>4. cl \in Nat \cup {NoOffset}
    BY <1>1, <2>1 DEF InStreams
  <2>5. i = [in[s] EXCEPT !.got = g, !.finReceived = fin, !.close = cl]
    OBVIOUS
  <2> HIDE DEF g, fin, cl, i, s
  <2>6. /\ i \in InStreams /\ i.got = g /\ i.open = in[s].open
        /\ i.rstReceived = in[s].rstReceived /\ i.finReceived = fin /\ i.close = cl
    BY ZenonT(40), <2>1, <2>2, <2>3, <2>4, <2>5 DEF InStreams
  <2> QED BY Zenon, <2>6 DEF g, fin, cl
<1>4. /\ ReceiverGood(r, in, locallyClosed)
      /\ (f.len # 0 => end <= r[s].highest)
      /\ \A t \in Streams : t # s => r[t] = rcv[t]
      /\ r[s].highest = rcv[s].highest \/ r[s].highest = end
      /\ rcv[s].highest <= r[s].highest /\ r[s].highest <= snd[s].sent
      /\ r[s].consumed = rcv[s].consumed /\ r[Conn].consumed = rcv[Conn].consumed
      /\ r[Conn].highest = rcv[Conn].highest + (r[s].highest - rcv[s].highest)
      /\ r[s].offset = rcv[s].offset /\ r[Conn].offset = rcv[Conn].offset
  <2>1. CASE f.len = 0
    <3>1. r = rcv /\ rcv[s].highest <= snd[s].sent
      BY <1>1, <2>1 DEF IInv, ReceiverGood
    <3> QED BY SMTT(30), <1>1, <1>2, <2>1, <3>1, CountersType, IdsFacts
  <2>2. CASE f.len # 0
    <3>1. r = MaybeIncreaseHighest(rcv, s, end)
      BY <2>2
    <3> HIDE DEF r, s, end
    <3>2. ReceiverGood(r, in, locallyClosed) /\ end <= r[s].highest
      BY SMTT(30), <1>1, <1>2, <3>1, HighestGood
    <3>3. /\ \A t \in Streams : t # s => r[t] = rcv[t]
          /\ r[s].highest = IF end <= rcv[s].highest THEN rcv[s].highest ELSE end
          /\ r[s].consumed = rcv[s].consumed
          /\ r[Conn].highest = rcv[Conn].highest + (r[s].highest - rcv[s].highest)
          /\ r[Conn].consumed = rcv[Conn].consumed
          /\ r[s].offset = rcv[s].offset /\ r[Conn].offset = rcv[Conn].offset
      BY SMTT(30), <1>1, <1>2, <3>1, HighestCounts
    <3>4. rcv[s].highest \in Nat /\ r[s].highest <= snd[s].sent
      BY SMTT(30), <1>1, <3>2, CountersType, IdsFacts DEF ReceiverGood
    <3>5. rcv[s].highest <= r[s].highest
            /\ (r[s].highest = rcv[s].highest \/ r[s].highest = end)
      BY <1>1, <3>3, <3>4
    <3> QED BY Zenon, <3>2, <3>3, <3>4, <3>5
  <2> QED BY Zenon, <2>1, <2>2
<1>5. \/ violated
      \/ OnDataAvailable(r, s, i, gs, gc) /\ UNCHANGED error
      \/ rcv' = r /\ in' = [in EXCEPT ![s] = i] /\ UNCHANGED <<locallyClosed, error>>
  BY Zenon DEF StreamOnStreamFrame
<1> HIDE DEF r, passUp
<1>6. /\ rcv[s].highest \in Nat /\ r[s].highest \in Nat /\ snd[s].sent \in Nat
      /\ rcv[Conn].highest \in Nat /\ rcv[s].consumed \in Nat
      /\ rcv[Conn].consumed \in Nat /\ r[Conn].highest \in Nat
      /\ rcv[Conn].offset \in Nat /\ rcv[s].offset \in Nat
  BY <1>1, <1>4, CountersType, IdsFacts DEF ReceiverGood, ReceiveSide
<1>7. ~violated
  <2>1. ~FlowControlViolation(r[s])
    <3>1. snd[s].sent <= snd[s].offset /\ snd[s].offset <= rcv[s].offset
            /\ snd[s].offset \in Nat
      BY SMTT(30), <1>1, CountersType, IdsFacts DEF IInv, SenderGood
    <3> QED BY SMTT(30), <1>4, <1>6, <3>1 DEF FlowControlViolation
  <2>2. ~FlowControlViolation(r[Conn])
    <3>1. ArrivedBytes(s) = rcv[s].highest
      BY DEF ArrivedBytes
    <3> HIDE DEF s
    <3>2. rcv[Conn].highest + (r[s].highest - ArrivedBytes(s)) <= rcv[Conn].offset
      BY SMTT(30), <1>1, <1>4, <1>6, ConnWithin
    <3> QED BY <1>4, <1>6, <3>1, <3>2 DEF FlowControlViolation
  <2> QED BY ZenonT(30), <2>1, <2>2
<1> HIDE DEF violated
<1>8. ReceiverGood(r, [in EXCEPT ![s] = i], locallyClosed)
  <2>1. \A b \in i.got : b < r[s].highest
    <3> SUFFICES ASSUME NEW b \in i.got PROVE b < r[s].highest
      OBVIOUS
    <3>1. CASE b \in in[s].got
      BY <1>1, <1>4, <3>1 DEF ReceiverGood
    <3>2. CASE b \in f.offset..(end - 1)
      BY <1>1, <1>4, <1>6, <3>2
    <3> QED BY <1>3, <3>1, <3>2
  <2> HIDE DEF i, s
  <2> QED BY <1>1, <1>3, <1>4, <2>1 DEF ReceiverGood
<1>9. EndGood(s, r[s], i)
  <2>1. EndGood(s, rcv[s], in[s])
    BY <1>1 DEF AInv, StreamAccount
  <2> HIDE DEF i, s
  <2>2. i.finReceived \/ i.rstReceived \/ i.close # NoOffset => ~out[s].open
    BY Zenon, <1>1, <1>3, <2>1 DEF EndGood
  <2>3. i.close # NoOffset => i.close = snd[s].sent
    BY Zenon, <1>1, <1>3, <2>1 DEF EndGood
  <2>4. rcv[s].highest = snd[s].sent => r[s].highest = snd[s].sent
    BY <1>4, <1>6
  <2>5. i.rstReceived => r[s].highest = snd[s].sent
    BY Zenon, <1>3, <2>1, <2>4 DEF EndGood
  <2>6. ~FinAlone /\ f.fin => r[s].highest = snd[s].sent
    <3> SUFFICES ASSUME ~FinAlone, f.fin PROVE r[s].highest = snd[s].sent
      OBVIOUS
    <3>1. f.len # 0
      BY DEF AInv
    <3> QED BY <1>1, <1>4, <1>6, <3>1
  <2>7. ~FinAlone /\ i.finReceived => r[s].highest = snd[s].sent
    BY Zenon, <1>3, <2>1, <2>4, <2>6 DEF EndGood
  <2> QED BY Zenon, <2>2, <2>3, <2>5, <2>7 DEF EndGood
<1>10. Pending(r, s, i)
  <2>1. /\ r[Conn].highest - rcv[Conn].highest = r[s].highest - rcv[s].highest
        /\ r[Conn].consumed - rcv[Conn].consumed = r[s].consumed - rcv[s].consumed
    BY <1>4, <1>6
  <2>2. in[s].open
    OBVIOUS
  <2> HIDE DEF i, s
  <2> QED BY ZenonT(30), <1>3, <1>4, <1>8, <1>9, <2>1, <2>2 DEF Pending
<1>11. ~error
  BY DEF AInv
<1> HIDE DEF i
<1>12. CASE OnDataAvailable(r, s, i, gs, gc) /\ UNCHANGED error
  BY Zenon, <1>1, <1>10, <1>11, <1>12, OnDataAvailableBalanced
<1>13. CASE rcv' = r /\ in' = [in EXCEPT ![s] = i] /\ UNCHANGED <<locallyClosed, error>>
  BY Zenon, <1>1, <1>10, <1>11, <1>13, PendingBalanced DEF sender
<1> QED BY Zenon, <1>5, <1>7, <1>12, <1>13

\* A balanced step of the receiver keeps the accounts in order.
LEMMA BalancedKeeps ==
  ASSUME IInv, IInv', AInv, NEW s \in Streams, Balanced(s), ~error',
         UNCHANGED <<sender, toReceiver>>
  PROVE  AInv'
<1>1. snd' = snd /\ out' = out /\ toReceiver' = toReceiver
  BY DEF sender
<1>2. \A t \in Streams : t # s => /\ ArrivedBytes(t)' = ArrivedBytes(t)
                                  /\ AccountedBytes(t)' = AccountedBytes(t)
                                  /\ StreamAccount(t)'
  <2> SUFFICES ASSUME NEW t \in Streams, t # s
               PROVE  /\ ArrivedBytes(t)' = ArrivedBytes(t)
                      /\ AccountedBytes(t)' = AccountedBytes(t)
                      /\ StreamAccount(t)'
    BY Zenon
  <2>1. /\ rcv'[t] = rcv[t] /\ in'[t] = in[t]
        /\ locallyClosed'[t] = locallyClosed[t]
    BY Zenon DEF Balanced
  <2>2. /\ ArrivedBytes(t)' = ArrivedBytes(t)
        /\ AccountedBytes(t)' = AccountedBytes(t)
    BY Zenon, <1>1, <2>1 DEF ArrivedBytes, AccountedBytes
  <2>3. StreamAccount(t)
    BY Zenon DEF AInv
  <2>4. StreamAccount(t)'
    BY Zenon, <1>1, <2>1, <2>3 DEF StreamAccount, EndGood
  <2> QED BY Zenon, <2>2, <2>4
<1>3. /\ \A t \in Streams : /\ Arrived[t] \in Nat /\ Arrived'[t] \in Nat
                            /\ Arrived[t] = ArrivedBytes(t)
                            /\ Arrived'[t] = ArrivedBytes(t)'
                            /\ Accounted[t] \in Nat /\ Accounted'[t] \in Nat
                            /\ Accounted[t] = AccountedBytes(t)
                            /\ Accounted'[t] = AccountedBytes(t)'
      /\ rcv[Conn].highest \in Nat /\ rcv'[Conn].highest \in Nat
      /\ rcv[Conn].consumed \in Nat /\ rcv'[Conn].consumed \in Nat
  <2>1. /\ \A t \in Streams : /\ Arrived[t] \in Nat /\ Arrived[t] = ArrivedBytes(t)
                              /\ Accounted[t] \in Nat
                              /\ Accounted[t] = AccountedBytes(t)
        /\ rcv[Conn].highest \in Nat /\ rcv[Conn].consumed \in Nat
    BY CountersType, IdsFacts
  <2>2. /\ \A t \in Streams : /\ Arrived'[t] \in Nat /\ Arrived'[t] = ArrivedBytes(t)'
                              /\ Accounted'[t] \in Nat
                              /\ Accounted'[t] = AccountedBytes(t)'
        /\ rcv'[Conn].highest \in Nat /\ rcv'[Conn].consumed \in Nat
    BY CountsTypedNext DEF CountsTyped
  <2> QED BY Zenon, <2>1, <2>2
<1>4. SumFunctionOnSet(Arrived', Streams) =
        SumFunctionOnSet(Arrived, Streams) + Arrived'[s] - Arrived[s]
  BY <1>2, <1>3, SumChange, StreamsAssumption
<1>5. SumFunctionOnSet(Accounted', Streams) =
        SumFunctionOnSet(Accounted, Streams) + Accounted'[s] - Accounted[s]
  BY SMTT(30), <1>2, <1>3, SumChange, StreamsAssumption
<1>6. /\ SumFunctionOnSet(Arrived, Streams) \in Int
      /\ SumFunctionOnSet(Accounted, Streams) \in Int
  BY <1>3, SumInt, StreamsAssumption
<1>7. rcv'[Conn].highest <= SumFunctionOnSet(Arrived', Streams)
  <2>1. rcv'[Conn].highest - rcv[Conn].highest <= Arrived'[s] - Arrived[s]
    BY <1>3 DEF Balanced
  <2>2. rcv[Conn].highest <= SumFunctionOnSet(Arrived, Streams)
    BY DEF AInv
  <2> QED BY SMTT(30), <1>3, <1>4, <1>6, <2>1, <2>2
<1>8. ~FinAlone => rcv'[Conn].consumed = SumFunctionOnSet(Accounted', Streams)
  <2> SUFFICES ASSUME ~FinAlone
               PROVE  rcv'[Conn].consumed = SumFunctionOnSet(Accounted', Streams)
    OBVIOUS
  <2>1. rcv'[Conn].consumed - rcv[Conn].consumed = Accounted'[s] - Accounted[s]
    BY <1>3 DEF Balanced
  <2>2. rcv[Conn].consumed = SumFunctionOnSet(Accounted, Streams)
    BY DEF AInv
  <2> QED BY <1>3, <1>5, <1>6, <2>1, <2>2
<1>9. Sent' = Sent
  BY <1>1 DEF Sent
<1>10. \A t \in Streams : StreamAccount(t)'
  BY Zenon, <1>2 DEF Balanced
<1> QED BY Zenon, <1>1, <1>7, <1>8, <1>9, <1>10 DEF AInv

\* Every handler of the receiver keeps the accounts in order.
LEMMA ReceiverAccounts ==
  ASSUME IInv, AInv, ReceiverStep
  PROVE  AInv'
<1>1. IInv'
  BY ReceiverSteps
<1>2. \A g \in Grow : g \in BOOLEAN
  BY Zenon DEF Grow
<1>3. \A f \in toReceiver :
        /\ f.id \in Streams /\ f.offset \in Nat /\ f.len \in Nat
        /\ f.fin => f.offset + f.len = snd[f.id].sent /\ ~out[f.id].open
        /\ f.type = "RST" => f.offset = snd[f.id].sent /\ ~out[f.id].open
  BY DEF IInv, Frames, FrameGood
<1>4. ReceiverGood(rcv, in, locallyClosed) /\ rcv \in [Ids -> ReceiveSide]
        /\ in \in [Streams -> InStreams]
  BY DEF IInv, ReceiverGood
<1>5. ~error /\ \A s \in Streams : EndGood(s, rcv[s], in[s])
  BY DEF AInv, StreamAccount
<1>6. ASSUME NEW f \in toReceiver, NEW gs \in Grow, NEW gc \in Grow,
             OnStreamFrame(f, gs, gc)
      PROVE  AInv'
  <2>1. UNCHANGED <<sender, toReceiver>> /\ UNCHANGED sender
          /\ gs \in BOOLEAN /\ gc \in BOOLEAN /\ f.type = "STREAM" /\ f.id \in Streams
    BY <1>2, <1>3, <1>6 DEF OnStreamFrame
  <2>2. CASE in[f.id].open
    <3>1. StreamOnStreamFrame(f, gs, gc)
      BY <1>6, <2>2 DEF OnStreamFrame
    <3>2. Balanced(f.id) /\ ~error'
      BY Zenon, <2>1, <2>2, <3>1, StreamFrameBalanced
    <3> QED BY <1>1, <2>1, <3>2, BalancedKeeps
  <2>3. CASE ~in[f.id].open
    <3>1. f.fin /\ OnFinalByteOffsetReceived(f.id, f.offset + f.len, gc)
      BY <1>6, <2>3 DEF OnStreamFrame
    <3>2. OnFinalByteOffsetReceived(f.id, snd[f.id].sent, gc) /\ ~out[f.id].open
      BY Zenon, <1>3, <3>1
    <3>3. Balanced(f.id) /\ ~error'
      BY Zenon, <2>1, <2>3, <3>2, FinalBalanced
    <3> QED BY <1>1, <2>1, <3>3, BalancedKeeps
  <2> QED BY Zenon, <2>2, <2>3
<1>7. ASSUME NEW f \in toReceiver, NEW gc \in Grow, OnRstStream(f, gc)
      PROVE  AInv'
  <2>1. UNCHANGED <<sender, toReceiver>> /\ UNCHANGED sender
          /\ gc \in BOOLEAN /\ f.type = "RST" /\ f.id \in Streams
          /\ f.offset \in Nat /\ f.offset = snd[f.id].sent /\ ~out[f.id].open
    BY <1>2, <1>3, <1>7 DEF OnRstStream
  <2>2. CASE in[f.id].open
    <3> DEFINE s == f.id
               r == MaybeIncreaseHighest(rcv, s, f.offset)
               i == [in[s] EXCEPT !.rstReceived = TRUE]
    <3>1. CloseReceiving(r, s, i, gc) /\ UNCHANGED error
      BY <1>7, <2>2 DEF OnRstStream
    <3>2. /\ i \in InStreams /\ i.got = in[s].got /\ i.open = in[s].open
          /\ i.rstReceived = TRUE /\ i.finReceived = in[s].finReceived
          /\ i.close = in[s].close
      BY ZenonT(40), <1>4, <2>1 DEF InStreams
    <3>3. s \in Streams /\ in[s].open
      BY SMTT(30), <2>1, <2>2
    <3>4. f.offset <= snd[s].sent /\ f.offset = snd[s].sent /\ ~out[s].open
      BY SMTT(30), <2>1, CountersType, IdsFacts
    <3> HIDE DEF i, s
    <3>5. ReceiverGood(r, in, locallyClosed) /\ f.offset <= r[s].highest
      BY SMTT(30), <1>4, <2>1, <3>3, <3>4, HighestGood
    <3>6. /\ \A t \in Streams : t # s => r[t] = rcv[t]
          /\ r[s].consumed = rcv[s].consumed
          /\ r[Conn].highest = rcv[Conn].highest + (r[s].highest - rcv[s].highest)
          /\ r[Conn].consumed = rcv[Conn].consumed
      BY <1>4, <2>1, <3>3, HighestCounts
    <3> HIDE DEF r
    <3>7. r[s].highest = snd[s].sent
      <4>1. r[s].highest <= snd[s].sent /\ r[s].highest \in Nat /\ snd[s].sent \in Nat
        BY SMTT(30), <3>3, <3>5, CountersType, IdsFacts DEF ReceiverGood, ReceiveSide
      <4> QED BY SMTT(30), <3>4, <3>5, <4>1
    <3>8. /\ r[Conn].highest - rcv[Conn].highest = r[s].highest - rcv[s].highest
          /\ r[Conn].consumed - rcv[Conn].consumed = r[s].consumed - rcv[s].consumed
      <4>1. /\ r[s].highest \in Nat /\ rcv[s].highest \in Nat
            /\ rcv[Conn].highest \in Nat /\ rcv[s].consumed \in Nat
            /\ rcv[Conn].consumed \in Nat
        BY <3>3, <3>5, CountersType, IdsFacts DEF ReceiverGood, ReceiveSide
      <4> QED BY SMTT(30), <3>6, <4>1
    <3>9. EndGood(s, r[s], i)
      BY ZenonT(30), <1>5, <3>2, <3>3, <3>4, <3>7 DEF EndGood
    <3>10. ReceiverGood(r, [in EXCEPT ![s] = i], locallyClosed)
      BY <1>4, <3>2, <3>3, <3>5 DEF ReceiverGood
    <3>11. Pending(r, s, i)
      BY Zenon, <3>2, <3>3, <3>6, <3>8, <3>9, <3>10 DEF Pending
    <3>12. Balanced(s)
      BY Zenon, <2>1, <3>1, <3>3, <3>11, CloseBalanced
    <3>13. ~error'
      BY <1>5, <3>1
    <3> QED BY <1>1, <2>1, <3>3, <3>12, <3>13, BalancedKeeps
  <2>3. CASE ~in[f.id].open
    <3>1. OnFinalByteOffsetReceived(f.id, snd[f.id].sent, gc)
      BY Zenon, <1>7, <2>1, <2>3 DEF OnRstStream
    <3>2. Balanced(f.id) /\ ~error'
      BY Zenon, <2>1, <2>3, <3>1, FinalBalanced
    <3> QED BY <1>1, <2>1, <3>2, BalancedKeeps
  <2> QED BY Zenon, <2>2, <2>3
<1>8. ASSUME NEW s \in Streams, NEW i \in InStreams, i.open, in[s].open,
             i.got = in[s].got, EndGood(s, rcv[s], i)
      PROVE  Pending(rcv, s, i)
  <2>1. /\ rcv[Conn].highest - rcv[Conn].highest = rcv[s].highest - rcv[s].highest
        /\ rcv[Conn].consumed - rcv[Conn].consumed = rcv[s].consumed - rcv[s].consumed
    BY CountersType, IdsFacts
  <2>2. ReceiverGood(rcv, [in EXCEPT ![s] = i], locallyClosed)
    BY <1>4, <1>8 DEF ReceiverGood
  <2> QED BY Zenon, <1>8, <2>1, <2>2 DEF Pending
<1>9. ASSUME NEW s \in Streams, NEW gs \in Grow, NEW gc \in Grow,
             OnHeaders(s, gs, gc)
      PROVE  AInv'
  <2> DEFINE i == [in[s] EXCEPT !.blocked = FALSE]
  <2>1. /\ OnDataAvailable(rcv, s, i, gs, gc) /\ in[s].open
        /\ UNCHANGED <<sender, toReceiver>> /\ UNCHANGED sender /\ UNCHANGED error
        /\ gs \in BOOLEAN /\ gc \in BOOLEAN
    BY <1>2, <1>9 DEF OnHeaders
  <2>2. /\ i \in InStreams /\ i.got = in[s].got /\ i.open = in[s].open
        /\ i.finReceived = in[s].finReceived /\ i.rstReceived = in[s].rstReceived
        /\ i.close = in[s].close
    BY ZenonT(40), <1>4 DEF InStreams
  <2> HIDE DEF i
  <2>3. EndGood(s, rcv[s], i)
    BY Zenon, <1>5, <2>2 DEF EndGood
  <2>4. Pending(rcv, s, i)
    BY Zenon, <1>8, <2>1, <2>2, <2>3
  <2>5. Balanced(s)
    BY Zenon, <2>1, <2>4, OnDataAvailableBalanced
  <2>6. ~error'
    BY <1>5, <2>1
  <2> QED BY <1>1, <2>1, <2>5, <2>6, BalancedKeeps
<1>10. ASSUME NEW s \in Streams, NEW grow \in Grow, ReceiverReset(s, grow)
       PROVE  AInv'
  <2>1. /\ CloseReceiving(rcv, s, in[s], grow) /\ in[s].open
        /\ UNCHANGED <<sender, toReceiver>> /\ UNCHANGED sender /\ UNCHANGED error
        /\ grow \in BOOLEAN
    BY <1>2, <1>10 DEF ReceiverReset
  <2>2. Pending(rcv, s, in[s])
    BY <1>4, <1>5, <1>8, <2>1
  <2>3. Balanced(s)
    BY Zenon, <2>1, <2>2, CloseBalanced
  <2>4. ~error'
    BY <1>5, <2>1
  <2> QED BY SMTT(30), <1>1, <2>1, <2>3, <2>4, BalancedKeeps
<1> QED BY Zenon, <1>6, <1>7, <1>9, <1>10 DEF ReceiverStep, Deliver, DeliverHeaders

-----------------------------------------------------------------------------
\* The sender.

\* The frames with a FIN carry bytes too.
FinsCarry(frames) == \A w \in frames : w.type = "STREAM" /\ w.fin => w.len > 0

\* Least(a, b) is the lesser of two numbers.
LEMMA LeastIs ==
  ASSUME NEW a \in Nat, NEW b \in Nat
  PROVE  /\ Least(a, b) \in Nat /\ Least(a, b) <= a /\ Least(a, b) <= b
         /\ a <= b => Least(a, b) = a
BY DEF Least

\* A write charges the connection what it sends, and no more than the window;
\* the FIN of a write that has bytes goes with the last of them
\* (QuicStream::WritevData).
LEMMA WritevCharges ==
  ASSUME NEW sd, SenderGood(sd), NEW s \in Streams, NEW list \in SUBSET Streams,
         NEW current \in BOOLEAN, NEW len \in Nat, NEW fin \in BOOLEAN,
         NEW apart \in BOOLEAN, NEW n \in Nat, NEW f \in BOOLEAN, NEW after,
         WritevData(s, sd, list, current, len, fin, apart, n, f, after),
         n <= len, ~error
  PROVE  /\ snd'[Conn].sent = sd[Conn].sent + n
         /\ ~error'
         /\ len > 0 /\ ~apart => /\ fin /\ n = len => f
                                 /\ FinsCarry(toReceiver) => FinsCarry(toReceiver')
<1> DEFINE finAlone == fin /\ len = 0
           window == Least(SendWindowSize(sd[s]), SendWindowSize(sd[Conn]))
           length == Least(len, window)
           finNow == fin /\ len <= window
           charged == StreamAddBytesSent(s, sd, n)
           listed == IF finNow /\ ~f THEN list \cup {s} ELSE list
<1>1. /\ sd[s] \in SendSide /\ sd[Conn] \in SendSide
      /\ SendWindowSize(sd[s]) \in Nat /\ SendWindowSize(sd[Conn]) \in Nat
      /\ sd[Conn].sent \in Nat /\ sd[s].sent \in Nat
      /\ sd[Conn].offset \in Nat /\ sd[s].offset \in Nat
      /\ sd[Conn].sent <= sd[Conn].offset /\ sd[s].sent <= sd[s].offset
  BY IdsFacts DEF SenderGood, SendSide, SendWindowSize
<1>2. CASE /\ n = 0 /\ ~f
           /\ snd' = sd
           /\ UNCHANGED <<toReceiver, error>>
  BY SMTT(30), <1>1, <1>2
<1>3. CASE /\ n = 0 /\ ~f
           /\ StreamMaybeSendBlocked(s, sd, list, after)
           /\ UNCHANGED <<toReceiver, error>>
  <2>1. snd'[Conn].sent = sd[Conn].sent
    BY <1>3, SendBlockedGood, IdsFacts
  <2> QED BY <1>1, <1>3, <2>1
<1>4. CASE /\ n <= length
           /\ f => finNow /\ n = length
           /\ finNow /\ n = length /\ length > 0 /\ ~apart => f
           /\ toReceiver' = toReceiver \cup WrittenFrames(s, sd[s].sent, n, f, apart)
           /\ error' = \E i \in {s, Conn} : SentTooMuch(sd[i], n)
           /\ IF n = length
              THEN IF finAlone THEN snd' = charged /\ after = listed
                   ELSE StreamMaybeSendBlocked(s, charged, listed, after)
              ELSE snd' = charged /\ after = list \cup {s}
  <2>1. /\ n <= SendWindowSize(sd[s]) /\ n <= SendWindowSize(sd[Conn])
        /\ window \in Nat /\ length \in Nat /\ length <= len /\ length <= window
        /\ len <= window => length = len
    <3>1. /\ window \in Nat
          /\ window <= SendWindowSize(sd[s]) /\ window <= SendWindowSize(sd[Conn])
      BY <1>1, LeastIs
    <3>2. n <= length
      BY Zenon, <1>4
    <3> HIDE DEF window
    <3>3. /\ length \in Nat /\ length <= len /\ length <= window
          /\ len <= window => length = len
      BY <3>1, LeastIs
    <3> HIDE DEF length
    <3> QED BY SMTT(30), <1>1, <3>1, <3>2, <3>3
  <2>2. SenderGood(charged) /\ charged[Conn].sent = sd[Conn].sent + n
    BY ZenonT(40), <2>1, ChargeGood
  <2>3. ~error'
    <3>1. ~SentTooMuch(sd[s], n) /\ ~SentTooMuch(sd[Conn], n)
      <4>1. n <= SendWindowSize(sd[s]) /\ n <= SendWindowSize(sd[Conn])
        BY Zenon, <2>1
      <4> HIDE DEF finAlone, window, length, finNow, charged, listed
      <4> QED BY <1>1, <4>1 DEF SentTooMuch, SendWindowSize
    <3>2. error' = \E i \in {s, Conn} : SentTooMuch(sd[i], n)
      BY <1>4
    <3> QED BY Zenon, <3>1, <3>2
  <2>4. listed \in SUBSET Streams
    BY Zenon
  <2>5. snd'[Conn].sent = sd[Conn].sent + n
    <3> HIDE DEF charged, listed
    <3>1. CASE snd' = charged
      BY <2>2, <3>1
    <3>2. CASE StreamMaybeSendBlocked(s, charged, listed, after)
      BY SMTT(30), <2>2, <2>4, <3>2, SendBlockedGood, IdsFacts
    <3> QED BY Zenon, <1>4, <3>1, <3>2
  <2>6. ASSUME len > 0, ~apart, fin, n = len PROVE f
    BY <1>4, <2>1, <2>6
  <2>7. ASSUME len > 0, ~apart, FinsCarry(toReceiver) PROVE FinsCarry(toReceiver')
    <3>1. f => n > 0
      BY <1>4, <2>1, <2>7
    <3>2. \A w \in WrittenFrames(s, sd[s].sent, n, f, apart) :
             w = StreamFrame(s, sd[s].sent, n, f)
      BY Zenon, <2>7 DEF WrittenFrames
    <3>3. \A w \in WrittenFrames(s, sd[s].sent, n, f, apart) : w.fin => w.len > 0
      BY <3>1, <3>2 DEF StreamFrame
    <3> QED BY ZenonT(30), <1>4, <2>7, <3>3 DEF FinsCarry
  <2> HIDE DEF finAlone, window, length, finNow, charged, listed
  <2> QED BY Zenon, <2>3, <2>5, <2>6, <2>7
<1> HIDE DEF finAlone, window, length, finNow, charged, listed
<1> QED BY ZenonT(40), <1>2, <1>3, <1>4
        DEF WritevData, finAlone, window, length, finNow, charged, listed

\* The streams and the frames of the sender when no FIN goes alone.
FinsGood(o, frames) ==
    ~FinAlone => /\ \A s \in Streams : QueueGood(o[s]) /\ ~o[s].finApart
                 /\ FinsCarry(frames)

\* A step that sends n bytes on s, which is open if there are any, and charges
\* both levels, keeps the accounts in order.
LEMMA SenderBalanced ==
  ASSUME IInv, IInv', AInv, UNCHANGED <<rcv, in, locallyClosed>>, ~error',
         NEW s \in Streams, NEW n \in Nat, n # 0 => out[s].open,
         snd'[s].sent = snd[s].sent + n, snd'[Conn].sent = snd[Conn].sent + n,
         \A t \in Streams : t # s => snd'[t].sent = snd[t].sent,
         \A t \in Streams : out'[t].open => out[t].open,
         FinsGood(out', toReceiver')
  PROVE  AInv'
<1>1. rcv' = rcv /\ in' = in /\ locallyClosed' = locallyClosed
  OBVIOUS
<1>2. \A t \in Streams : out[t].open \/ snd'[t].sent = snd[t].sent
  <2>1. snd[s].sent \in Nat
    BY CountersType, IdsFacts
  <2> QED BY <2>1
<1>3. \A t \in Streams : StreamAccount(t)
  BY DEF AInv
<1>4. ASSUME NEW t \in Streams
      PROVE  /\ ArrivedBytes(t)' = ArrivedBytes(t)
             /\ AccountedBytes(t)' = AccountedBytes(t)
             /\ StreamAccount(t)'
  <2>1. out[t].open => in[t].open \/ locallyClosed[t] # NoOffset
    BY Zenon, <1>3 DEF StreamAccount
  <2>2. /\ ArrivedBytes(t)' = ArrivedBytes(t)
        /\ AccountedBytes(t)' = AccountedBytes(t)
    BY Zenon, <1>1, <1>2, <2>1 DEF ArrivedBytes, AccountedBytes
  <2>3. StreamAccount(t)'
    BY Zenon, <1>1, <1>2, <1>3 DEF StreamAccount, EndGood
  <2> QED BY Zenon, <2>2, <2>3
<1>5. Arrived' = Arrived /\ Accounted' = Accounted
  BY Zenon, <1>4 DEF Arrived, Accounted
<1>6. snd'[Conn].sent = SumFunctionOnSet(Sent', Streams)
  <2>1. \A t \in Streams : /\ Sent[t] \in Nat /\ Sent'[t] \in Nat
                           /\ Sent[t] = snd[t].sent /\ Sent'[t] = snd'[t].sent
    <3>1. \A t \in Streams : snd[t].sent \in Nat /\ snd'[t].sent \in Nat
      BY SMTT(30), IdsFacts DEF IInv, SenderGood, SendSide
    <3> QED BY SMTT(30), <3>1 DEF Sent
  <2>2. SumFunctionOnSet(Sent', Streams) =
          SumFunctionOnSet(Sent, Streams) + Sent'[s] - Sent[s]
    BY <2>1, SumChange, StreamsAssumption
  <2>3. SumFunctionOnSet(Sent, Streams) \in Int
    BY SMTT(30), <2>1, SumInt, StreamsAssumption
  <2>4. snd[Conn].sent = SumFunctionOnSet(Sent, Streams)
    BY DEF AInv
  <2> QED BY SMTT(30), <2>1, <2>2, <2>3, <2>4
<1> QED BY Zenon, <1>1, <1>4, <1>5, <1>6 DEF AInv, FinsGood, FinsCarry

\* QuicStream::OnCanWrite on an open stream.
LEMMA StreamOnCanWriteBalanced ==
  ASSUME IInv, IInv', AInv, NEW sd, SenderGood(sd),
         \A i \in Ids : sd[i].sent = snd[i].sent,
         NEW s \in Streams, out[s].open, NEW list \in SUBSET Streams,
         NEW current \in BOOLEAN, NEW after,
         StreamOnCanWrite(s, sd, list, current, after),
         UNCHANGED <<rcv, in, locallyClosed>>
  PROVE  AInv'
<1>1. out[s] \in OutStreams /\ out[s].queued \in Nat
        /\ out[s].finBuffered \in BOOLEAN /\ out[s].finApart \in BOOLEAN
        /\ error \in BOOLEAN /\ out \in [Streams -> OutStreams]
  BY DEF IInv, OutStreams
<1>2. /\ \A t \in Streams : sd[t].sent = snd[t].sent
      /\ sd[Conn].sent = snd[Conn].sent
  BY IdsFacts
<1>3. ~error /\ FinsGood(out, toReceiver)
  BY Zenon DEF AInv, FinsGood, FinsCarry
<1>4. CASE HasBufferedData(s)
  <2>1. PICK k \in 0..out[s].queued, f \in BOOLEAN :
            /\ WritevData(s, sd, list, current, out[s].queued,
                          out[s].finBuffered, out[s].finApart, k, f, after)
            /\ out' = [out EXCEPT ![s] = Written(@, out[s].queued, k, f)]
    BY Zenon, <1>4 DEF StreamOnCanWrite
  <2> DEFINE o == Written(out[s], out[s].queued, k, f)
  <2>2. k \in Nat /\ k <= out[s].queued
    BY <1>1
  <2>3. out' = [out EXCEPT ![s] = o]
    BY Zenon, <2>1, <1>1
  <2>4. /\ o.queued = out[s].queued - k /\ (o.open <=> ~f)
        /\ o.finBuffered = out[s].finBuffered /\ o.finApart = out[s].finApart
    <3> DEFINE left == out[s].queued - k
               open == ~f
    <3>1. o = [out[s] EXCEPT !.queued = left, !.finSent = f, !.open = open]
      BY DEF Written
    <3> HIDE DEF left, open
    <3>2. /\ o.queued = left /\ o.open = open
          /\ o.finBuffered = out[s].finBuffered /\ o.finApart = out[s].finApart
      BY Zenon, <1>1, <3>1 DEF OutStreams
    <3> QED BY Zenon, <3>2 DEF left, open
  <2> HIDE DEF o
  <2>5. WriteGood(s, sd, k, f, after)
    BY SMTT(30), <1>1, <2>1, <2>2, WritevGood
  <2>6. /\ snd'[Conn].sent = sd[Conn].sent + k /\ ~error'
        /\ out[s].queued > 0 /\ ~out[s].finApart =>
              /\ out[s].finBuffered /\ k = out[s].queued => f
              /\ FinsCarry(toReceiver) => FinsCarry(toReceiver')
    BY SMTT(30), <1>1, <1>3, <2>1, <2>2, WritevCharges
  <2>7. /\ snd'[s].sent = snd[s].sent + k /\ snd'[Conn].sent = snd[Conn].sent + k
        /\ \A t \in Streams : t # s => snd'[t].sent = snd[t].sent
    BY Zenon, <1>2, <2>5, <2>6 DEF WriteGood
  <2>8. /\ out'[s] = o /\ \A t \in Streams : t # s => out'[t] = out[t]
    BY Zenon, <1>1, <2>3
  <2>9. FinsGood(out', toReceiver')
    <3> SUFFICES ASSUME ~FinAlone
                 PROVE  /\ \A t \in Streams : QueueGood(out'[t]) /\ ~out'[t].finApart
                        /\ FinsCarry(toReceiver')
      BY Zenon DEF FinsGood
    <3>1. /\ FinsCarry(toReceiver) /\ ~out[s].finApart /\ QueueGood(out[s])
          /\ \A t \in Streams : QueueGood(out[t]) /\ ~out[t].finApart
      BY Zenon, <1>3 DEF FinsGood
    <3>2. out[s].queued > 0
      BY Zenon, <1>4, <3>1 DEF HasBufferedData, QueueGood
    <3>3. FinsCarry(toReceiver')
      BY Zenon, <2>6, <3>1, <3>2
    <3>4. QueueGood(o)
      BY <1>1, <2>2, <2>4, <2>6, <3>1, <3>2 DEF QueueGood
    <3>5. ~o.finApart
      BY Zenon, <2>4, <3>1
    <3> QED BY Zenon, <2>8, <3>1, <3>3, <3>4, <3>5
  <2>10. \A t \in Streams : out'[t].open => out[t].open
    BY Zenon, <2>8
  <2> QED BY ZenonT(40), <2>2, <2>6, <2>7, <2>9, <2>10, SenderBalanced
<1>5. CASE ~HasBufferedData(s)
  <2>1. /\ snd' = sd /\ after = list
        /\ UNCHANGED <<out, toReceiver, error>>
    BY SMTT(30), <1>5 DEF StreamOnCanWrite
  <2>2. /\ snd'[s].sent = snd[s].sent + 0 /\ snd'[Conn].sent = snd[Conn].sent + 0
        /\ \A t \in Streams : t # s => snd'[t].sent = snd[t].sent
    BY <1>2, <2>1, CountersType, IdsFacts
  <2>3. FinsGood(out', toReceiver') /\ \A t \in Streams : out'[t].open => out[t].open
    BY Zenon, <1>3, <2>1
  <2> QED BY SMTT(30), <1>3, <2>1, <2>2, <2>3, SenderBalanced
<1> QED BY Zenon, <1>4, <1>5

\* A step that sends nothing, but may close streams, keeps the accounts.
LEMMA SilentBalanced ==
  ASSUME IInv, IInv', AInv, UNCHANGED <<rcv, in, locallyClosed, error>>,
         \A i \in Ids : snd'[i].sent = snd[i].sent,
         \A t \in Streams : out'[t].open => out[t].open,
         FinsGood(out', toReceiver')
  PROVE  AInv'
<1>1. ~error'
  BY Zenon DEF AInv
<1>2. ASSUME NEW s \in Streams PROVE AInv'
  <2>1. /\ snd'[s].sent = snd[s].sent + 0 /\ snd'[Conn].sent = snd[Conn].sent + 0
        /\ \A t \in Streams : t # s => snd'[t].sent = snd[t].sent
    BY CountersType, IdsFacts
  <2> QED BY SMTT(30), <1>1, <2>1, SenderBalanced
<1>3. CASE \A s \in Streams : FALSE
  <2>1. Sent' = Sent /\ Arrived' = Arrived /\ Accounted' = Accounted
    BY Zenon, <1>3 DEF Sent, Arrived, Accounted
  <2>2. snd'[Conn].sent = snd[Conn].sent /\ rcv' = rcv
    BY IdsFacts
  <2> QED BY Zenon, <1>1, <1>3, <2>1, <2>2 DEF AInv, FinsGood, FinsCarry
<1> QED BY Zenon, <1>2, <1>3

\* Every step of the sender keeps the accounts in order.
LEMMA SenderAccounts ==
  ASSUME IInv, AInv, SenderStep
  PROVE  AInv'
<1>1. /\ SenderGood(snd) /\ out \in [Streams -> OutStreams]
      /\ writeBlocked \in SUBSET Streams /\ error \in BOOLEAN
  BY DEF IInv
<1>2. IInv'
  BY Zenon, SenderSteps DEF Kept
<1>3. ~error /\ FinsGood(out, toReceiver)
  BY Zenon DEF AInv, FinsGood, FinsCarry
<1>4. ASSUME NEW s \in Streams, NEW n \in 0..Length, NEW fin \in BOOLEAN,
             WriteOrBufferData(s, n, fin)
      PROVE  AInv'
  <2> DEFINE o == [out[s] EXCEPT !.written = @ + n, !.finBuffered = fin]
  <2>1. /\ out[s].open /\ UNCHANGED <<rcv, in, locallyClosed>> /\ n \in Nat
        /\ ~FinAlone => n > 0
    BY <1>4, WindowAssumption DEF WriteOrBufferData, receiver
  <2>2. /\ o \in OutStreams /\ out[s] \in OutStreams
        /\ o.queued = out[s].queued /\ (o.open <=> out[s].open)
        /\ o.finBuffered = fin /\ o.finApart = out[s].finApart
    <3> DEFINE w == out[s].written + n
    <3>1. o = [out[s] EXCEPT !.written = w, !.finBuffered = fin]
      BY DEF OutStreams
    <3>2. out[s] \in OutStreams
      BY Zenon, <1>1
    <3>3. w \in Nat
      BY <2>1, <3>2 DEF OutStreams
    <3> HIDE DEF w
    <3> QED BY Zenon, <3>1, <3>2, <3>3 DEF OutStreams
  <2>3. CASE HasBufferedData(s)
    <3> DEFINE k == o.queued + n
               apart == n = 0
               p == [o EXCEPT !.queued = k, !.finApart = apart]
    <3>1. /\ out' = [out EXCEPT ![s] = p]
          /\ UNCHANGED <<snd, writeBlocked, toReceiver, error>>
      BY <1>4, <2>3 DEF WriteOrBufferData
    <3>2. ~FinAlone => k > 0 /\ ~apart
      BY <2>1, <2>2 DEF OutStreams
    <3> HIDE DEF k, apart, o
    <3>3. p.queued = k /\ (p.open <=> out[s].open) /\ p.finApart = apart
      BY Zenon, <2>2 DEF OutStreams
    <3> HIDE DEF p
    <3>4. out'[s] = p /\ \A t \in Streams : t # s => out'[t] = out[t]
      BY Zenon, <1>1, <3>1
    <3>5. FinsGood(out', toReceiver')
      BY Zenon, <1>3, <3>1, <3>2, <3>3, <3>4 DEF FinsGood, QueueGood
    <3>6. /\ \A t \in Streams : out'[t].open => out[t].open
          /\ \A i \in Ids : snd'[i].sent = snd[i].sent
      BY Zenon, <3>1, <3>3, <3>4
    <3> QED BY Zenon, <1>2, <2>1, <3>1, <3>5, <3>6, SilentBalanced
  <2>4. CASE ~HasBufferedData(s)
    <3>1. PICK k \in 0..n, f \in BOOLEAN :
            /\ WritevData(s, snd, writeBlocked, FALSE, n, fin, FALSE, k, f,
                          writeBlocked')
            /\ out' = [out EXCEPT ![s] = Written(o, n, k, f)]
      BY Zenon, <1>4, <2>4 DEF WriteOrBufferData
    <3> DEFINE p == Written(o, n, k, f)
    <3> HIDE DEF o
    <3>2. k \in Nat /\ k <= n
      BY <2>1
    <3>3. /\ p.queued = n - k /\ (p.open <=> ~f)
          /\ p.finBuffered = fin /\ p.finApart = out[s].finApart
      <4> DEFINE left == n - k
                 open == ~f
      <4>1. p = [o EXCEPT !.queued = left, !.finSent = f, !.open = open]
        BY DEF Written
      <4> HIDE DEF left, open
      <4>2. /\ p.queued = left /\ p.open = open
            /\ p.finBuffered = o.finBuffered /\ p.finApart = o.finApart
        BY Zenon, <2>2, <4>1 DEF OutStreams
      <4> QED BY Zenon, <2>2, <4>2 DEF left, open
    <3> DEFINE no == FALSE
    <3>4. no \in BOOLEAN /\ ~no
            /\ WritevData(s, snd, writeBlocked, no, n, fin, no, k, f, writeBlocked')
      BY Zenon, <3>1
    <3>5. out' = [out EXCEPT ![s] = p]
      BY Zenon, <3>1
    <3> HIDE DEF no, p
    <3>6. WriteGood(s, snd, k, f, writeBlocked')
      BY SMTT(30), <1>1, <2>1, <3>2, <3>4, WritevGood
    <3>7. /\ snd'[Conn].sent = snd[Conn].sent + k /\ ~error'
          /\ n > 0 => /\ fin /\ k = n => f
                      /\ FinsCarry(toReceiver) => FinsCarry(toReceiver')
      BY SMTT(30), <1>1, <1>3, <2>1, <3>2, <3>4, WritevCharges
    <3>8. /\ snd'[s].sent = snd[s].sent + k
          /\ \A t \in Streams : t # s => snd'[t].sent = snd[t].sent
      BY Zenon, <3>6 DEF WriteGood
    <3>9. out'[s] = p /\ \A t \in Streams : t # s => out'[t] = out[t]
      BY Zenon, <1>1, <3>5
    <3>10. ~FinAlone => QueueGood(p) /\ ~p.finApart
      BY <1>3, <2>1, <3>2, <3>3, <3>7 DEF FinsGood, QueueGood
    <3>11. FinsGood(out', toReceiver')
      BY Zenon, <1>3, <2>1, <3>7, <3>9, <3>10 DEF FinsGood
    <3>12. \A t \in Streams : out'[t].open => out[t].open
      BY Zenon, <2>1, <3>9
    <3> QED BY ZenonT(40), <1>2, <2>1, <3>2, <3>7, <3>8, <3>11, <3>12, SenderBalanced
  <2> QED BY Zenon, <2>3, <2>4
<1>5. ASSUME NEW s \in Streams, OnCanWrite(s)
      PROVE  AInv'
  <2>1. UNCHANGED <<rcv, in, locallyClosed>>
    BY <1>5 DEF OnCanWrite, receiver
  <2>2. CASE out[s].open /\ ~IsBlocked(snd[s])
    <3> DEFINE list == writeBlocked \ {s}
    <3>1. StreamOnCanWrite(s, snd, list, TRUE, writeBlocked') /\ list \in SUBSET Streams
      BY ZenonT(40), <1>1, <1>5, <2>2 DEF OnCanWrite
    <3> HIDE DEF list
    <3> QED BY Zenon, <1>1, <1>2, <2>1, <2>2, <3>1, StreamOnCanWriteBalanced
  <2>3. CASE ~(out[s].open /\ ~IsBlocked(snd[s]))
    <3>1. UNCHANGED <<snd, out, toReceiver, error>>
      BY ZenonT(40), <1>5, <2>3 DEF OnCanWrite
    <3>2. /\ FinsGood(out', toReceiver')
          /\ \A t \in Streams : out'[t].open => out[t].open
          /\ \A i \in Ids : snd'[i].sent = snd[i].sent
      BY Zenon, <1>3, <3>1
    <3> QED BY Zenon, <1>2, <2>1, <3>1, <3>2, SilentBalanced
  <2> QED BY Zenon, <2>2, <2>3
<1>6. ASSUME NEW u \in toSender, OnWindowUpdateFrame(u)
      PROVE  AInv'
  <2> DEFINE updated == [snd EXCEPT ![u.id] = UpdateSendWindowOffset(@, u.offset)]
             c == UpdateSendWindowOffset(snd[u.id], u.offset)
  <2>1. /\ UNCHANGED <<rcv, in, locallyClosed>> /\ u.type = "UPDATE"
    BY Zenon, <1>6 DEF OnWindowUpdateFrame, receiver
  <2>2. u.id \in Ids /\ u.offset \in Nat /\ u.offset <= rcv[u.id].offset
    BY Zenon, <2>1 DEF IInv, Updates
  <2>3. /\ c \in SendSide /\ c.sent = snd[u.id].sent
        /\ c.sent <= c.offset /\ c.offset <= rcv[u.id].offset
    <3>1. snd[u.id] \in SendSide /\ snd[u.id].sent <= snd[u.id].offset
            /\ snd[u.id].offset <= rcv[u.id].offset
      BY <1>1, <2>2 DEF SenderGood
    <3>2. CASE u.offset <= snd[u.id].offset
      BY <2>2, <3>1, <3>2 DEF UpdateSendWindowOffset, SendSide
    <3>3. CASE ~(u.offset <= snd[u.id].offset)
      BY <2>2, <3>1, <3>3 DEF UpdateSendWindowOffset, SendSide
    <3> QED BY Zenon, <3>2, <3>3
  <2>4. updated = [snd EXCEPT ![u.id] = c]
    BY Zenon
  <2>5. updated \in [Ids -> SendSide] /\ updated[u.id] = c
          /\ \A i \in Ids : i # u.id => updated[i] = snd[i]
    <3> HIDE DEF c
    <3> QED BY Zenon, <1>1, <2>2, <2>3, <2>4 DEF SenderGood
  <2> HIDE DEF updated, c
  <2>6. SenderGood(updated) /\ \A i \in Ids : updated[i].sent = snd[i].sent
    BY Zenon, <1>1, <2>3, <2>5 DEF SenderGood
  <2>7. CASE u.id # Conn /\ out[u.id].open /\ Unblocks(snd[u.id], u.offset)
    <3>1. PICK list \in SUBSET Streams :
             StreamOnCanWrite(u.id, updated, writeBlocked, FALSE, list)
      BY ZenonT(40), <1>6, <2>7 DEF OnWindowUpdateFrame, updated
    <3> u.id \in Streams
      BY Zenon, <2>2, <2>7 DEF Ids
    <3> QED BY Zenon, <1>1, <1>2, <2>1, <2>6, <2>7, <3>1, StreamOnCanWriteBalanced
  <2>8. CASE ~(u.id # Conn /\ out[u.id].open /\ Unblocks(snd[u.id], u.offset))
    <3>1. /\ snd' = updated \/ snd' = snd
          /\ UNCHANGED <<out, toReceiver, error>>
      BY Zenon, <1>6, <2>8 DEF OnWindowUpdateFrame, updated
    <3>2. /\ FinsGood(out', toReceiver')
          /\ \A t \in Streams : out'[t].open => out[t].open
          /\ \A i \in Ids : snd'[i].sent = snd[i].sent
      BY Zenon, <1>3, <2>6, <3>1
    <3> QED BY Zenon, <1>2, <2>1, <3>1, <3>2, SilentBalanced
  <2> QED BY Zenon, <2>7, <2>8
<1>7. ASSUME NEW s \in Streams, CloseSending(s)
      PROVE  AInv'
  <2>1. /\ out' = [out EXCEPT ![s].open = FALSE]
        /\ toReceiver' = toReceiver \cup {Rst(s, snd[s].sent)}
        /\ UNCHANGED <<snd, error, rcv, in, locallyClosed>>
    BY Zenon, <1>7 DEF CloseSending, receiver
  <2>2. /\ ~out'[s].open /\ out'[s].finApart = out[s].finApart
        /\ \A t \in Streams : t # s => out'[t] = out[t]
    BY ZenonT(40), <1>1, <2>1 DEF OutStreams
  <2>3. FinsCarry(toReceiver) => FinsCarry(toReceiver')
    BY <2>1 DEF FinsCarry, Rst
  <2>4. FinsGood(out', toReceiver')
    BY Zenon, <1>3, <2>2, <2>3 DEF FinsGood, QueueGood
  <2>5. /\ \A t \in Streams : out'[t].open => out[t].open
        /\ \A i \in Ids : snd'[i].sent = snd[i].sent
    BY Zenon, <2>1, <2>2
  <2> QED BY Zenon, <1>2, <2>1, <2>4, <2>5, SilentBalanced
<1>8. ASSUME PostProcessAfterData
      PROVE  AInv'
  <2>1. UNCHANGED <<snd, out, toReceiver, error, rcv, in, locallyClosed>>
    BY Zenon, <1>8 DEF PostProcessAfterData, receiver
  <2>2. /\ FinsGood(out', toReceiver')
        /\ \A t \in Streams : out'[t].open => out[t].open
        /\ \A i \in Ids : snd'[i].sent = snd[i].sent
    BY Zenon, <1>3, <2>1
  <2> QED BY Zenon, <1>2, <2>1, <2>2, SilentBalanced
<1>9. ASSUME NEW u \in toSender, SenderOnRstStream(u)
      PROVE  AInv'
  <2>1. u.id \in Streams /\ CloseSending(u.id)
    BY Zenon, <1>9 DEF SenderOnRstStream, IInv
  <2> QED BY Zenon, <1>7, <2>1
<1>10. ASSUME NEW s \in Streams, SenderReset(s)
       PROVE  AInv'
  BY Zenon, <1>7, <1>10 DEF SenderReset
<1> QED BY Zenon, <1>4, <1>5, <1>6, <1>8, <1>9, <1>10 DEF SenderStep, DeliverToSender

-----------------------------------------------------------------------------
\* Nothing is sent, received or consumed initially.
LEMMA InitAccounts ==
  ASSUME Init
  PROVE  AInv
<1>1. \A i \in Ids : /\ snd[i].sent = 0 /\ rcv[i].consumed = 0 /\ rcv[i].highest = 0
  BY DEF Init, NewSendSide, NewReceiveSide
<1>2. \A s \in Streams : /\ in[s].open /\ in[s].close = NoOffset
                         /\ locallyClosed[s] = NoOffset
                         /\ ~in[s].finReceived /\ ~in[s].rstReceived
                         /\ ~out[s].finBuffered /\ ~out[s].finApart
  BY Zenon DEF Init
<1>3. ~error /\ toReceiver = {}
  BY Zenon DEF Init
<1>4. \A s \in Streams : Sent[s] = 0 /\ Arrived[s] = 0 /\ Accounted[s] = 0
  BY <1>1, <1>2, IdsFacts
     DEF Sent, Arrived, Accounted, ArrivedBytes, AccountedBytes
<1>5. /\ SumFunctionOnSet(Sent, Streams) = 0
      /\ SumFunctionOnSet(Arrived, Streams) = 0
      /\ SumFunctionOnSet(Accounted, Streams) = 0
  BY SMTT(30), <1>4, SumZero, StreamsAssumption
<1>6. \A s \in Streams : StreamAccount(s) /\ QueueGood(out[s])
  BY <1>1, <1>2, IdsFacts DEF StreamAccount, EndGood, QueueGood
<1> QED BY SMTT(30), <1>1, <1>2, <1>3, <1>5, <1>6, IdsFacts DEF AInv

\* The connection level counters are the sums of the stream level ones, at
\* both endpoints, in every reachable state.
THEOREM AccountsInductive == Spec => [](IInv /\ AInv)
<1>1. Init => IInv /\ AInv
  BY Zenon, InitGood, InitAccounts
<1>2. IInv /\ AInv /\ [Next]_vars => IInv' /\ AInv'
  <2> SUFFICES ASSUME IInv, AInv, [Next]_vars PROVE IInv' /\ AInv'
    BY Zenon
  <2>1. IInv'
    BY Zenon, StepGood
  <2>2. CASE UNCHANGED vars
    <3>1. /\ error' = error /\ snd' = snd /\ rcv' = rcv /\ in' = in /\ out' = out
          /\ locallyClosed' = locallyClosed /\ toReceiver' = toReceiver
      BY Zenon, <2>2 DEF vars, sender, receiver
    <3>2. Sent' = Sent /\ Arrived' = Arrived /\ Accounted' = Accounted
      BY Zenon, <3>1 DEF Sent, Arrived, Accounted, ArrivedBytes, AccountedBytes
    <3>3. \A s \in Streams : StreamAccount(s)' <=> StreamAccount(s)
      BY Zenon, <3>1 DEF StreamAccount, EndGood
    <3>4. AInv'
      BY Zenon, <3>1, <3>2, <3>3 DEF AInv
    <3> QED BY Zenon, <2>1, <3>4
  <2> QED BY Zenon, <2>1, <2>2, SenderAccounts, ReceiverAccounts DEF Next
<1> QED BY <1>1, <1>2, PTL DEF Spec

\* Between two correct endpoints the CloseConnection calls of
\* QuicStream::OnStreamFrame, AddBytesSent and OnFinalByteOffsetReceived are
\* never reached, at the level of the streams or of the connection.
THEOREM WindowsNeverOverrun == Spec => []NoFlowControlViolation
<1>1. IInv /\ AInv => NoFlowControlViolation
  BY Zenon, NotViolated
<1> QED BY <1>1, AccountsInductive, PTL

\* As long as no FIN is sent without data, as the messages of this program
\* are, the connection has consumed exactly the accounted bytes of its
\* streams: what a closed stream never read was given back once, neither
\* lost nor given twice (QuicStream::OnClose, OnFinalByteOffsetReceived).
THEOREM AccountsSafe == ~FinAlone => (Spec => []AccountsAgree)
<1> SUFFICES ASSUME ~FinAlone PROVE Spec => []AccountsAgree
  OBVIOUS
<1>1. IInv /\ AInv => AccountsAgree
  <2>1. Accounted = [s \in Streams |-> AccountedBytes(s)]
          /\ Sent = [s \in Streams |-> snd[s].sent]
          /\ DOMAIN Accounted = Streams /\ DOMAIN Sent = Streams
    BY Zenon DEF Accounted, Sent
  <2>2. AInv => /\ rcv[Conn].consumed = SumFunctionOnSet(Accounted, Streams)
                /\ snd[Conn].sent = SumFunctionOnSet(Sent, Streams)
    BY Zenon DEF AInv
  <2> QED BY Zenon, <2>1, <2>2 DEF AccountsAgree, SumFunction
<1> QED BY <1>1, AccountsInductive, PTL
=============================================================================
