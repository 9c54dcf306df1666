---------------------------- MODULE FlowControl ----------------------------
(***************************************************************************)
(* Two-level flow control of one direction of a connection: a sending and  *)
(* a receiving QuicSession, the flow controllers of the connection and of  *)
(* each stream (module QuicFlowController), and a network that loses,      *)
(* repeats and reorders frames.  Lost frames are retransmitted, so a frame *)
(* once sent can arrive at any later time, any number of times.            *)
(*                                                                         *)
(* The other direction is finished, as when a client has sent its request  *)
(* and downloads the response: the end of this direction closes a stream.  *)
(* A read empties what is readable, as OnDataAvailable of the client and   *)
(* server streams does.                                                    *)
(***************************************************************************)
EXTENDS QuicFlowController, FiniteSets, Functions

CONSTANTS
    Streams,        \* the streams
    Conn,           \* kConnectionLevelId
    NoOffset,       \* no offset recorded
    StreamWindow,   \* initial window of a stream
    SessionWindow,  \* initial window of the connection
    StreamLimit,    \* kStreamReceiveWindowLimit
    SessionLimit,   \* kSessionReceiveWindowLimit
    Length,         \* bound: bytes the application writes on one stream
    AutoTune,       \* auto_tune_receive_window_: the receiver is a server
    FinAlone        \* the application may end a stream with an empty write

Ids == Streams \cup {Conn}

ASSUME StreamsAssumption == IsFiniteSet(Streams) /\ Conn \notin Streams
ASSUME WindowAssumption ==
    /\ {StreamWindow, SessionWindow, StreamLimit, SessionLimit, Length}
            \subseteq Nat
    /\ 2 <= StreamWindow /\ StreamWindow <= StreamLimit
    /\ 2 <= SessionWindow /\ SessionWindow <= SessionLimit
ASSUME OptionsAssumption == AutoTune \in BOOLEAN /\ FinAlone \in BOOLEAN
ASSUME NoOffsetAssumption == NoOffset \notin Nat

VARIABLES
    snd,           \* the send side of each controller of the sender
    out,           \* the sending streams
    writeBlocked,  \* write_blocked_streams_ of the sender
    rcv,           \* the receive side of each controller of the receiver
    in,            \* the receiving streams
    locallyClosed, \* locally_closed_streams_highest_offset_
    toReceiver,    \* STREAM and RST_STREAM frames sent to the receiver
    toSender,      \* WINDOW_UPDATE and RST_STREAM frames sent to the sender
    error          \* a flow control error closed the connection

sender == <<snd, out, writeBlocked>>
receiver == <<rcv, in, locallyClosed>>
vars == <<snd, out, writeBlocked, rcv, in, locallyClosed, toReceiver,
          toSender, error>>

StreamFrame(s, offset, len, fin) ==
    [type |-> "STREAM", id |-> s, offset |-> offset, len |-> len, fin |-> fin]
Rst(s, offset) ==
    [type |-> "RST", id |-> s, offset |-> offset, len |-> 0, fin |-> TRUE]
WindowUpdate(id, offset) == [type |-> "UPDATE", id |-> id, offset |-> offset]

Frames == [type : {"STREAM", "RST"}, id : Streams, offset : Nat, len : Nat,
           fin : BOOLEAN]
Updates == [type : {"UPDATE", "RST"}, id : Ids, offset : Nat]

TypeOK ==
    /\ snd \in [Ids -> SendSide]
    /\ out \in [Streams -> [queued : Nat, written : Nat, finBuffered : BOOLEAN,
                            finApart : BOOLEAN, finSent : BOOLEAN,
                            open : BOOLEAN]]
    /\ writeBlocked \subseteq Streams
    /\ rcv \in [Ids -> ReceiveSide]
    /\ in \in [Streams -> [got : SUBSET Nat, blocked : BOOLEAN,
                           finReceived : BOOLEAN, rstReceived : BOOLEAN,
                           close : Nat \cup {NoOffset}, open : BOOLEAN]]
    /\ locallyClosed \in [Streams -> Nat \cup {NoOffset}]
    /\ toReceiver \subseteq Frames
    /\ toSender \subseteq Updates
    /\ error \in BOOLEAN

Init ==
    /\ snd = [i \in Ids |-> NewSendSide(IF i = Conn THEN SessionWindow
                                                    ELSE StreamWindow)]
    /\ out = [s \in Streams |-> [queued |-> 0, written |-> 0,
                                 finBuffered |-> FALSE, finApart |-> FALSE,
                                 finSent |-> FALSE, open |-> TRUE]]
    /\ writeBlocked = {}
    /\ rcv = [i \in Ids |-> NewReceiveSide(IF i = Conn THEN SessionWindow
                                                       ELSE StreamWindow)]
    /\ in = [s \in Streams |-> [got |-> {}, blocked |-> TRUE,
                                finReceived |-> FALSE, rstReceived |-> FALSE,
                                close |-> NoOffset, open |-> TRUE]]
    /\ locallyClosed = [s \in Streams |-> NoOffset]
    /\ toReceiver = {}
    /\ toSender = {}
    /\ error = FALSE

-----------------------------------------------------------------------------
(* The sender.  sd and list stand for snd and writeBlocked as changed      *)
(* earlier in the same handler, and after for the list as a call leaves it.*)

\* queued_data_ is not empty: unsent bytes, or a FIN that waits alone.
HasBufferedData(s) ==
    out[s].queued > 0 \/ (out[s].finBuffered /\ ~out[s].finSent)

\* All requests have one priority: a stream yields to the front of the list.
ShouldYield(s, list) == {t \in list : t # s} # {}

\* Mutant: the stream is not listed when only the connection blocks it.
MaybeSendBlockedUnlisted(s, sd, list, after) ==
    /\ snd' = [sd EXCEPT ![s] = MaybeSendBlocked(@), ![Conn] = MaybeSendBlocked(@)]
    /\ after = list

StreamMaybeSendBlocked(s, sd, list, after) ==
    /\ snd' = [sd EXCEPT ![s] = MaybeSendBlocked(@), ![Conn] = MaybeSendBlocked(@)]
    /\ after = IF IsBlocked(sd[Conn]) /\ ~IsBlocked(sd[s])
               THEN list \cup {s} ELSE list

\* Mutant: the connection level is charged nothing.
StreamAddBytesSentUncharged(s, sd, n) ==
    [sd EXCEPT ![s] = AddBytesSent(@, n)]

StreamAddBytesSent(s, sd, n) ==
    [sd EXCEPT ![s] = AddBytesSent(@, n), ![Conn] = AddBytesSent(@, n)]

WrittenFrames(s, offset, n, f, apart) ==
    IF apart
    THEN {StreamFrame(s, offset, k, FALSE) : k \in {n} \ {0}}
            \cup {StreamFrame(s, offset + n, 0, TRUE) : x \in {f} \cap {TRUE}}
    ELSE IF n = 0 /\ ~f THEN {} ELSE {StreamFrame(s, offset, n, f)}

\* QuicStream::WritevData of len bytes, with the FIN or not, of which the
\* connection takes n bytes, and the FIN when f.  current says that the
\* session gave this stream its turn.  With apart the FIN is a call of its
\* own after the bytes.
WritevData(s, sd, list, current, len, fin, apart, n, f, after) ==
    LET finAlone == fin /\ len = 0
        window == Least(SendWindowSize(sd[s]), SendWindowSize(sd[Conn]))
        length == Least(len, window)
        finNow == fin /\ len <= window
        charged == StreamAddBytesSent(s, sd, n)
    IN \/ /\ ~current /\ ShouldYield(s, list)
          /\ n = 0 /\ ~f
          /\ snd' = sd
          /\ after = list \cup {s}
          /\ UNCHANGED <<toReceiver, error>>
       \/ /\ current \/ ~ShouldYield(s, list) \/ s \in list
          /\ window = 0 /\ ~finAlone
          /\ n = 0 /\ ~f
          /\ StreamMaybeSendBlocked(s, sd, list, after)
          /\ UNCHANGED <<toReceiver, error>>
       \/ /\ current \/ ~ShouldYield(s, list) \/ s \in list
          /\ window > 0 \/ finAlone
          /\ n <= length
          /\ f => finNow /\ n = length
          /\ finNow /\ n = length /\ length > 0 /\ ~apart => f
          /\ toReceiver' = toReceiver \cup WrittenFrames(s, sd[s].sent, n, f, apart)
          /\ error' = \E i \in {s, Conn} : SentTooMuch(sd[i], n)
          /\ IF n = length
             THEN LET listed == IF finNow /\ ~f THEN list \cup {s} ELSE list
                  IN IF finAlone THEN snd' = charged /\ after = listed
                     ELSE StreamMaybeSendBlocked(s, charged, listed, after)
             ELSE snd' = charged /\ after = list \cup {s}

\* The rest of a write: what the connection did not take is queued, and a
\* FIN that was taken closes the write side and with it the stream.
Written(o, total, n, f) ==
    [o EXCEPT !.queued = total - n, !.finSent = f, !.open = ~f]

\* QuicStream::WriteOrBufferData by the application.
WriteOrBufferData(s, n, fin) ==
    /\ out[s].open /\ ~out[s].finBuffered
    /\ n > 0 \/ (fin /\ FinAlone)
    /\ out[s].written + n <= Length
    /\ LET o == [out[s] EXCEPT !.written = @ + n, !.finBuffered = fin]
       IN IF HasBufferedData(s)
          THEN /\ out' = [out EXCEPT ![s] = [o EXCEPT !.queued = @ + n,
                                                      !.finApart = n = 0]]
               /\ UNCHANGED <<snd, writeBlocked, toReceiver, error>>
          ELSE \E k \in 0..n, f \in BOOLEAN :
                  /\ WritevData(s, snd, writeBlocked, FALSE, n, fin, FALSE, k, f,
                                writeBlocked')
                  /\ out' = [out EXCEPT ![s] = Written(o, n, k, f)]
    /\ UNCHANGED <<receiver, toSender>>

\* QuicStream::OnCanWrite.
StreamOnCanWrite(s, sd, list, current, after) ==
    IF HasBufferedData(s)
    THEN \E k \in 0..out[s].queued, f \in BOOLEAN :
            /\ WritevData(s, sd, list, current, out[s].queued,
                          out[s].finBuffered, out[s].finApart, k, f, after)
            /\ out' = [out EXCEPT ![s] = Written(@, out[s].queued, k, f)]
    ELSE /\ snd' = sd
         /\ after = list
         /\ UNCHANGED <<out, toReceiver, error>>

\* One turn of the loop of QuicSession::OnCanWrite.  The loop ends whenever
\* the connection can take no more, so a call is one or more of these steps.
OnCanWrite(s) ==
    /\ s \in writeBlocked
    /\ ~IsBlocked(snd[Conn])
    /\ IF out[s].open /\ ~IsBlocked(snd[s])
       THEN StreamOnCanWrite(s, snd, writeBlocked \ {s}, TRUE, writeBlocked')
       ELSE /\ writeBlocked' = writeBlocked \ {s}
            /\ UNCHANGED <<snd, out, toReceiver, error>>
    /\ UNCHANGED <<receiver, toSender>>

\* closed_streams_ is cleared: a closed stream is destroyed, and ~QuicSpdyStream
\* takes it off the list.  list is the list after the handler that this call ends.
ClearClosedStreams(list) == writeBlocked' = {t \in list : out'[t].open}

\* PostProcessAfterData at the end of QuicConnection::OnCanWrite, or after a
\* frame that changes nothing else here.
PostProcessAfterData ==
    /\ \E s \in writeBlocked : ~out[s].open
    /\ UNCHANGED <<snd, out, receiver, toReceiver, toSender, error>>
    /\ ClearClosedStreams(writeBlocked)

\* QuicConnection::OnWindowUpdateFrame, and that of QuicSession.
OnWindowUpdateFrame(u) ==
    /\ u.type = "UPDATE"
    /\ LET updated == [snd EXCEPT ![u.id] = UpdateSendWindowOffset(@, u.offset)]
       IN IF u.id # Conn /\ out[u.id].open /\ Unblocks(snd[u.id], u.offset)
          THEN \E list \in SUBSET Streams :
                  /\ StreamOnCanWrite(u.id, updated, writeBlocked, FALSE, list)
                  /\ ClearClosedStreams(list)
          ELSE /\ snd' = IF u.id = Conn \/ out[u.id].open THEN updated ELSE snd
               /\ UNCHANGED <<out, toReceiver, error>>
               /\ ClearClosedStreams(writeBlocked)
    /\ UNCHANGED <<receiver, toSender>>

\* QuicStream::Reset by the sending application, and OnStreamReset for a
\* RST_STREAM from the receiver: both close the stream and tell the receiver
\* how many bytes were sent on it.
CloseSending(s) ==
    /\ out[s].open
    /\ out' = [out EXCEPT ![s].open = FALSE]
    /\ toReceiver' = toReceiver \cup {Rst(s, snd[s].sent)}
    /\ UNCHANGED <<snd, receiver, toSender, error>>

SenderReset(s) == CloseSending(s) /\ UNCHANGED writeBlocked

SenderOnRstStream(u) ==
    /\ u.type = "RST"
    /\ CloseSending(u.id)
    /\ ClearClosedStreams(writeBlocked)

-----------------------------------------------------------------------------
(* The receiver.  r stands for rcv as changed earlier in the same handler. *)

\* n bytes can be read after the first consumed ones: those before a gap.
Readable(got, consumed, n) ==
    /\ consumed..(consumed + n - 1) \subseteq got
    /\ consumed + n \notin got

\* WINDOW_UPDATE frames for the windows that moved in this step.
SendWindowUpdates ==
    {WindowUpdate(i, rcv'[i].offset) : i \in {j \in Ids :
        rcv'[j].offset # rcv[j].offset}}

\* QuicStream::MaybeIncreaseHighestReceivedOffset.
MaybeIncreaseHighest(r, s, offset) ==
    IF offset <= r[s].highest THEN r
    ELSE [r EXCEPT
            ![s] = UpdateHighestReceivedOffset(@, offset),
            ![Conn] = UpdateHighestReceivedOffset(@,
                        r[Conn].highest + (offset - r[s].highest))]

\* QuicStream::AddBytesConsumed while reading; a stream window that grows
\* asks the connection for a window half as large again.
ConsumeRegion(r, s, n, growStream, growConn) ==
    LET stream == AddBytesConsumed(r[s], n, growStream, StreamLimit)
        conn == IF stream.size > r[s].size
                THEN EnsureWindowAtLeast(r[Conn], (3 * stream.size) \div 2,
                                         SessionLimit)
                ELSE r[Conn]
    IN IF n = 0 THEN r
       ELSE [r EXCEPT ![s] = stream,
                      ![Conn] = AddBytesConsumed(conn, n, growConn, SessionLimit)]

\* Mutant: bytes received and never read are not given back.
CloseReceivingKeeps(r, s, i, grow) ==
    /\ rcv' = r
    /\ in' = [in EXCEPT ![s] = [i EXCEPT !.open = FALSE]]
    /\ locallyClosed' = IF i.finReceived \/ i.rstReceived THEN locallyClosed
                        ELSE [locallyClosed EXCEPT ![s] = r[s].highest]

\* CloseStreamInner and QuicStream::OnClose: a stream whose final offset is
\* unknown is remembered, and what was not read is consumed at the
\* connection level only.
CloseReceiving(r, s, i, grow) ==
    /\ rcv' = [r EXCEPT ![Conn] =
                  AddBytesConsumed(@, r[s].highest - r[s].consumed, grow,
                                   SessionLimit)]
    /\ in' = [in EXCEPT ![s] = [i EXCEPT !.open = FALSE]]
    /\ locallyClosed' = IF i.finReceived \/ i.rstReceived THEN locallyClosed
                        ELSE [locallyClosed EXCEPT ![s] = r[s].highest]

\* OnDataAvailable: everything readable is read, one region at a time, and
\* the stream is closed when that includes the FIN.  A region ends where a
\* block of the buffer does, after any number cut of the bytes.
OnDataAvailable(r, s, i, growStream, growConn) ==
    \E n \in {k \in 0..Length : Readable(i.got, r[s].consumed, k)} :
    \E cut \in 0..n :
    \E some \in {ConsumeRegion(r, s, cut, growStream, growConn)} :
    \E all \in {ConsumeRegion(some, s, n - cut, growStream, growConn)} :
       IF i.close # NoOffset /\ all[s].consumed >= i.close
       THEN CloseReceiving(all, s, [i EXCEPT !.finReceived = TRUE], FALSE)
       ELSE /\ rcv' = all
            /\ in' = [in EXCEPT ![s] = i]
            /\ UNCHANGED locallyClosed

\* QuicSession::OnFinalByteOffsetReceived.
OnFinalByteOffsetReceived(s, offset, grow) ==
    /\ locallyClosed[s] # NoOffset
    /\ LET diff == offset - locallyClosed[s]
           conn == UpdateHighestReceivedOffset(rcv[Conn],
                                               rcv[Conn].highest + diff)
       IN IF diff > 0 /\ FlowControlViolation(conn)
          THEN /\ rcv' = [rcv EXCEPT ![Conn] = conn]
               /\ error' = TRUE
               /\ UNCHANGED <<in, locallyClosed>>
          ELSE /\ rcv' = [rcv EXCEPT ![Conn] =
                              AddBytesConsumed(conn, diff, grow, SessionLimit)]
               /\ locallyClosed' = [locallyClosed EXCEPT ![s] = NoOffset]
               /\ UNCHANGED <<in, error>>

\* QuicStream::OnStreamFrame and QuicStreamSequencer::OnStreamFrame.
StreamOnStreamFrame(f, growStream, growConn) ==
    LET s == f.id
        end == f.offset + f.len
        bytes == f.offset..(end - 1)
        i == [in[s] EXCEPT !.got = @ \cup bytes,
                           !.finReceived = @ \/ f.fin,
                           !.close = IF f.fin THEN end ELSE @]
        passUp == \/ f.fin /\ rcv[s].consumed >= end
                  \/ i.got # in[s].got /\ f.offset = rcv[s].consumed
    IN \E r \in {IF f.len = 0 THEN rcv ELSE MaybeIncreaseHighest(rcv, s, end)} :
       IF r # rcv /\ \E c \in {s, Conn} : FlowControlViolation(r[c])
       THEN /\ rcv' = r
            /\ in' = [in EXCEPT ![s].finReceived = @ \/ f.fin]
            /\ error' = TRUE
            /\ UNCHANGED locallyClosed
       ELSE /\ IF ~i.blocked /\ passUp
               THEN OnDataAvailable(r, s, i, growStream, growConn)
               ELSE /\ rcv' = r
                    /\ in' = [in EXCEPT ![s] = i]
                    /\ UNCHANGED locallyClosed
            /\ UNCHANGED error

\* QuicSession::OnStreamFrame.
OnStreamFrame(f, growStream, growConn) ==
    /\ f.type = "STREAM"
    /\ IF in[f.id].open THEN StreamOnStreamFrame(f, growStream, growConn)
       ELSE f.fin /\ OnFinalByteOffsetReceived(f.id, f.offset + f.len, growConn)
    /\ toSender' = toSender \cup SendWindowUpdates
    /\ UNCHANGED <<sender, toReceiver>>

\* QuicSession::OnRstStream.
OnRstStream(f, grow) ==
    /\ f.type = "RST"
    /\ IF in[f.id].open
       THEN /\ CloseReceiving(MaybeIncreaseHighest(rcv, f.id, f.offset), f.id,
                              [in[f.id] EXCEPT !.rstReceived = TRUE], grow)
            /\ UNCHANGED error
       ELSE OnFinalByteOffsetReceived(f.id, f.offset, grow)
    /\ toSender' = toSender \cup SendWindowUpdates
    /\ UNCHANGED <<sender, toReceiver>>

\* The response headers arrive on the headers stream: ConsumeHeaderList
\* unblocks the sequencer, which passes up what is there.
OnHeaders(s, growStream, growConn) ==
    /\ in[s].open /\ in[s].blocked
    /\ LET i == [in[s] EXCEPT !.blocked = FALSE]
       IN OnDataAvailable(rcv, s, i, growStream, growConn)
    /\ toSender' = toSender \cup SendWindowUpdates
    /\ UNCHANGED <<sender, toReceiver, error>>

\* QuicStream::Reset by the receiving application.
ReceiverReset(s, grow) ==
    /\ in[s].open
    /\ CloseReceiving(rcv, s, in[s], grow)
    /\ toSender' = toSender \cup SendWindowUpdates
                        \cup {[type |-> "RST", id |-> s, offset |-> 0]}
    /\ UNCHANGED <<sender, toReceiver, error>>

-----------------------------------------------------------------------------
Grow == IF AutoTune THEN BOOLEAN ELSE {FALSE}

Deliver(f) ==
    \/ \E gs, gc \in Grow : OnStreamFrame(f, gs, gc)
    \/ \E grow \in Grow : OnRstStream(f, grow)

DeliverHeaders(s) == \E gs, gc \in Grow : OnHeaders(s, gs, gc)

ReceiverStep ==
    \/ \E f \in toReceiver : Deliver(f)
    \/ \E s \in Streams : \/ DeliverHeaders(s)
                          \/ \E grow \in Grow : ReceiverReset(s, grow)

DeliverToSender(u) == OnWindowUpdateFrame(u) \/ SenderOnRstStream(u)

SenderStep ==
    \/ \E s \in Streams :
        \/ \E n \in 0..Length, fin \in BOOLEAN : WriteOrBufferData(s, n, fin)
        \/ OnCanWrite(s)
        \/ SenderReset(s)
    \/ PostProcessAfterData
    \/ \E u \in toSender : DeliverToSender(u)

Next == ~error /\ (SenderStep \/ ReceiverStep)

Spec == Init /\ [][Next]_vars

\* A turn of s in OnCanWrite would write something.
CanProgress(s) == HasBufferedData(s) /\ out[s].open /\ ~IsBlocked(snd[s])

\* Lost frames are retransmitted until they are acknowledged, and response
\* headers too.  A listed stream is given its turns, and the connection does
\* not refuse to write on every one of them: congestion control reopens.
Fairness ==
    /\ WF_vars(~error /\ \E f \in toReceiver : Deliver(f))
    /\ WF_vars(~error /\ \E u \in toSender : DeliverToSender(u))
    /\ \A s \in Streams :
        /\ WF_vars(~error /\ DeliverHeaders(s))
        /\ WF_vars(~error /\ OnCanWrite(s) /\ (CanProgress(s) => out' # out))

FairSpec == Spec /\ Fairness

-----------------------------------------------------------------------------
\* The peer is never sent more than it accepts, at either level, whatever
\* arrives late, twice or out of order: the CloseConnection calls of
\* QuicStream::OnStreamFrame, AddBytesSent and OnFinalByteOffsetReceived are
\* never reached between two correct endpoints.
NoFlowControlViolation ==
    /\ ~error
    /\ \A i \in Ids : ~FlowControlViolation(rcv[i])

\* The credit a receiver has given out, at each level, is at most its window
\* ahead of what it has consumed, and the sender never believes to have more
\* credit than was given: the bound on what the receiver has to buffer.
CreditBounded ==
    \A i \in Ids :
        /\ snd[i].sent <= snd[i].offset
        /\ snd[i].offset <= rcv[i].offset
        /\ rcv[i].offset <= rcv[i].consumed + rcv[i].size

\* The bytes of a stream that the connection must have consumed: all that
\* were sent once the stream is closed and its final offset known, all that
\* had arrived when it was closed before, and until then those read.
AccountedBytes(s) ==
    IF in[s].open THEN rcv[s].consumed
    ELSE IF locallyClosed[s] # NoOffset THEN locallyClosed[s]
    ELSE snd[s].sent

\* The connection level accounts of the two endpoints agree: the connection
\* has consumed exactly the accounted bytes of its streams, so that every
\* byte of a closed stream whose final offset is known has been given back.
AccountsAgree ==
    /\ rcv[Conn].consumed = SumFunction([s \in Streams |-> AccountedBytes(s)])
    /\ snd[Conn].sent = SumFunction([s \in Streams |-> snd[s].sent])

\* A stream with something left to send is on the write blocked list, or
\* stalls at its own window, whose next WINDOW_UPDATE makes it write: no
\* wakeup is lost between the two levels and the list.
NoLostWakeup ==
    \A s \in Streams :
        out[s].open /\ HasBufferedData(s)
            => s \in writeBlocked \/ IsBlocked(snd[s])

\* Credit is never taken back, though WINDOW_UPDATE frames are reordered.
CreditNeverShrinks ==
    [][\A i \in Ids : /\ snd'[i].offset >= snd[i].offset
                      /\ rcv'[i].offset >= rcv[i].offset]_vars

\* Whatever an application has written is sent, or its stream is closed:
\* flow control never stalls a stream for good.
WritesAreSent ==
    \A s \in Streams :
        HasBufferedData(s) ~> ~(HasBufferedData(s) /\ out[s].open)

\* The window of the connection is at least one and a half times that of
\* each of its streams once auto-tuning has grown the latter, which is what
\* MaybeIncreaseMaxWindowSize asks EnsureWindowAtLeast for.
SessionWindowFollows ==
    \A s \in Streams : rcv[s].size > StreamWindow
                        => rcv[Conn].size >= (3 * rcv[s].size) \div 2
=============================================================================
