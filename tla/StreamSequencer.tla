-------------------------- MODULE StreamSequencer --------------------------
(***************************************************************************)
(* QuicStreamSequencer on top of its buffer, with the stream that reads    *)
(* from it: frames arrive in any order and more than once, the sequencer   *)
(* is blocked until the headers have come, and the stream may stop reading *)
(* and discard the rest.  OnDataAvailable is that of the client and server *)
(* streams: it reads region after region until nothing is readable.        *)
(***************************************************************************)
EXTENDS QuicStreamSequencerBuffer

CONSTANTS
    Length,     \* bytes of the stream
    Frames,     \* frames a peer may send, [offset, length]; the last has the FIN
    Cut,        \* the frames it cut its stream into and retransmits
    NoOffset    \* close_offset_ not set

ASSUME FramesAssumption ==
    /\ Length \in Nat
    /\ \A f \in Frames : f.offset + f.length <= Length
    /\ Cut \subseteq Frames

VARIABLES
    buffer,       \* buffered_frames_
    blocked,      \* blocked_
    ignoring,     \* ignore_read_data_
    close,        \* close_offset_
    finRead,      \* OnFinRead was called: the read side is closed
    app,          \* the bytes the stream has read, in order
    error         \* the connection was closed for an invalid frame

vars == <<buffer, blocked, ignoring, close, finRead, app, error>>

TypeOK ==
    /\ buffer \in Buffers
    /\ blocked \in BOOLEAN /\ ignoring \in BOOLEAN
    /\ close \in {NoOffset, Length}
    /\ finRead \in BOOLEAN
    /\ app \in Seq(Bytes)
    /\ error \in BOOLEAN

Init ==
    /\ buffer = NewBuffer
    /\ blocked = TRUE
    /\ ignoring = FALSE
    /\ close = NoOffset
    /\ finRead = FALSE
    /\ app = <<>>
    /\ error = FALSE

\* Mutant: the stream only ends once more than all of it was read.
IsClosedBeyond(b, c) == c # NoOffset /\ b.read > c

IsClosed(b, c) == c # NoOffset /\ b.read >= c

\* The readable bytes, as the stream sees them.
Contents(b) == [i \in 1..ReadableBytes(b) |-> ByteAt(b, b.read + i - 1)]

\* OnDataAvailable, with the buffer b and close offset c; OnFinRead ends in
\* CloseReadSide, which releases the buffer.
OnDataAvailable(b, c) ==
    LET all == MarkConsumed(b, ReadableBytes(b))
    IN /\ app' = app \o Contents(b)
       /\ finRead' = IsClosed(all, c)
       /\ buffer' = IF IsClosed(all, c) THEN Clear(all) ELSE all

\* FlushBufferedFrames with the MaybeCloseStream it ends with.
Flush(b, c, isBlocked) ==
    LET all == FlushBufferedFrames(b)
    IN /\ buffer' = all
       /\ finRead' = (IsClosed(all, c) /\ ~isBlocked)
       /\ UNCHANGED app

\* Data that starts where the reader stands makes something readable.
PassUp(b, f) == f.offset = b.read

\* QuicStreamSequencer::OnStreamFrame.
OnStreamFrame(f) ==
    LET fin == f.offset + f.length = Length
        c == IF fin THEN Length ELSE close
        result == OnStreamDataResult(buffer, f.offset, f.length)
        written == Write(buffer, f.offset, f.length)
    IN /\ ~finRead /\ ~error
       /\ close' = c
       /\ UNCHANGED <<blocked, ignoring>>
       /\ \/ /\ fin /\ ~blocked /\ IsClosed(buffer, c)
             /\ finRead' = TRUE
             /\ buffer' = Clear(buffer)
             /\ UNCHANGED <<app, error>>
          \/ /\ ~(fin /\ ~blocked /\ IsClosed(buffer, c))
             /\ \/ /\ f.length = 0 \/ result = "DUPLICATE"
                   /\ UNCHANGED <<buffer, finRead, app, error>>
                \/ /\ f.length > 0 /\ result \notin {"DUPLICATE", "WRITTEN"}
                   /\ error' = TRUE
                   /\ UNCHANGED <<buffer, finRead, app>>
                \/ /\ f.length > 0 /\ result = "WRITTEN"
                   /\ IF blocked \/ ~PassUp(buffer, f)
                      THEN buffer' = written /\ UNCHANGED <<finRead, app>>
                      ELSE IF ignoring THEN Flush(written, c, blocked)
                      ELSE OnDataAvailable(written, c)
                   /\ UNCHANGED error

\* The headers are consumed: SetUnblocked.
SetUnblocked ==
    /\ blocked /\ ~finRead /\ ~error
    /\ blocked' = FALSE
    /\ OnDataAvailable(buffer, close)
    /\ UNCHANGED <<ignoring, close, error>>

StopReading ==
    /\ ~ignoring /\ ~finRead /\ ~error
    /\ ignoring' = TRUE
    /\ Flush(buffer, close, blocked)
    /\ UNCHANGED <<blocked, close, error>>

Next == SetUnblocked \/ StopReading \/ \E f \in Frames : OnStreamFrame(f)

Spec == Init /\ [][Next]_vars

\* Frames are retransmitted until acknowledged, headers too: each arrives.
\* (One that arrives again changes nothing, so nothing is asked of it then.)
\* Nothing is asked of frames that do not belong to the cut.
FairSpec == Spec /\ WF_vars(SetUnblocked)
                 /\ \A f \in Cut : WF_vars(OnStreamFrame(f))

-----------------------------------------------------------------------------
Missing(b) == UNION {b.gaps[i].begin..(b.gaps[i].end - 1) : i \in DOMAIN b.gaps}

\* The offsets that were received and not read.
Unread(b) == (b.read..(Last(b.gaps).begin - 1)) \ Missing(b)

\* Every byte received and not yet read is still stored, unchanged, though
\* the buffer wraps around, blocks are shared by its two ends and blocks are
\* retired while frames are missing; and a block is held only while it has
\* such a byte.
BlocksHoldUnread ==
    /\ \A o \in Unread(buffer) :
          /\ buffer.blocks[GetBlockIndex(o)] # NoBlock
          /\ ByteAt(buffer, o) = o
    /\ \A k \in DOMAIN buffer.blocks : buffer.blocks[k] # NoBlock =>
          \E o \in Unread(buffer) : GetBlockIndex(o) = k

\* The three records of what is buffered agree: the gap list is ordered and
\* its gaps apart, the byte count is that of the bytes outside the gaps, and
\* the frame map covers exactly those bytes, all of them within their types.
GapsAndCountsAgree ==
    /\ TypeOK
    /\ \A i \in DOMAIN buffer.gaps :
          /\ buffer.gaps[i].begin < buffer.gaps[i].end
          /\ i < Len(buffer.gaps) => buffer.gaps[i].end < buffer.gaps[i + 1].begin
    /\ Last(buffer.gaps).end = Infinity
    /\ buffer.read <= Head(buffer.gaps).begin
    /\ buffer.buffered = Cardinality(Unread(buffer))
    /\ UNION {f.offset..(f.offset + f.length - 1) : f \in buffer.frames}
            = Unread(buffer)

\* A frame is never a reason to close the connection if all of its bytes are
\* missing, it lies within max_buffer_capacity_bytes_ of the reader and there
\* is room for another gap, whatever gaps the buffer has and wherever it wraps.
FittingFramesKept ==
    \A f \in Frames :
        (/\ ~finRead /\ ~error /\ f.length > 0
         /\ f.offset..(f.offset + f.length - 1) \subseteq Missing(buffer)
         /\ f.offset + f.length <= buffer.read + Capacity
         /\ Len(buffer.gaps) < MaxGaps)
            => OnStreamDataResult(buffer, f.offset, f.length) = "WRITTEN"

\* The stream reads the bytes of the peer, each once and in order.
ReadInOrder == ~ignoring => app = [i \in 1..buffer.read |-> i - 1]

\* After StopReading the stream is given no more data: the sequencer is to
\* "discard all incoming data itself and not call OnDataAvailable".
StopReadingDiscards == [][ignoring => app' = app]_vars

\* Each stream ends: once every frame and the headers have arrived the FIN
\* is read, whether the stream still reads or discards, unless a frame closed
\* the connection.
FinIsRead == <>(finRead \/ error)
=============================================================================
