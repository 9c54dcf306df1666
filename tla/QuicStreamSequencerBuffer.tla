--------------------- MODULE QuicStreamSequencerBuffer ---------------------
(***************************************************************************)
(* The circular receive buffer of a stream, as operators on its state: the *)
(* list of gaps, the blocks that hold the bytes (allocated when written,   *)
(* retired when read) and the map of frames that are not read yet.  The    *)
(* byte at offset o of the stream is the number o.                         *)
(***************************************************************************)
EXTENDS Integers, Sequences, SequencesExt, FiniteSets

CONSTANTS
    Capacity,     \* max_buffer_capacity_bytes_
    BlockSize,    \* kBlockSizeBytes
    MaxGaps,      \* kMaxNumGapsAllowed
    Infinity,     \* the largest offset
    NoBlock,      \* a block that is not allocated
    Garbage       \* a byte of a new block that nothing was written to

BlocksCount == (Capacity + BlockSize - 1) \div BlockSize

ASSUME BufferAssumption ==
    /\ {Capacity, BlockSize, MaxGaps, Infinity} \subseteq Nat \ {0}
    /\ BlocksCount > 1
    /\ Garbage \notin Nat

Bytes == (0..Infinity) \cup {Garbage}
Blocks == [0..(BlockSize - 1) -> Bytes]
Gap(begin, end) == [begin |-> begin, end |-> end]
FrameInfo(offset, length) == [offset |-> offset, length |-> length]

Buffers ==
    [read : Nat,                    \* total_bytes_read_
     gaps : Seq([begin : Nat, end : Nat]),
     buffered : Nat,                \* num_bytes_buffered_
     blocks : [0..(BlocksCount - 1) -> Blocks \cup {NoBlock}],
     frames : SUBSET [offset : Nat, length : Nat]]  \* frame_arrival_time_map_

Cleared(read) ==
    [read |-> read, gaps |-> <<Gap(read, Infinity)>>, buffered |-> 0,
     blocks |-> [k \in 0..(BlocksCount - 1) |-> NoBlock], frames |-> {}]

NewBuffer == Cleared(0)

Clear(b) == Cleared(b.read)

GetBlockIndex(offset) == (offset % Capacity) \div BlockSize

\* Mutant: the offset is not reduced to the buffer first.
GetInBlockOffsetUnwrapped(offset) == offset % BlockSize

GetInBlockOffset(offset) == (offset % Capacity) % BlockSize

GetBlockCapacity(k) ==
    IF k + 1 = BlocksCount /\ Capacity % BlockSize # 0
    THEN Capacity % BlockSize ELSE BlockSize

ReadableBytes(b) == Head(b.gaps).begin - b.read
Empty(b) == Len(b.gaps) = 1 /\ Head(b.gaps).begin = b.read

\* The byte at an offset, as the buffer stores it.
ByteAt(b, offset) == b.blocks[GetBlockIndex(offset)][GetInBlockOffset(offset)]

-----------------------------------------------------------------------------
\* Writing.

\* The first gap not ending before offset.
CurrentGap(b, offset) ==
    CHOOSE i \in DOMAIN b.gaps :
        /\ b.gaps[i].end > offset
        /\ \A j \in 1..(i - 1) : b.gaps[j].end <= offset

\* Mutant: the last byte of the buffer is out of range.
OnStreamDataResultOffByOne(b, offset, size) ==
    LET gap == b.gaps[CurrentGap(b, offset)]
        end == offset + size
    IN IF end <= gap.begin THEN "DUPLICATE"
       ELSE IF offset < gap.begin \/ end > gap.end THEN "OVERLAPPING"
       ELSE IF end >= b.read + Capacity THEN "BEYOND_RANGE"
       ELSE IF gap.begin # offset /\ gap.end # end /\ Len(b.gaps) >= MaxGaps
            THEN "TOO_MANY_GAPS"
       ELSE "WRITTEN"

\* What OnStreamData makes of size bytes at offset.
OnStreamDataResult(b, offset, size) ==
    LET gap == b.gaps[CurrentGap(b, offset)]
        end == offset + size
    IN IF end <= gap.begin THEN "DUPLICATE"
       ELSE IF offset < gap.begin \/ end > gap.end THEN "OVERLAPPING"
       ELSE IF end > b.read + Capacity THEN "BEYOND_RANGE"
       ELSE IF gap.begin # offset /\ gap.end # end /\ Len(b.gaps) >= MaxGaps
            THEN "TOO_MANY_GAPS"
       ELSE "WRITTEN"

\* What is left of the gap before and after the bytes written replaces it.
UpdateGapList(gaps, i, start, end) ==
    LET gap == gaps[i]
        rest == (IF gap.begin < start THEN <<Gap(gap.begin, start)>> ELSE <<>>)
                \o (IF end < gap.end THEN <<Gap(end, gap.end)>> ELSE <<>>)
    IN SubSeq(gaps, 1, i - 1) \o rest \o SubSeq(gaps, i + 1, Len(gaps))

\* The blocks after the bytes start..end-1 are copied into them.
CopyIn(blocks, start, end) ==
    [k \in DOMAIN blocks |->
        LET here == {o \in start..(end - 1) : GetBlockIndex(o) = k}
            old == IF blocks[k] = NoBlock
                   THEN [p \in 0..(BlockSize - 1) |-> Garbage] ELSE blocks[k]
        IN IF here = {} THEN blocks[k]
           ELSE [p \in 0..(BlockSize - 1) |->
                    IF \E o \in here : GetInBlockOffset(o) = p
                    THEN CHOOSE o \in here : GetInBlockOffset(o) = p
                    ELSE old[p]]]

\* OnStreamData when the bytes are written.
Write(b, offset, size) ==
    [b EXCEPT !.gaps = UpdateGapList(@, CurrentGap(b, offset), offset, offset + size),
              !.blocks = CopyIn(@, offset, offset + size),
              !.buffered = @ + size,
              !.frames = @ \cup {FrameInfo(offset, size)}]

-----------------------------------------------------------------------------
\* Reading.

\* The block of a byte is looked at when that byte is its last, or the last
\* before a gap.
EndsBlock(b, o) ==
    \/ o + 1 = Head(b.gaps).begin
    \/ GetInBlockOffset(o) + 1 = GetBlockCapacity(GetBlockIndex(o))

\* Mutant: the block into which the end of the buffer has wrapped is retired.
RetireBlockIfEmptyWrapped(b, o) ==
    LET k == GetBlockIndex(o)
        gapEndsHere == /\ GetBlockIndex(o + 1) = k
                       /\ GetBlockIndex(Head(b.gaps).end) = k
    IN EndsBlock(b, o) /\ ~gapEndsHere

\* RetireBlockIfEmpty retires the block of o, which is the byte just read:
\* the buffer is empty, or neither has its end wrapped around into the block
\* nor does the gap that the reader has met end inside it.
RetireBlockIfEmpty(b, o) ==
    LET k == GetBlockIndex(o)
        wrapped == GetBlockIndex(Last(b.gaps).begin - 1) = k
        gapEndsHere == /\ GetBlockIndex(o + 1) = k
                       /\ GetBlockIndex(Head(b.gaps).end) = k
    IN /\ EndsBlock(b, o)
       /\ Empty([b EXCEPT !.read = o + 1]) \/ ~(wrapped \/ gapEndsHere)

\* Frames that are read are dropped and one read in part is shortened.
UpdateFrameArrivalMap(frames, read) ==
    LET passed == {f \in frames : f.offset <= read}
    IN (frames \ passed) \cup {FrameInfo(read, f.offset + f.length - read) :
                                f \in {g \in passed : g.offset + g.length > read}}

\* Mutant: the frame map is not brought up to date.
MarkConsumedKeepsFrames(b, n) ==
    [b EXCEPT !.read = @ + n,
              !.buffered = @ - n,
              !.blocks = [k \in DOMAIN @ |->
                    IF \E o \in b.read..(b.read + n - 1) :
                            GetBlockIndex(o) = k /\ RetireBlockIfEmpty(b, o)
                    THEN NoBlock ELSE @[k]]]

\* Readv and MarkConsumed of n readable bytes, in one call or one for each
\* region that GetReadableRegions returns: a region ends where a block does.
MarkConsumed(b, n) ==
    [b EXCEPT !.read = @ + n,
              !.buffered = @ - n,
              !.blocks = [k \in DOMAIN @ |->
                    IF \E o \in b.read..(b.read + n - 1) :
                            GetBlockIndex(o) = k /\ RetireBlockIfEmpty(b, o)
                    THEN NoBlock ELSE @[k]],
              !.frames = UpdateFrameArrivalMap(@, b.read + n)]

FlushBufferedFrames(b) == Cleared(Last(b.gaps).begin)
=============================================================================
