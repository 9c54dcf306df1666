------------------------- MODULE QuicFlowController -------------------------
(***************************************************************************)
(* QuicFlowController of model/net/quic/core/quic_flow_controller.cc as    *)
(* operators on its state.  One controller object limits both directions   *)
(* of a stream or of the connection and no method touches both halves, so  *)
(* the state is two records: what its owner may send and what it accepts.  *)
(*                                                                         *)
(* The clock of MaybeIncreaseMaxWindowSize is abstracted to the outcome of *)
(* its comparison: grow says that the last update was less than two round  *)
(* trips ago, so that the window is doubled.                               *)
(***************************************************************************)
EXTENDS Integers

Least(a, b) == IF a <= b THEN a ELSE b

SendSide == [sent : Nat, offset : Nat, lastBlocked : Nat]

ReceiveSide == [consumed : Nat, highest : Nat, offset : Nat, size : Nat]

NewSendSide(window) == [sent |-> 0, offset |-> window, lastBlocked |-> 0]

NewReceiveSide(window) ==
    [consumed |-> 0, highest |-> 0, offset |-> window, size |-> window]

-----------------------------------------------------------------------------
\* Sending.

SendWindowSize(c) == IF c.sent > c.offset THEN 0 ELSE c.offset - c.sent

IsBlocked(c) == SendWindowSize(c) = 0

\* Past the window the code also closes the connection; see SentTooMuch.
AddBytesSent(c, bytes) ==
    [c EXCEPT !.sent = IF @ + bytes > c.offset THEN c.offset ELSE @ + bytes]

SentTooMuch(c, bytes) == c.sent + bytes > c.offset

\* A BLOCKED frame is due: once for each offset at which the sender stalls.
BlockedIsDue(c) == IsBlocked(c) /\ c.lastBlocked < c.offset

MaybeSendBlocked(c) ==
    IF BlockedIsDue(c) THEN [c EXCEPT !.lastBlocked = c.offset] ELSE c

\* Mutant: a reordered, older WINDOW_UPDATE takes credit back.
TakeAnySendWindowOffset(c, offset) == [c EXCEPT !.offset = offset]

UpdateSendWindowOffset(c, offset) ==
    IF offset <= c.offset THEN c ELSE [c EXCEPT !.offset = offset]

\* The result of UpdateSendWindowOffset: the update unblocked the sender.
Unblocks(c, offset) == offset > c.offset /\ IsBlocked(c)

-----------------------------------------------------------------------------
\* Receiving.

UpdateHighestReceivedOffset(c, offset) ==
    IF offset <= c.highest THEN c ELSE [c EXCEPT !.highest = offset]

FlowControlViolation(c) == c.highest > c.offset

IncreaseWindowSize(c, limit) == [c EXCEPT !.size = Least(2 * @, limit)]

WindowUpdateThreshold(c) == c.size \div 2

UpdateReceiveWindowOffset(c, available) ==
    [c EXCEPT !.offset = @ + (c.size - available)]

\* When the last update is recent; a session window is grown along with that
\* of a stream by EnsureWindowAtLeast below.
MaybeIncreaseMaxWindowSize(c, grow, limit) ==
    IF grow THEN IncreaseWindowSize(c, limit) ELSE c

\* Mutant: bytes that arrived are taken for bytes that were read.
MaybeSendWindowUpdateForgetsUnread(c, grow, limit) ==
    LET available == c.offset - c.highest
    IN IF available >= WindowUpdateThreshold(c) THEN c
       ELSE UpdateReceiveWindowOffset(MaybeIncreaseMaxWindowSize(c, grow, limit),
                                      available)

\* A WINDOW_UPDATE frame is sent exactly when offset moves.
MaybeSendWindowUpdate(c, grow, limit) ==
    LET available == c.offset - c.consumed
    IN IF available >= WindowUpdateThreshold(c) THEN c
       ELSE UpdateReceiveWindowOffset(MaybeIncreaseMaxWindowSize(c, grow, limit),
                                      available)

AddBytesConsumed(c, bytes, grow, limit) ==
    MaybeSendWindowUpdate([c EXCEPT !.consumed = @ + bytes], grow, limit)

\* The first comparison is with the limit of the window, as in the code.
EnsureWindowAtLeast(c, window, limit) ==
    IF limit >= window THEN c
    ELSE UpdateReceiveWindowOffset(IncreaseWindowSize(c, limit),
                                   c.offset - c.consumed)
=============================================================================
