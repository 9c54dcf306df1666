------------------------- MODULE MCStreamSequencer -------------------------
EXTENDS StreamSequencer

\* One cut of a stream of ten bytes, with the FIN alone in a last frame.
CutFrames == {[offset |-> 0, length |-> 2], [offset |-> 2, length |-> 3],
              [offset |-> 5, length |-> 2], [offset |-> 7, length |-> 3],
              [offset |-> 10, length |-> 0]}

\* Every frame of one to three bytes, and the FIN alone.
AllFrames ==
    {f \in [offset : 0..Length, length : 0..3] :
        f.offset + f.length <= Length /\ (f.length = 0 => f.offset = Length)}
=============================================================================
