--------------------------- MODULE MCFlowControl ---------------------------
EXTENDS FlowControl, TLC

StreamSymmetry == Permutations(Streams)
=============================================================================
