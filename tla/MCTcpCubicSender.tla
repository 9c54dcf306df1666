-------------------------- MODULE MCTcpCubicSender --------------------------
(* Values for the instance of TcpCubicSender.  Windows and estimates are in   *)
(* bytes, with a segment of two bytes and packets of one.                     *)
EXTENDS TcpCubicSender

OneByte == {1}
FourPackets == {4}
ThreeStreams == {3}
CurveWindow == {7}
SmallEstimate == {3}

\* A cubic sender that makes large reductions down to one segment, and a Reno
\* sender with the other options.
BothSenders ==
    {{"SSLR", "MIN1"}, {"RENO", "NCON", "IW", "MIN4", "BWRE", "NPRR", "NRTO"}}

Everything == {"timer", "block", "migrate"}
=============================================================================
