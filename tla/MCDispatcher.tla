---------------------------- MODULE MCDispatcher ----------------------------
(***************************************************************************)
(* Dispatcher for TLC.  Connection ids are only compared for equality, and *)
(* every list of them is ordered by insertion, so that they are            *)
(* interchangeable.                                                        *)
(***************************************************************************)
EXTENDS Dispatcher, TLC

ConnSymmetry == Permutations(Conns)
=============================================================================
