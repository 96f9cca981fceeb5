---------------------------- MODULE MCPeerMatch ----------------------------
(***************************************************************************)
(* Instances of PeerMatch for TLC: a 2 x 2 board, the smallest on which a  *)
(* cell can be walled in, with the thief in a corner, and barriers on the  *)
(* two cells next to it or off the board.                                  *)
(***************************************************************************)
EXTENDS PeerOutcome, TLC

MCStart == <<0, 0>>
MCBarrierCells == {<<0, 1>>, <<1, 0>>, <<2, 2>>}
MCOneBarrierCell == {<<0, 1>>}
WorkerSymmetry == Permutations(Workers)

=============================================================================
