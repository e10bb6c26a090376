-------------------------- MODULE MCCircularBuffer --------------------------
(***************************************************************************)
(* A ring of four bytes for TLC.  Blocks and amounts go beyond what it     *)
(* holds.                                                                  *)
(***************************************************************************)
EXTENDS CircularBuffer

MCByte == {0, 1}
MCBlocks == {<< >>, <<1>>, <<1, 0>>, <<0, 1, 1>>, <<1, 1, 0, 1>>, <<0, 1, 0, 0, 1>>}
MCAmounts == 0 .. 5
=============================================================================
