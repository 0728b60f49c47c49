------------------------------- MODULE MCFifo -------------------------------
(***************************************************************************)
(* Fifo with four slots (three usable) and three byte values: every fill   *)
(* level, every wrap position, and enough values to notice a byte out of   *)
(* place.                                                                  *)
(***************************************************************************)
EXTENDS Fifo

MCBytes == 0 .. 2
MCEof == -1
=============================================================================
