---------------------------- MODULE MCEventLoop -----------------------------
(***************************************************************************)
(* EventLoop on both kinds of board, with one ordinary character and enter.*)
(***************************************************************************)
EXTENDS EventLoop
MCBytes == {"key", "enter"}
MCBoards == {"cortex-m", "pcie"}
=============================================================================
