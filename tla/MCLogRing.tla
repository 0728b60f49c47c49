----------------------------- MODULE MCLogRing ------------------------------
(***************************************************************************)
(* Instances of LogRing: the command line task reads, two tasks of equal   *)
(* priority and an interrupt handler log.                                  *)
(***************************************************************************)
EXTENDS LogRing, TLC
CONSTANTS cli, ctrl, pci, isr

MCPrio == (cli :> 1) @@ (ctrl :> 2) @@ (pci :> 2) @@ (isr :> 3)
MCPriority == [t \in Threads |-> MCPrio[t]]
S46 == {4, 6}
=============================================================================
