-------------------------------- MODULE Rtos --------------------------------
(***************************************************************************)
(* The FreeRTOS build on bare metal, composed: main initialises the PCI    *)
(* devices and creates the tasks; the command line task (CliTask) has the  *)
(* lowest priority and executes a command with the character that          *)
(* completes it; the PCI task (PciTask) preempts it; the UART and the MSI  *)
(* handler interrupt both.                                                 *)
(***************************************************************************)
EXTENDS CliTask, PciTask

RtosInit == Init /\ PciInit

\* A character that completes no command of the PCI menu leaves the PCI task alone.
Command == PciCommand(popped') \/ (popped' \notin {"start", "stop", "test"} /\ UNCHANGED pciVars)

CliStep == /\ CliMayRun /\ ~starting
           /\ \/ (LoopTake \/ Leave \/ StdinReady \/ StdinWait) /\ UNCHANGED pciVars
              \/ GetChar /\ Command

UartStep == phase = "up" /\ (\E c \in Bytes : UartIrq(c)) /\ UNCHANGED pciVars

\* What the scheduler may run.
Work == CliStep \/ ((PciStarted \/ PciStep) /\ UNCHANGED vars)

RtosNext == UartStep \/ Work \/ (MsiIrq /\ UNCHANGED vars)

RtosSpec == RtosInit /\ [][RtosNext]_<<vars, pciVars>>

\* The processor does not rest while a task is ready; waits with a timeout end.
RtosFairSpec == RtosSpec /\ WF_<<vars, pciVars>>(Work)
=============================================================================
