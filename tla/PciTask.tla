------------------------------- MODULE PciTask ------------------------------
(***************************************************************************)
(* The PCI task of the FreeRTOS build (port/freertos_pci.c), the MSI test  *)
(* it runs (drivers/pci/pci_test.c), the MSI handler of the port and the   *)
(* commands that start, suspend and test it, once PciScan has set the      *)
(* devices up.  One task notification carries the requests for a test      *)
(* (EVT_PCI_TEST) and the vectors that fired (BIT(index)).                 *)
(*                                                                         *)
(* A notification is pending between its arrival and the call of           *)
(* xTaskNotifyWait that returns it; its bits outlive a call that does not  *)
(* clear them.  Time is abstracted: an MSI may take any time, and a wait   *)
(* of 40 ticks may end whenever nothing is pending.                        *)
(***************************************************************************)
EXTENDS PciScan

VARIABLES task,             \* where the PCI task stands
          dormant,          \* the kernel has suspended it
          PCI_SUSPENDED,    \* the bit of suspended
          starting,         \* the command line is inside pci_start
          pending, bits,    \* the task's notification
          count, baseline,  \* pcie_msi_stats, and the test's copy of count[0]
          got,              \* the wait of the test returned with vector 0
          own, late,        \* MSIs on their way: of this test's trigger, of earlier ones
          cut,              \* the wait of the test was suspended
          verdict,
          mine, strays,     \* history: what arrived from the copy of count[0] to the
                            \* judgement, this test's MSI and how many of earlier tests
          disturbed         \* history: this test met a timeout, a request, a suspension
                            \* or an MSI of an earlier test

testVars == <<pending, bits, count, baseline, got, own, late, cut, verdict, mine, strays, disturbed>>
pciVars == <<scanVars, task, dormant, PCI_SUSPENDED, starting, testVars>>

PciInit ==
    /\ ScanInit
    /\ task = "boot" /\ dormant = FALSE /\ PCI_SUSPENDED = FALSE /\ starting = FALSE
    /\ pending = FALSE /\ bits = {}
    /\ count = [v \in 0 .. MaxPciMsi - 1 |-> 0] /\ baseline = 0
    /\ got = FALSE /\ own = FALSE /\ late = 0 /\ cut = FALSE
    /\ verdict = "none" /\ mine = FALSE /\ strays = 0 /\ disturbed = FALSE

\* The number of the bit; those of the vectors begin at 0.
EVT_PCI_TEST == 10

Testing == task \in {"clear", "discard", "trigger", "wait", "judge"}
Vfio == {device_info[i] : i \in FindById("vfio")}

\* The bridges between a bus and bus 0: the one in front of it, those in front of them.
Upstream(bus) ==
    LET above(b) == IF b > 0 THEN Parent(b) ELSE {}
        Closes(s) == above(bus) \subseteq s /\ \A j \in s : above(bridge_info[j].at[1]) \subseteq s
    IN  {i \in DOMAIN bridge_info : \A s \in SUBSET DOMAIN bridge_info : Closes(s) => i \in s}

\* A bridge passes accesses down to its window and, as a master, writes up.
PassesDown(bridge, addresses) ==
    /\ "memory" \in RegistersOf(bridge).cmd
    /\ \E w \in RegistersOf(bridge).window : addresses \subseteq w.base .. w.limit
MayWrite(dev) ==
    /\ "master" \in RegistersOf(dev).cmd
    /\ \A i \in Upstream(dev.at[1]) : "master" \in RegistersOf(bridge_info[i]).cmd

\* The device claims these addresses, and all bridges in front of it forward them.
Routed(dev, b, addresses) ==
    /\ "memory" \in RegistersOf(dev).cmd
    /\ addresses \subseteq Decoded(dev, b) .. Decoded(dev, b) + dev.bar_size[b] - 1
    /\ dev.at[1] > 0 => Upstream(dev.at[1]) # {}
    /\ \A i \in Upstream(dev.at[1]) : PassesDown(bridge_info[i], addresses)

-----------------------------------------------------------------------------
(* The handler, and the commands *)

\* Mutant: the vector overwrites the bits.
NotifiedAlone(bit) == bits' = {bit} /\ pending' = TRUE

\* xTaskNotify with eSetBits
Notified(bit) == bits' = bits \cup {bit} /\ pending' = TRUE

\* pcie_msi_vector_handler
MsiIrq ==
    /\ \/ own /\ own' = FALSE /\ mine' = (mine \/ Testing) /\ UNCHANGED <<late, strays>>
       \/ /\ late > 0 /\ late' = late - 1
          /\ strays' = IF Testing THEN strays + 1 ELSE strays
          /\ UNCHANGED <<own, mine>>
    /\ \E dev \in Vfio : \E v \in config[dev.at].msi :
          count' = [count EXCEPT ![v] = @ + 1] /\ Notified(v)
    /\ UNCHANGED <<scanVars, task, dormant, PCI_SUSPENDED, starting,
                   baseline, got, cut, verdict, disturbed>>

\* The command line has a lower priority than the PCI task.
CliMayRun == /\ phase = "up" /\ task # "boot"
             /\ dormant \/ (task \in {"loop", "wait"} /\ ~pending /\ ~cut)

\* pci_start resumes the task, which preempts the command line before it clears the flag.
PciStart ==
    /\ PCI_SUSPENDED
    /\ dormant' = FALSE /\ starting' = TRUE
    /\ UNCHANGED <<scanVars, task, PCI_SUSPENDED, testVars>>

PciStarted ==
    /\ starting /\ CliMayRun
    /\ starting' = FALSE /\ PCI_SUSPENDED' = FALSE
    /\ UNCHANGED <<scanVars, task, dormant, testVars>>

PciSuspend ==
    /\ ~PCI_SUSPENDED
    /\ dormant' = TRUE /\ PCI_SUSPENDED' = TRUE
    /\ cut' = (task = "wait") /\ disturbed' = (disturbed \/ Testing)
    /\ UNCHANGED <<scanVars, task, starting, pending, bits, count, baseline, got,
                   own, late, verdict, mine, strays>>

PciTestStart ==
    /\ Notified(EVT_PCI_TEST) /\ disturbed' = (disturbed \/ Testing)
    /\ UNCHANGED <<scanVars, task, dormant, PCI_SUSPENDED, starting, count, baseline, got,
                   own, late, cut, verdict, mine, strays>>

\* A start of what runs, and a stop of what is suspended, do nothing.
PciCommand(c) == \/ c = "start" /\ (PciStart \/ (~PCI_SUSPENDED /\ UNCHANGED pciVars))
                 \/ c = "stop" /\ (PciSuspend \/ (PCI_SUSPENDED /\ UNCHANGED pciVars))
                 \/ c = "test" /\ PciTestStart

-----------------------------------------------------------------------------
(* The task *)

Boot ==
    /\ phase = "up" /\ task = "boot"
    /\ task' = "loop" /\ dormant' = TRUE /\ PCI_SUSPENDED' = TRUE
    /\ UNCHANGED <<scanVars, starting, testVars>>

Runs(t) == task = t /\ ~dormant
Rest == UNCHANGED <<dormant, PCI_SUSPENDED, starting>>

\* The wait of the loop clears the bits it returns.
LoopWait ==
    /\ Runs("loop") /\ pending
    /\ task' = IF EVT_PCI_TEST \in bits THEN "validate" ELSE "loop"
    /\ pending' = FALSE /\ bits' = {}
    /\ UNCHANGED <<scanVars, count, baseline, got, own, late, cut, verdict, mine, strays, disturbed>> /\ Rest

\* test_pci_validate_vfio_device, up to its write to BAR 0
Validate ==
    /\ Runs("validate")
    /\ \/ /\ Vfio = {} /\ task' = "loop" /\ UNCHANGED config
       \/ \E dev \in Vfio : ConfigDeviceResources(dev) /\ task' = "baseline"
    /\ UNCHANGED <<phase, stack, device_info, bridge_info, dev_info, bar_idx, alloc_idx,
                   free_mmio, vector_count, limited, wrapped, testVars>> /\ Rest

\* test_pci_msi_irq up to the count before the test
Baseline ==
    /\ Runs("baseline")
    /\ \E dev \in Vfio :
          task' = IF Mapped(dev, 0) = {} THEN "loop" ELSE "clear"
    /\ baseline' = count[0]
    /\ own' = FALSE /\ late' = IF own THEN late + 1 ELSE late
    /\ got' = FALSE /\ cut' = FALSE /\ verdict' = "none"
    /\ mine' = FALSE /\ strays' = 0 /\ disturbed' = (late' > 0)
    /\ UNCHANGED <<scanVars, pending, bits, count>> /\ Rest

\* xTaskNotifyStateClear
StateClear ==
    /\ Runs("clear")
    /\ pending' = FALSE /\ task' = "discard"
    /\ UNCHANGED <<scanVars, bits, count, baseline, got, own, late, cut, verdict, mine, strays, disturbed>>
    /\ Rest

\* The wait without a timeout clears all bits unless something became pending again.
Discard ==
    /\ Runs("discard")
    /\ bits' = IF pending THEN bits ELSE {}
    /\ pending' = FALSE /\ task' = "trigger"
    /\ UNCHANGED <<scanVars, count, baseline, got, own, late, cut, verdict, mine, strays, disturbed>> /\ Rest

\* The write to BAR 0 makes the device send its MSI, a write of its own, if the first
\* arrives, a vector is set and the second is let through.
Trigger ==
    /\ Runs("trigger")
    /\ own' = \E dev \in Vfio : /\ config[dev.at].msi # {} /\ MayWrite(dev)
                                /\ \E addr \in Mapped(dev, 0) : Routed(dev, 0, {addr})
    /\ task' = "wait"
    /\ UNCHANGED <<scanVars, pending, bits, count, baseline, got, late, cut, verdict, mine, strays, disturbed>>
    /\ Rest

\* Mutant: the count is copied after the trigger.
WaitEndCopies ==
    /\ Runs("wait")
    /\ got' = (pending /\ 0 \in bits)
    /\ disturbed' = (disturbed \/ ~(pending \/ mine))
    /\ pending' = FALSE /\ bits' = IF pending THEN {} ELSE bits
    /\ cut' = FALSE /\ task' = "judge" /\ baseline' = count[0]
    /\ UNCHANGED <<scanVars, count, own, late, verdict, mine, strays>> /\ Rest

\* A notification of any kind, the timeout, or the resumption after a suspension ends it.
WaitEnd ==
    /\ Runs("wait")
    /\ got' = (pending /\ 0 \in bits)
    /\ disturbed' = (disturbed \/ ~(pending \/ mine))
    /\ pending' = FALSE /\ bits' = IF pending THEN {} ELSE bits
    /\ cut' = FALSE /\ task' = "judge"
    /\ UNCHANGED <<scanVars, count, baseline, own, late, verdict, mine, strays>> /\ Rest

Judge ==
    /\ Runs("judge")
    /\ verdict' = IF got /\ count[0] = baseline + 1 THEN "pass" ELSE "fail"
    /\ task' = "loop"
    /\ UNCHANGED <<scanVars, pending, bits, count, baseline, got, own, late, cut, mine, strays, disturbed>>
    /\ Rest

PciTaskStep == \/ Boot \/ LoopWait \/ Validate \/ Baseline \/ StateClear \/ Discard
            \/ Trigger \/ WaitEnd \/ Judge
BootStep == /\ ScanStep \/ AllocStep
            /\ UNCHANGED <<task, dormant, PCI_SUSPENDED, starting, testVars>>
PciStep == BootStep \/ PciTaskStep

-----------------------------------------------------------------------------
(* Properties *)

(***************************************************************************)
(* When the MSI test writes its trigger, all memory of the device can be   *)
(* reached at the addresses of the table: the registers, the table, the    *)
(* bridge's window and the device's command register agree.  Out of reach  *)
(* of this code, and excluded here: a BAR whose upper register is not      *)
(* zero, a device below more than one bridge, memory beyond 32 bits, and   *)
(* a bridge that firmware left closed (the code writes a bridge's window   *)
(* and never its command register).                                        *)
(***************************************************************************)
TestReaches ==
    task = "trigger" =>
        \A dev \in Vfio : \A b \in Used(dev) :
            \/ wrapped \/ Decoded(dev, b) >= Wrap
            \/ \E i \in Parent(dev.at[1]) : \/ bridge_info[i].at[1] > 0
                                            \/ "memory" \notin RegistersOf(bridge_info[i]).cmd
            \/ Routed(dev, b, {addr + n : addr \in Mapped(dev, b), n \in 0 .. dev.bar_size[b] - 1})

(***************************************************************************)
(* A test of the MSI passes only if exactly one interrupt came between its *)
(* copy of count[0] and its judgement: that of its trigger, or in place of *)
(* it one of an earlier test that came late, which the test cannot tell    *)
(* from its own.  It fails only if something disturbed it (a timeout,      *)
(* another request, a suspension, an interrupt of an earlier test) or the  *)
(* device does not have vector 0.  What earlier tests left in the          *)
(* notification neither passes a test nor fails one.                       *)
(***************************************************************************)
VerdictTrue ==
    /\ verdict = "pass" => (mine /\ strays = 0) \/ (~mine /\ strays = 1)
    /\ verdict = "fail" => disturbed \/ \E dev \in Vfio : config[dev.at].msi # {0}

(***************************************************************************)
(* A request for a test that finds the task in the wait of its loop starts *)
(* one, whatever interrupts arrive with it, unless the task is suspended.  *)
(***************************************************************************)
RequestServed == (task = "loop" /\ EVT_PCI_TEST \in bits) ~> (task = "validate" \/ dormant)
=============================================================================
