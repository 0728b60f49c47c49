----------------------------- MODULE PciProofs ------------------------------
(***************************************************************************)
(* The PCI root complex and its task proved for every configuration of     *)
(* devices and bridges, every number of vectors and every order of         *)
(* requests, suspensions and interrupts.  The verdict of the MSI test      *)
(* needs one fact about the table: it lists functions that are present, so *)
(* that writing the registers of a device before a test leaves the vector  *)
(* that an earlier verdict was about.  ScanExact needs the invariant of    *)
(* the scan (what the stack has passed is listed, and nothing behind a     *)
(* bridge that is not), BarsApart that of the allocation (all that is      *)
(* placed lies below free_mmio), and TestReaches both.                     *)
(***************************************************************************)
EXTENDS Rtos, FiniteSetTheorems, TLAPS

-----------------------------------------------------------------------------
(* The table *)

Entries(table) == {table[i] : i \in DOMAIN table}
TableOK ==
    /\ \A f \in DOMAIN config : /\ "msi" \in DOMAIN config[f]
                                /\ \A v, w \in config[f].msi : v = w
    /\ device_info \in Seq(Entries(device_info))
    /\ \A i \in DOMAIN device_info : device_info[i].at \in DOMAIN config
                                     /\ "at" \in DOMAIN device_info[i]
    /\ phase = "size" => dev_info.at \in DOMAIN config /\ "at" \in DOMAIN dev_info

LEMMA TableInit == ScanInit => TableOK
  <1> SUFFICES ASSUME ScanInit PROVE TableOK
    OBVIOUS
  <1>1. \A f \in DOMAIN config : "msi" \in DOMAIN config[f] /\ config[f].msi = {}
    BY TopologiesAssumption DEF ScanInit
  <1>2. device_info \in Seq(Entries(device_info)) /\ DOMAIN device_info = {}
    BY DEF ScanInit
  <1> QED BY <1>1, <1>2 DEF TableOK, ScanInit

LEMMA TableAppend ==
    ASSUME TableOK, phase = "size", device_info' = Append(device_info, dev_info), config' = config,
           phase' # "size"
    PROVE  TableOK'
  <1> DEFINE S == Entries(device_info) \cup {dev_info}
             new == Append(device_info, dev_info)
  <1>1. device_info \in Seq(S)
    BY DEF TableOK
  <1>2. /\ new \in Seq(S) /\ Len(new) = Len(device_info) + 1 /\ Len(device_info) \in Nat
        /\ \A i \in 1 .. Len(device_info) : new[i] = device_info[i]
        /\ new[Len(device_info) + 1] = dev_info
    BY <1>1
  <1>3. DOMAIN new = 1 .. Len(device_info) + 1 /\ DOMAIN device_info = 1 .. Len(device_info)
    BY <1>1, <1>2
  <1>4. \A i \in DOMAIN new : new[i].at \in DOMAIN config /\ "at" \in DOMAIN new[i]
    BY <1>2, <1>3 DEF TableOK
  <1>5. new \in Seq(Entries(new))
    BY <1>2, <1>3 DEF Entries
  <1> QED BY <1>4, <1>5 DEF TableOK

LEMMA ScanKeepsTable == ASSUME TableOK, ScanStep PROVE TableOK'
  <1>1. ASSUME UNCHANGED <<config, device_info>>,
               phase' = "size" => (phase = "size" /\ dev_info' = dev_info)
        PROVE  TableOK'
    BY <1>1 DEF TableOK, Entries
  <1>2. CASE NextDevice \/ SkipFunction \/ ReturnFromBus \/ LimitReached \/ FoundBridge \/ ScanDone
    BY <1>1, <1>2 DEF NextDevice, SkipFunction, ReturnFromBus, LimitReached, FoundBridge, ScanDone, Keep,
                      Scanning, Visiting
  <1>3. CASE FoundEndpoint
    <2>1. dev_info'.at \in DOMAIN config /\ "at" \in DOMAIN dev_info'
      BY <1>3 DEF FoundEndpoint, Visiting, Present, NoEntry
    <2> QED BY <1>3, <2>1 DEF FoundEndpoint, Keep, TableOK, Entries
  <1>4. CASE SizeSkipped \/ Size64 \/ Size32
    <2>1. PICK size, address, n : Sized(n, size, address)
      BY <1>4 DEF SizeSkipped, Size64, Size32
    <2>2. phase = "size"
      BY <1>4 DEF SizeSkipped, Size64, Size32, Sizing
    <2>3. dev_info' = [dev_info EXCEPT !.bar_size[bar_idx] = size, !.bar_address[bar_idx] = address]
      BY <2>1 DEF Sized
    <2>4. dev_info'.at = dev_info.at /\ "at" \in DOMAIN dev_info'
      BY <2>2, <2>3 DEF TableOK
    <2>5. UNCHANGED <<config, device_info, phase>>
      BY <2>1 DEF Sized, Keep
    <2> QED BY <2>2, <2>4, <2>5 DEF TableOK, Entries
  <1>5. CASE SizeDone
    BY <1>5, TableAppend DEF SizeDone, Keep
  <1> QED BY <1>2, <1>3, <1>4, <1>5 DEF ScanStep

LEMMA AllocKeepsTable == ASSUME TableOK, AllocStep PROVE TableOK'
  <1>1. phase' # "size" /\ phase = "alloc"
    BY DEF AllocStep, AllocHostBridge, AllocNoBar, AllocBar, AllocDevice, AllocDone, Allocating
  <1>2. CASE AllocHostBridge \/ AllocNoBar \/ AllocDone
    BY <1>1, <1>2 DEF AllocHostBridge, AllocNoBar, AllocDone, TableOK, Entries
  <1>3. CASE AllocBar
    <2>1. PICK addr :
            /\ config' = [config EXCEPT ![Device.at].bars[bar_idx].value = addr]
            /\ device_info' = [device_info EXCEPT ![alloc_idx].bar_address[bar_idx] = addr]
      BY <1>3 DEF AllocBar
    <2>2. /\ DOMAIN config' = DOMAIN config
          /\ \A f \in DOMAIN config : DOMAIN config'[f] = DOMAIN config[f] /\ config'[f].msi = config[f].msi
      BY <2>1 DEF TableOK
    <2>3. /\ DOMAIN device_info' = DOMAIN device_info
          /\ \A i \in DOMAIN device_info : /\ "at" \in DOMAIN device_info'[i]
                                           /\ device_info'[i].at = device_info[i].at
      BY <2>1 DEF TableOK
    <2>4. device_info' \in Seq(Entries(device_info'))
      <3>1. Len(device_info) \in Nat /\ DOMAIN device_info = 1 .. Len(device_info)
        BY DEF TableOK
      <3>2. device_info' = [i \in 1 .. Len(device_info) |-> device_info'[i]]
        BY <2>1, <3>1 DEF TableOK
      <3> QED BY <2>3, <3>1, <3>2 DEF Entries
    <2> QED BY <1>1, <2>2, <2>3, <2>4 DEF TableOK
  <1>4. CASE AllocDevice
    <2>1. /\ DOMAIN config' = DOMAIN config
          /\ \A f \in DOMAIN config : /\ DOMAIN config'[f] = DOMAIN config[f]
                                      /\ config'[f].msi \in {config[f].msi, {vector_count}}
      BY <1>4 DEF AllocDevice, TableOK
    <2> QED BY <1>1, <1>4, <2>1 DEF AllocDevice, TableOK, Entries
  <1> QED BY <1>2, <1>3, <1>4 DEF AllocStep

(***************************************************************************)
(* Writing the registers of a device before a test leaves its vector.      *)
(***************************************************************************)
LEMMA ConfigKeepsVectors ==
    ASSUME TableOK, NEW dev \in Vfio, ConfigDeviceResources(dev), UNCHANGED <<phase, device_info, dev_info>>
    PROVE  TableOK' /\ Vfio' = Vfio /\ \A d \in Vfio : config'[d.at].msi = config[d.at].msi
  <1>1. /\ DOMAIN config' = DOMAIN config
        /\ \A f \in DOMAIN config : DOMAIN config'[f] = DOMAIN config[f] /\ config'[f].msi = config[f].msi
    BY DEF ConfigDeviceResources, TableOK
  <1>2. Vfio' = Vfio
    BY DEF Vfio, FindById
  <1>3. \A d \in Vfio : d.at \in DOMAIN config
    BY DEF Vfio, FindById, TableOK
  <1> QED BY <1>1, <1>2, <1>3 DEF TableOK, Entries

LEMMA OneVfio == ASSUME TableOK, NEW d \in Vfio, NEW e \in Vfio PROVE d = e
  <1>1. DOMAIN device_info = 1 .. Len(device_info) /\ Len(device_info) \in Nat
    BY DEF TableOK
  <1>2. PICK i \in FindById("vfio"), j \in FindById("vfio") : d = device_info[i] /\ e = device_info[j]
    BY DEF Vfio
  <1>3. i \in Nat /\ j \in Nat /\ ~(i < j) /\ ~(j < i)
    BY <1>1 DEF FindById
  <1> QED BY <1>2, <1>3

-----------------------------------------------------------------------------
(* The test *)

\* Every device tested has vector 0 and no other.
Single == \A dev \in Vfio : config[dev.at].msi = {0}
\* It has vector 0.
Zeroth == \E dev \in Vfio : 0 \in config[dev.at].msi

TestType ==
    /\ count \in [0 .. MaxPciMsi - 1 -> Nat] /\ baseline \in Nat /\ late \in Nat /\ strays \in Nat
    /\ own \in BOOLEAN /\ mine \in BOOLEAN /\ disturbed \in BOOLEAN /\ got \in BOOLEAN
    /\ pending \in BOOLEAN

\* Where an undisturbed test stands: its interrupt comes once, after the trigger.
Undisturbed ==
    /\ late = 0
    /\ task \in {"boot", "loop", "validate", "baseline"} => ~own
    /\ task \in {"clear", "discard", "trigger"} => ~own /\ ~mine /\ count[0] = baseline
    /\ task \in {"discard", "trigger"} => ~pending
    /\ task = "wait" /\ ~mine => ~pending /\ count[0] = baseline
    /\ task \in {"wait", "judge"} /\ mine => ~own
    /\ task = "wait" /\ mine => pending /\ (Single => 0 \in bits /\ count[0] = baseline + 1)
    /\ task = "judge" => mine /\ (Single => got /\ count[0] = baseline + 1)

\* A test in progress has counted what has arrived, if it arrives on vector 0; its own
\* interrupt comes once, after the trigger.
Arrived == IF mine THEN strays + 1 ELSE strays
Counted ==
    Testing => /\ count[0] = IF Zeroth THEN baseline + Arrived ELSE baseline
               /\ verdict = "none" /\ ~(own /\ mine)
               /\ task \in {"clear", "discard", "trigger"} => ~own /\ ~mine
OneArrived == (mine /\ strays = 0) \/ (~mine /\ strays = 1)

VerdictInv ==
    /\ TestType /\ Counted
    /\ ~disturbed => Undisturbed
    /\ task # "boot" => phase = "up"
    /\ task = "boot" => verdict = "none" /\ ~disturbed
    /\ VerdictTrue

PciInv == TableOK /\ VerdictInv

LEMMA Zero == 0 \in 0 .. MaxPciMsi - 1
  BY SizeAssumption

LEMMA PciInitInv == PciInit => PciInv
  <1> SUFFICES ASSUME PciInit PROVE PciInv
    OBVIOUS
  <1>1. TableOK
    BY TableInit DEF PciInit
  <1>2. TestType /\ Undisturbed /\ Counted
    BY DEF PciInit, TestType, Undisturbed, Counted, Testing
  <1> QED BY <1>1, <1>2 DEF PciInit, PciInv, VerdictInv, VerdictTrue

\* The table does not change once the tasks run.
LEMMA SameTable ==
    ASSUME UNCHANGED scanVars
    PROVE  /\ TableOK => TableOK'
           /\ Single' = Single /\ Zeroth' = Zeroth /\ Vfio' = Vfio /\ config' = config /\ phase' = phase
  <1>1. Vfio' = Vfio
    BY DEF scanVars, Vfio, FindById
  <1> QED BY <1>1 DEF scanVars, TableOK, Entries, Single, Zeroth

(***************************************************************************)
(* An interrupt is this test's or an earlier one's.                        *)
(***************************************************************************)
LEMMA MsiKeeps == ASSUME PciInv, MsiIrq PROVE PciInv'
  <1>1. UNCHANGED <<task, baseline, got, verdict, disturbed>> /\ UNCHANGED scanVars
    BY DEF MsiIrq
  <1>11. PICK dev \in Vfio : \E v \in config[dev.at].msi :
            count' = [count EXCEPT ![v] = @ + 1] /\ bits' = bits \cup {v} /\ pending' = TRUE
    BY DEF MsiIrq, Notified
  <1>2. PICK v \in config[dev.at].msi :
            count' = [count EXCEPT ![v] = @ + 1] /\ bits' = bits \cup {v} /\ pending' = TRUE
    BY <1>11
  <1>0. TestType /\ TableOK /\ Counted /\ (~disturbed => Undisturbed) /\ VerdictTrue
    BY DEF PciInv, VerdictInv
  <1>3. (Single => v = 0) /\ (v = 0 <=> Zeroth)
    <2>1. dev.at \in DOMAIN config /\ \A d \in Vfio : d = dev
      BY <1>0, OneVfio DEF Vfio, FindById, TableOK
    <2>2. \A w \in config[dev.at].msi : w = v
      BY <1>0, <2>1 DEF TableOK
    <2> QED BY <2>1, <2>2 DEF Single, Zeroth
  <1>4. count' \in [0 .. MaxPciMsi - 1 -> Nat] /\ count'[0] = IF v = 0 THEN count[0] + 1 ELSE count[0]
    <2>0. count \in [0 .. MaxPciMsi - 1 -> Nat]
      BY <1>0 DEF TestType
    <2>1. \A n \in 0 .. MaxPciMsi - 1 : count[n] + 1 \in Nat
      BY <2>0
    <2>2. count' \in [0 .. MaxPciMsi - 1 -> Nat]
      BY <1>2, <2>0, <2>1
    <2> QED BY <1>2, <2>0, <2>2, Zero
  <1>5. \/ /\ own /\ own' = FALSE /\ late' = late
           /\ mine' = (mine \/ Testing) /\ strays' = strays
        \/ /\ late > 0 /\ late' = late - 1 /\ own' = own /\ mine' = mine
           /\ strays' = IF Testing THEN strays + 1 ELSE strays
    BY DEF MsiIrq
  <1>6. ~Testing => mine' = mine /\ strays' = strays
    BY <1>0, <1>5 DEF TestType
  <1>7. TestType'
    <2>1. late' \in Nat /\ strays' \in Nat
      BY <1>0, <1>5 DEF TestType
    <2>2. own' \in BOOLEAN /\ mine' \in BOOLEAN
      BY <1>0, <1>5 DEF TestType
    <2>3. disturbed' \in BOOLEAN /\ got' \in BOOLEAN /\ pending' \in BOOLEAN /\ baseline' \in Nat
      BY <1>0, <1>1, <1>2 DEF TestType
    <2> QED BY <1>4, <2>1, <2>2, <2>3 DEF TestType
  <1>8. ASSUME ~disturbed PROVE Undisturbed'
    <2>1. own /\ ~own' /\ late' = 0 /\ mine' = (mine \/ Testing)
      BY <1>0, <1>5, <1>8 DEF Undisturbed
    <2>2. task \in {"clear", "discard", "trigger", "wait", "judge"} => task = "wait" /\ ~mine /\ mine'
      BY <1>0, <1>8, <2>1 DEF Undisturbed, Testing
    <2>3. count[0] \in Nat /\ Single' = Single
      BY <1>0, <1>1, SameTable, Zero DEF TestType
    <2> QED BY <1>0, <1>1, <1>2, <1>3, <1>4, <1>8, <2>1, <2>2, <2>3 DEF Undisturbed
  <1>9. ASSUME Testing PROVE Counted'
    <2>1. Arrived' = Arrived + 1 /\ Arrived \in Nat
      <3>1. CASE own /\ own' = FALSE /\ mine' = TRUE /\ strays' = strays
        BY <1>0, <1>9, <3>1 DEF Arrived, Counted, TestType
      <3>2. CASE mine' = mine /\ strays' = strays + 1
        BY <1>0, <3>2 DEF Arrived, TestType
      <3> QED BY <1>5, <1>9, <3>1, <3>2
    <2>2. count'[0] = IF Zeroth THEN baseline + Arrived' ELSE baseline
      BY <1>0, <1>3, <1>4, <1>9, <2>1, Zero DEF Counted, TestType
    <2>3. ~(own' /\ mine') /\ (task \in {"clear", "discard", "trigger"} => ~own' /\ ~mine')
      BY <1>0, <1>5, <1>9 DEF Counted
    <2> QED BY <1>0, <1>1, <1>9, <2>2, <2>3, SameTable DEF Counted
  <1>10. VerdictTrue'
    BY <1>0, <1>1, <1>6, SameTable DEF VerdictTrue, Counted
  <1> QED BY <1>0, <1>1, <1>7, <1>8, <1>9, <1>10, SameTable DEF PciInv, VerdictInv, Counted, Testing

(***************************************************************************)
(* Commands disturb the test they meet.                                    *)
(***************************************************************************)
LEMMA Frame ==
    ASSUME PciInv, UNCHANGED scanVars, TestType', Counted', ~disturbed' => Undisturbed',
           task' # "boot" => phase = "up", task' = "boot" => verdict' = "none" /\ ~disturbed',
           verdict' = "pass" => OneArrived', verdict' = "fail" => disturbed' \/ ~Single
    PROVE  PciInv'
  <1>1. TableOK' /\ Single' = Single /\ phase' = phase
    BY SameTable DEF PciInv
  <1>2. VerdictTrue'
    BY <1>1 DEF VerdictTrue, Single, OneArrived
  <1> QED BY <1>1, <1>2 DEF PciInv, VerdictInv

LEMMA Facts ==
    ASSUME PciInv
    PROVE  /\ TestType /\ Counted /\ (~disturbed => Undisturbed)
           /\ task # "boot" => phase = "up"
           /\ task = "boot" => verdict = "none" /\ ~disturbed
           /\ verdict = "pass" => OneArrived
           /\ verdict = "fail" => disturbed \/ ~Single
  BY DEF PciInv, VerdictInv, VerdictTrue, Single, OneArrived

LEMMA StutterKeeps == ASSUME PciInv, UNCHANGED <<scanVars, task, testVars>> PROVE PciInv'
  <1>1. Single' = Single /\ Zeroth' = Zeroth /\ UNCHANGED scanVars
    BY SameTable
  <1>2. UNCHANGED <<task, pending, bits, count, baseline, got, own, late, cut, verdict, mine, strays, disturbed>>
    BY DEF testVars
  <1>3. TestType' /\ (~disturbed' => Undisturbed')
    BY <1>1, <1>2, Facts DEF TestType, Undisturbed
  <1>4. Counted' /\ (OneArrived => OneArrived')
    BY <1>1, <1>2, Facts DEF Counted, Arrived, Testing, OneArrived
  <1> QED BY <1>1, <1>2, <1>3, <1>4, Facts, Frame

LEMMA DisturbKeeps ==
    ASSUME PciInv, UNCHANGED <<scanVars, task, count, baseline, got, own, late, verdict, mine, strays>>,
           disturbed' = (disturbed \/ Testing), pending' \in BOOLEAN
    PROVE  PciInv'
  <1>1. UNCHANGED <<task, count, baseline, got, own, late, verdict, mine, strays>> /\ UNCHANGED scanVars
    OBVIOUS
  <1>2. TestType'
    BY <1>1, Facts DEF TestType
  <1>3. ASSUME ~disturbed' PROVE Undisturbed'
    <2>1. Undisturbed /\ task \notin {"clear", "discard", "trigger", "wait", "judge"}
      BY <1>3, Facts DEF Testing
    <2> QED BY <1>1, <2>1 DEF Undisturbed
  <1>4. disturbed => disturbed'
    OBVIOUS
  <1>5. task = "boot" => ~disturbed'
    BY Facts DEF Testing
  <1>6. Counted' /\ (OneArrived => OneArrived')
    BY <1>1, SameTable, Facts DEF Counted, Arrived, Testing, OneArrived
  <1> QED BY <1>1, <1>2, <1>3, <1>4, <1>5, <1>6, Facts, Frame

LEMMA CommandKeeps == ASSUME PciInv, NEW c, PciCommand(c) PROVE PciInv'
  <1>1. CASE PciStart
    BY <1>1, StutterKeeps DEF PciStart
  <1>2. CASE PciSuspend
    <2>1. UNCHANGED <<scanVars, task, count, baseline, got, own, late, verdict, mine, strays>>
      BY <1>2 DEF PciSuspend
    <2>2. disturbed' = (disturbed \/ Testing) /\ pending' \in BOOLEAN
      BY <1>2, Facts DEF PciSuspend, TestType
    <2> QED BY <2>1, <2>2, DisturbKeeps
  <1>3. CASE PciTestStart
    <2>1. UNCHANGED <<scanVars, task, count, baseline, got, own, late, verdict, mine, strays>>
      BY <1>3 DEF PciTestStart
    <2>2. disturbed' = (disturbed \/ Testing) /\ pending' \in BOOLEAN
      BY <1>3 DEF PciTestStart, Notified
    <2> QED BY <2>1, <2>2, DisturbKeeps
  <1>4. CASE UNCHANGED pciVars
    BY <1>4, StutterKeeps DEF pciVars
  <1> QED BY <1>1, <1>2, <1>3, <1>4 DEF PciCommand

(***************************************************************************)
(* The scan happens before the task, the steps of the task keep the test.  *)
(***************************************************************************)
LEMMA BootKeeps == ASSUME PciInv, BootStep PROVE PciInv'
  <1>1. TableOK'
    BY ScanKeepsTable, AllocKeepsTable DEF BootStep, PciInv
  <1>2. phase # "up"
    BY DEF BootStep, ScanStep, AllocStep, NextDevice, SkipFunction, ReturnFromBus, LimitReached, FoundEndpoint,
           FoundBridge, SizeSkipped, Size64, Size32, SizeDone, ScanDone, Scanning, Visiting, Sizing,
           AllocHostBridge, AllocNoBar, AllocBar, AllocDevice, AllocDone, Allocating
  <1>3. task = "boot" /\ verdict = "none" /\ ~disturbed /\ Undisturbed /\ TestType
    BY <1>2, Facts
  <1>4. UNCHANGED <<task, pending, bits, count, baseline, got, own, late, cut, verdict, mine, strays, disturbed>>
    BY DEF BootStep, testVars
  <1>5. TestType' /\ Undisturbed' /\ Counted'
    BY <1>3, <1>4 DEF TestType, Undisturbed, Counted, Testing
  <1> QED BY <1>1, <1>3, <1>4, <1>5 DEF PciInv, VerdictInv, VerdictTrue

LEMMA ValidateKeeps == ASSUME PciInv, Validate PROVE PciInv'
  <1>1. /\ task' \in {"loop", "baseline"} /\ task = "validate" /\ UNCHANGED <<phase, device_info, dev_info>>
        /\ UNCHANGED <<pending, bits, count, baseline, got, own, late, cut, verdict, mine, strays, disturbed>>
    BY DEF Validate, Runs, testVars
  <1>2. TableOK' /\ Single' = Single
    <2>1. CASE UNCHANGED config
      BY <1>1, <2>1 DEF PciInv, TableOK, Entries, Single, Vfio, FindById
    <2>2. CASE \E dev \in Vfio : ConfigDeviceResources(dev)
      BY <1>1, <2>2, ConfigKeepsVectors DEF PciInv, Single
    <2> QED BY <2>1, <2>2 DEF Validate
  <1>3. phase = "up"
    BY <1>1, Facts
  <1>4. TestType' /\ Counted' /\ (~disturbed' => Undisturbed')
    BY <1>1, <1>3, Facts DEF TestType, Undisturbed, Counted, Testing
  <1>5. VerdictTrue'
    BY <1>1, <1>2, Facts DEF VerdictTrue, Single, OneArrived
  <1> QED BY <1>1, <1>2, <1>3, <1>4, <1>5 DEF PciInv, VerdictInv

LEMMA Started == ASSUME PciInv, Boot PROVE PciInv'
  <1>1. UNCHANGED <<scanVars, pending, bits, count, baseline, got, own, late, cut, verdict, mine, strays, disturbed>>
    BY DEF Boot, testVars
  <1>2. task = "boot" /\ task' = "loop" /\ phase = "up"
    BY DEF Boot
  <1>3. TestType' /\ Counted' /\ (~disturbed' => Undisturbed')
    BY <1>1, <1>2, Facts DEF TestType, Undisturbed, Counted, Testing
  <1> QED BY <1>1, <1>2, <1>3, Facts, Frame DEF OneArrived

LEMMA LoopWaitKeeps == ASSUME PciInv, LoopWait PROVE PciInv'
  <1>1. UNCHANGED <<scanVars, count, baseline, got, own, late, verdict, mine, strays, disturbed>>
    BY DEF LoopWait
  <1>2. task = "loop" /\ task' \in {"loop", "validate"} /\ pending' = FALSE
    BY DEF LoopWait, Runs
  <1>3. TestType' /\ Counted' /\ (~disturbed' => Undisturbed')
    BY <1>1, <1>2, Facts DEF TestType, Undisturbed, Counted, Testing
  <1> QED BY <1>1, <1>2, <1>3, Facts, Frame DEF OneArrived

(***************************************************************************)
(* A test that begins with an interrupt of an earlier one on its way is    *)
(* disturbed from the start.                                               *)
(***************************************************************************)
LEMMA BaselineKeeps == ASSUME PciInv, Baseline PROVE PciInv'
  <1>1. UNCHANGED <<scanVars, pending, count>>
    BY DEF Baseline
  <1>2. task = "baseline" /\ task' \in {"loop", "clear"}
    BY DEF Baseline, Runs
  <1>3. /\ baseline' = count[0] /\ own' = FALSE /\ got' = FALSE /\ verdict' = "none" /\ mine' = FALSE
        /\ strays' = 0 /\ late' = IF own THEN late + 1 ELSE late
    BY DEF Baseline
  <1>0. disturbed' \in BOOLEAN /\ (~disturbed' => ~(late' > 0))
    <2>1. disturbed' = (late' > 0)
      BY Zenon DEF Baseline
    <2>2. CASE late' > 0
      <3>1. disturbed' = TRUE
        BY Zenon, <2>1, <2>2
      <3> QED BY <3>1, <2>2
    <2>3. CASE ~(late' > 0)
      <3>1. disturbed' = FALSE
        <4>1. (late' > 0) = FALSE
          BY <2>3
        <4> QED BY Zenon, <2>1, <4>1
      <3> QED BY <3>1, <2>3
    <2> QED BY <2>2, <2>3
  <1>4. TestType
    BY Facts
  <1>5. late' \in Nat /\ baseline' \in Nat
    BY <1>3, <1>4, Zero DEF TestType
  <1>6. TestType'
    <2>1. strays' \in Nat /\ own' \in BOOLEAN /\ got' \in BOOLEAN /\ mine' \in BOOLEAN /\ disturbed' \in BOOLEAN
      BY <1>0, <1>3
    <2>2. count' \in [0 .. MaxPciMsi - 1 -> Nat] /\ pending' \in BOOLEAN
      BY <1>1, <1>4 DEF TestType
    <2> QED BY <1>5, <2>1, <2>2 DEF TestType
  <1>7. ASSUME ~disturbed' PROVE Undisturbed'
    <2>1. late' = 0
      BY <1>0, <1>5, <1>7
    <2> QED BY <1>1, <1>2, <1>3, <2>1 DEF Undisturbed
  <1>8. Counted'
    <2>1. Arrived' = 0 /\ count'[0] = baseline' + Arrived' /\ count'[0] = baseline'
      BY <1>1, <1>3, <1>5 DEF Arrived
    <2> QED BY <1>2, <1>3, <2>1 DEF Counted, Testing
  <1> QED BY <1>1, <1>2, <1>3, <1>6, <1>7, <1>8, Facts, Frame

LEMMA ClearKeeps == ASSUME PciInv, StateClear \/ Discard PROVE PciInv'
  <1>1. UNCHANGED <<scanVars, count, baseline, got, own, late, verdict, mine, strays, disturbed>>
    BY DEF StateClear, Discard
  <1>2. task \in {"clear", "discard"} /\ task' \in {"discard", "trigger"} /\ pending' = FALSE
    BY DEF StateClear, Discard, Runs
  <1>3. TestType' /\ (~disturbed' => Undisturbed')
    BY <1>1, <1>2, Facts DEF TestType, Undisturbed
  <1>4. Counted' /\ (OneArrived => OneArrived')
    BY <1>1, <1>2, SameTable, Facts DEF Counted, Arrived, Testing, OneArrived
  <1> QED BY <1>1, <1>2, <1>3, <1>4, Facts, Frame

LEMMA TriggerKeeps == ASSUME PciInv, Trigger PROVE PciInv'
  <1>1. UNCHANGED <<scanVars, pending, count, baseline, got, late, verdict, mine, strays, disturbed>>
    BY DEF Trigger
  <1>2. task = "trigger" /\ task' = "wait"
    BY DEF Trigger, Runs
  <1>3. own' \in BOOLEAN
    BY DEF Trigger
  <1>4. TestType'
    BY <1>1, <1>3, Facts DEF TestType
  <1>5. ASSUME ~disturbed' PROVE Undisturbed'
    BY <1>1, <1>2, <1>5, Facts DEF Undisturbed
  <1>6. Counted' /\ (OneArrived => OneArrived')
    BY <1>1, <1>2, SameTable, Facts DEF Counted, Arrived, Testing, OneArrived
  <1> QED BY <1>1, <1>2, <1>4, <1>5, <1>6, Facts, Frame

(***************************************************************************)
(* An undisturbed wait ends with the interrupt of its own trigger.         *)
(***************************************************************************)
LEMMA WaitEndKeeps == ASSUME PciInv, WaitEnd PROVE PciInv'
  <1>1. UNCHANGED <<scanVars, count, baseline, own, late, verdict, mine, strays>>
    BY DEF WaitEnd
  <1>2. task = "wait" /\ task' = "judge" /\ pending' = FALSE
    BY DEF WaitEnd, Runs
  <1>3. got' = (pending /\ 0 \in bits) /\ disturbed' = (disturbed \/ ~(pending \/ mine))
    BY DEF WaitEnd
  <1>4. got' \in BOOLEAN /\ disturbed' \in BOOLEAN /\ (disturbed => disturbed')
    BY <1>3, Facts DEF TestType
  <1>5. TestType'
    BY <1>1, <1>2, <1>4, Facts DEF TestType
  <1>6. ASSUME ~disturbed' PROVE Undisturbed'
    <2>1. Undisturbed /\ mine
      BY <1>2, <1>3, <1>6, Facts DEF Undisturbed
    <2>2. Single' = Single
      BY <1>1, SameTable
    <2>3. late' = 0 /\ ~own' /\ mine' /\ (Single' => got' /\ count'[0] = baseline' + 1)
      BY <1>1, <1>2, <1>3, <2>1, <2>2 DEF Undisturbed
    <2> QED BY <1>2, <2>3 DEF Undisturbed
  <1>7. Counted' /\ (OneArrived => OneArrived')
    BY <1>1, <1>2, SameTable, Facts DEF Counted, Arrived, Testing, OneArrived
  <1> QED BY <1>1, <1>2, <1>4, <1>5, <1>6, <1>7, Facts, Frame

LEMMA JudgeKeeps == ASSUME PciInv, Judge PROVE PciInv'
  <1>1. UNCHANGED <<scanVars, pending, count, baseline, got, own, late, mine, strays, disturbed>>
    BY DEF Judge
  <1>2. task = "judge" /\ task' = "loop"
    BY DEF Judge, Runs
  <1>3. verdict' = IF got /\ count[0] = baseline + 1 THEN "pass" ELSE "fail"
    BY DEF Judge
  <1>4. TestType' /\ (~disturbed' => Undisturbed')
    BY <1>1, <1>2, Facts DEF TestType, Undisturbed
  <1>5. ~disturbed => mine /\ (Single => got /\ count[0] = baseline + 1)
    BY <1>2, Facts DEF Undisturbed
  <1>6. verdict' = "fail" => disturbed' \/ ~Single
    BY <1>1, <1>3, <1>5
  <1>7. ASSUME verdict' = "pass" PROVE OneArrived'
    <2>1. TestType /\ count[0] = baseline + 1
      BY <1>3, <1>7, Facts
    <2>2. count[0] = IF Zeroth THEN baseline + Arrived ELSE baseline
      BY <1>2, Facts DEF Counted, Testing
    <2>3. Arrived = 1
      BY <2>1, <2>2 DEF Arrived, TestType
    <2> QED BY <1>1, <2>1, <2>3 DEF Arrived, OneArrived, TestType
  <1>8. Counted'
    BY <1>2 DEF Counted, Testing
  <1> QED BY <1>1, <1>2, <1>4, <1>6, <1>7, <1>8, Facts, Frame

LEMMA TaskKeeps == ASSUME PciInv, PciTaskStep PROVE PciInv'
  BY Started, LoopWaitKeeps, ValidateKeeps, BaselineKeeps, ClearKeeps, TriggerKeeps, WaitEndKeeps,
     JudgeKeeps DEF PciTaskStep

LEMMA RtosKeeps == PciInv /\ [RtosNext]_<<vars, pciVars>> => PciInv'
  <1> SUFFICES ASSUME PciInv, [RtosNext]_<<vars, pciVars>> PROVE PciInv'
    OBVIOUS
  <1>1. CASE UNCHANGED pciVars
    BY <1>1, StutterKeeps DEF pciVars
  <1>2. CASE UartStep
    BY <1>1, <1>2 DEF UartStep
  <1>3. CASE CliStep
    BY <1>1, <1>3, CommandKeeps DEF CliStep, Command
  <1>4. CASE PciStarted
    BY <1>4, StutterKeeps DEF PciStarted
  <1>5. CASE PciStep
    BY <1>5, BootKeeps, TaskKeeps DEF PciStep
  <1>6. CASE MsiIrq
    BY <1>6, MsiKeeps
  <1> QED BY <1>1, <1>2, <1>3, <1>4, <1>5, <1>6 DEF RtosNext, Work

(***************************************************************************)
(* A passed MSI test has counted exactly one interrupt, its own or in      *)
(* place of it a late one of an earlier test, and one that failed was      *)
(* disturbed or has a device without vector 0: for every topology, any     *)
(* number of vectors and every interleaving of the tasks, the command line *)
(* and the interrupts.                                                     *)
(***************************************************************************)
THEOREM VerdictSound == RtosSpec => []VerdictTrue
  <1>1. RtosInit => PciInv
    BY PciInitInv DEF RtosInit
  <1>2. PciInv => VerdictTrue
    BY DEF PciInv, VerdictInv
  <1> QED BY <1>1, <1>2, RtosKeeps, PTL DEF RtosSpec

-----------------------------------------------------------------------------
(* The scan *)

(***************************************************************************)
(* What the scan does not change: who is there, and which bus is behind    *)
(* which bridge.                                                           *)
(***************************************************************************)
Shape ==
    /\ DOMAIN config \subseteq Nat \X Nat \X Nat
    /\ \A f \in DOMAIN config :
          /\ {"header", "multi", "secondary", "bars", "window", "cmd", "msi"} \subseteq DOMAIN config[f]
          /\ config[f].header \in {"endpoint", "bridge", "other"} /\ config[f].secondary \in Nat
    /\ \A f, g \in DOMAIN config :
          Leads(config, f) /\ Leads(config, g) /\ config[f].secondary = config[g].secondary => f = g

SameShape ==
    /\ DOMAIN config' = DOMAIN config
    /\ \A f \in DOMAIN config : /\ DOMAIN config'[f] = DOMAIN config[f]
                                /\ config'[f].header = config[f].header /\ config'[f].multi = config[f].multi
                                /\ config'[f].secondary = config[f].secondary

(***************************************************************************)
(* The invariant of the scan.  A function is passed when every frame of    *)
(* its bus stands behind it; a bus is begun when the bridge in front of it *)
(* is in the table.  The buses on the stack ascend, so that none is there  *)
(* twice, and what is listed has been passed, so that a bridge met is not  *)
(* yet listed and nothing behind it is.  Without a full table, all that    *)
(* was passed on a bus begun is listed.                                    *)
(***************************************************************************)
Frames == [bus : Nat, dev : 0 .. MaxDevices, func : Nat]
Before(x, k) == x[2] < stack[k].dev \/ (x[2] = stack[k].dev /\ x[3] < stack[k].func)
Passed(x) == \A k \in DOMAIN stack : stack[k].bus = x[1] => Before(x, k)
Found == {device_info[i].at : i \in DOMAIN device_info}
Bridges == {bridge_info[i].at : i \in DOMAIN bridge_info}
Begun(b) == b = 0 \/ \E f \in Bridges : Leads(config, f) /\ config[f].secondary = b

StackInv == /\ stack \in Seq(Frames)
            /\ \A j, k \in DOMAIN stack : j < k => stack[j].bus < stack[k].bus
            /\ \A k \in DOMAIN stack : Begun(stack[k].bus)

TablesInv ==
    /\ bridge_info \in Seq(Entries(bridge_info)) /\ Len(bridge_info) <= MaxBridges
    /\ Len(device_info) <= MaxDevices
    /\ \A i, j \in DOMAIN device_info : device_info[i].at = device_info[j].at => i = j
    /\ \A x \in Found : /\ x \in Answering /\ config[x].header = "endpoint"
                        /\ Begun(x[1]) /\ Passed(x)
    /\ \A x \in Bridges : /\ x \in Answering /\ config[x].header = "bridge"
                          /\ Begun(x[1]) /\ x[1] \in Buses /\ Passed(x)

PhaseInv ==
    /\ phase \in {"scan", "size", "alloc", "up"}
    /\ phase \in {"alloc", "up"} => stack = <<>>
    /\ phase = "size" => /\ stack # <<>> /\ dev_info.at = This /\ This \in Answering
                         /\ config[This].header = "endpoint" /\ Len(device_info) < MaxDevices

Complete ==
    ~limited => \A x \in Answering : Begun(x[1]) /\ Passed(x) =>
                   /\ config[x].header = "endpoint" => x \in Found
                   /\ config[x].header = "bridge" => x \in Bridges

ScanInv == Shape /\ StackInv /\ TablesInv /\ PhaseInv /\ Complete

-----------------------------------------------------------------------------
(* The stack *)

LEMMA Top ==
    ASSUME stack \in Seq(Frames), stack # <<>>
    PROVE  /\ Len(stack) \in Nat \ {0} /\ DOMAIN stack = 1 .. Len(stack) /\ Here \in Frames
           /\ Callers \in Seq(Frames) /\ Len(Callers) = Len(stack) - 1
           /\ DOMAIN Callers = 1 .. Len(stack) - 1
           /\ \A k \in 1 .. Len(stack) - 1 : Callers[k] = stack[k]
  <1>1. Len(stack) \in Nat \ {0} /\ DOMAIN stack = 1 .. Len(stack)
    OBVIOUS
  <1>2. Here \in Frames
    BY <1>1 DEF Here
  <1>3. /\ Callers \in Seq(Frames) /\ Len(Callers) = Len(stack) - 1
        /\ \A k \in 1 .. Len(stack) - 1 : Callers[k] = stack[k]
    BY <1>1 DEF Callers
  <1> QED BY <1>1, <1>2, <1>3

LEMMA Triple == ASSUME Shape, NEW x \in DOMAIN config PROVE x[1] \in Nat /\ x[2] \in Nat /\ x[3] \in Nat /\ x = <<x[1], x[2], x[3]>>
  BY DEF Shape

(***************************************************************************)
(* The innermost frame moves forward: what is passed then, and was not     *)
(* before, lies between the two places.                                    *)
(***************************************************************************)
Between(x, dev, func) ==
    /\ x[1] = Here.bus
    /\ x[2] > Here.dev \/ (x[2] = Here.dev /\ x[3] >= Here.func)
    /\ x[2] < dev \/ (x[2] = dev /\ x[3] < func)

LEMMA Moves ==
    ASSUME Shape, StackInv, stack # <<>>, NEW dev \in 0 .. MaxDevices, NEW func \in Nat, Goto(dev, func),
           dev > Here.dev \/ (dev = Here.dev /\ func >= Here.func), UNCHANGED <<config, bridge_info>>
    PROVE  /\ StackInv'
           /\ \A x \in DOMAIN config : Passed(x) => Passed(x)'
           /\ \A x \in DOMAIN config : Passed(x)' => Passed(x) \/ Between(x, dev, func)
  <1> DEFINE n == Len(stack)
             new == [Here EXCEPT !.dev = dev, !.func = func]
  <1>1. /\ n \in Nat \ {0} /\ DOMAIN stack = 1 .. n /\ Here \in Frames
        /\ Callers \in Seq(Frames) /\ Len(Callers) = n - 1
        /\ \A k \in 1 .. n - 1 : Callers[k] = stack[k]
    BY Top DEF StackInv
  <1>2. new \in Frames /\ new.bus = Here.bus /\ new.dev = dev /\ new.func = func
    BY <1>1 DEF Frames
  <1>3. stack' = Append(Callers, new)
    BY DEF Goto
  <1> HIDE DEF n, new
  <1>4. /\ stack' \in Seq(Frames) /\ DOMAIN stack' = 1 .. n
        /\ \A k \in 1 .. n - 1 : stack'[k] = stack[k]
        /\ stack'[n] = new
    BY <1>1, <1>2, <1>3
  <1>5. Here = stack[n] /\ \A k \in 1 .. n : k \in 1 .. n - 1 \/ k = n
    <2>1. Here = stack[n]
      BY DEF Here, n
    <2>2. \A k \in 1 .. n : k \in 1 .. n - 1 \/ k = n
      BY <1>1
    <2> QED BY <2>1, <2>2
  <1>6. \A k \in 1 .. n : stack'[k].bus = stack[k].bus
    BY <1>2, <1>4, <1>5
  <1>7. \A b : Begun(b)' = Begun(b)
    BY DEF Begun, Bridges
  <1>8. StackInv'
    <2>1. \A j, k \in 1 .. n : j < k => stack'[j].bus < stack'[k].bus
      BY <1>1, <1>6 DEF StackInv
    <2>2. \A k \in 1 .. n : Begun(stack[k].bus)
      BY <1>1 DEF StackInv
    <2>3. \A k \in 1 .. n : Begun(stack'[k].bus)
      BY <2>2, <1>6
    <2>4. \A k \in 1 .. n : \A b : b = stack'[k].bus => Begun(b)'
      BY <2>3, <1>7
    <2> QED BY <1>4, <2>1, <2>4 DEF StackInv, Begun, Bridges
  <1>9. ASSUME NEW x \in DOMAIN config, Passed(x) PROVE Passed(x)'
    <2>0. x[2] \in Nat /\ x[3] \in Nat
      BY Triple
    <2>1. ASSUME NEW k \in 1 .. n, stack'[k].bus = x[1] PROVE Before(x, k)'
      <3>1. Before(x, k)
        BY <1>1, <1>6, <1>9, <2>1 DEF Passed
      <3>2. CASE k \in 1 .. n - 1
        BY <1>4, <3>1, <3>2 DEF Before
      <3>3. CASE k = n
        <4>1. Here.dev \in Int /\ Here.func \in Int
          BY <1>1 DEF Frames
        <4>2. x[2] < Here.dev \/ (x[2] = Here.dev /\ x[3] < Here.func)
          BY <1>5, <3>1, <3>3 DEF Before
        <4>3. x[2] < dev \/ (x[2] = dev /\ x[3] < func)
          BY <2>0, <4>1, <4>2
        <4> QED BY <1>2, <1>4, <3>3, <4>3 DEF Before
      <3> QED BY <1>5, <3>2, <3>3
    <2> QED BY <1>4, <2>1 DEF Passed
  <1>10. ASSUME NEW x \in DOMAIN config, Passed(x)', ~Passed(x) PROVE Between(x, dev, func)
    <2>0. x[2] \in Nat /\ x[3] \in Nat
      BY Triple
    <2>1. PICK k \in 1 .. n : stack[k].bus = x[1] /\ ~Before(x, k)
      BY <1>1, <1>10 DEF Passed
    <2>2. Before(x, k)'
      BY <1>4, <1>6, <1>10, <2>1 DEF Passed
    <2>3. k = n
      <3>1. ASSUME k \in 1 .. n - 1 PROVE FALSE
        BY <1>4, <2>1, <2>2, <3>1 DEF Before
      <3> QED BY <1>5, <3>1
    <2>4. /\ x[2] < dev \/ (x[2] = dev /\ x[3] < func)
          /\ ~(x[2] < Here.dev \/ (x[2] = Here.dev /\ x[3] < Here.func))
      BY <1>2, <1>4, <1>5, <2>1, <2>2, <2>3 DEF Before
    <2>5. Here.dev \in Int /\ Here.func \in Int
      BY <1>1 DEF Frames
    <2> QED BY <1>5, <2>0, <2>1, <2>3, <2>4, <2>5 DEF Between
  <1> QED BY <1>8, <1>9, <1>10

(***************************************************************************)
(* Back to the bus above: fewer frames stand in the way.                   *)
(***************************************************************************)
LEMMA Pops ==
    ASSUME Shape, StackInv, stack # <<>>, stack' = Callers, UNCHANGED <<config, bridge_info>>
    PROVE  /\ StackInv'
           /\ \A x \in DOMAIN config : Passed(x) => Passed(x)'
           /\ \A x \in DOMAIN config : Passed(x)' /\ ~Passed(x) =>
                 x[1] = Here.bus /\ ~(x[2] < Here.dev \/ (x[2] = Here.dev /\ x[3] < Here.func))
  <1> DEFINE n == Len(stack)
  <1>1. /\ n \in Nat \ {0} /\ DOMAIN stack = 1 .. n /\ Here \in Frames
        /\ Callers \in Seq(Frames) /\ DOMAIN Callers = 1 .. n - 1
        /\ \A k \in 1 .. n - 1 : Callers[k] = stack[k]
    BY Top DEF StackInv
  <1>5. Here = stack[n] /\ \A k \in 1 .. n : k \in 1 .. n - 1 \/ k = n
    <2>1. Here = stack[n]
      BY DEF Here
    <2> HIDE DEF n
    <2>2. \A k \in 1 .. n : k \in 1 .. n - 1 \/ k = n
      BY <1>1
    <2> QED BY <2>1, <2>2
  <1> HIDE DEF n
  <1>2. /\ stack' \in Seq(Frames) /\ DOMAIN stack' = 1 .. n - 1
        /\ \A k \in 1 .. n - 1 : stack'[k] = stack[k] /\ k \in 1 .. n
    BY <1>1
  <1>3. \A k \in 1 .. n - 1 : \A x : Before(x, k)' = Before(x, k)
    BY <1>2 DEF Before
  <1>4. StackInv'
    <2>1. \A j, k \in 1 .. n - 1 : j < k => stack'[j].bus < stack'[k].bus
      BY <1>1, <1>2 DEF StackInv
    <2>2. \A k \in 1 .. n - 1 : Begun(stack[k].bus)
      BY <1>1, <1>2 DEF StackInv
    <2>3. \A k \in 1 .. n - 1 : Begun(stack'[k].bus)
      BY <2>2, <1>2
    <2> QED BY <1>2, <2>1, <2>3 DEF StackInv, Begun, Bridges
  <1>6. ASSUME NEW x \in DOMAIN config, Passed(x) PROVE Passed(x)'
    BY <1>1, <1>2, <1>3, <1>6 DEF Passed
  <1>7. ASSUME NEW x \in DOMAIN config, Passed(x)', ~Passed(x)
        PROVE  x[1] = Here.bus /\ ~(x[2] < Here.dev \/ (x[2] = Here.dev /\ x[3] < Here.func))
    <2>1. PICK k \in 1 .. n : stack[k].bus = x[1] /\ ~Before(x, k)
      BY <1>1, <1>7 DEF Passed
    <2>2. k = n
      BY <1>2, <1>3, <1>5, <1>7, <2>1 DEF Passed
    <2> QED BY <1>5, <2>1, <2>2 DEF Before
  <1> QED BY <1>4, <1>6, <1>7

-----------------------------------------------------------------------------
(* What is listed *)

LEMMA ShapeKeeps ==
    ASSUME Shape, SameShape
    PROVE  /\ Shape' /\ Answering' = Answering /\ Buses' = Buses
           /\ \A f \in DOMAIN config : Leads(config', f) = Leads(config, f)
  <1>1. \A f \in DOMAIN config : Leads(config', f) = Leads(config, f)
    BY DEF SameShape, Leads
  <1>2. Shape'
    <2>1. \A f \in DOMAIN config : DOMAIN config'[f] = DOMAIN config[f]
      BY DEF SameShape
    <2>2. \A f, g \in DOMAIN config' :
             Leads(config', f) /\ Leads(config', g) /\ config'[f].secondary = config'[g].secondary => f = g
      BY <1>1 DEF SameShape, Shape
    <2> QED BY <2>1, <2>2 DEF SameShape, Shape
  <1>3. Answering' = Answering
    BY DEF SameShape, Answering
  <1>4. AllBuses' = AllBuses
    BY DEF SameShape, AllBuses
  <1>5. ASSUME NEW buses PROVE Closed(buses)' = Closed(buses)
    <2>1. Answering \subseteq DOMAIN config
      BY DEF Answering
    <2>2. \A f \in Answering : /\ Leads(config', f) = Leads(config, f)
                               /\ config'[f].secondary = config[f].secondary
      BY <1>1, <2>1 DEF SameShape
    <2> QED BY <1>3, <2>2 DEF Closed
  <1>6. Buses' = Buses
    BY <1>4, <1>5 DEF Buses
  <1> QED BY <1>1, <1>2, <1>3, <1>6

LEMMA SameConfig == ASSUME config' = config PROVE SameShape
  BY DEF SameShape

(***************************************************************************)
(* A bus begun is one that bridges lead to.                                *)
(***************************************************************************)
LEMMA BegunReached == ASSUME Shape, TablesInv, NEW b, Begun(b) PROVE b \in Buses
  <1>1. CASE b = 0
    BY <1>1 DEF Buses, AllBuses, Closed
  <1>2. CASE \E f \in Bridges : Leads(config, f) /\ config[f].secondary = b
    <2>1. PICK f \in Bridges : Leads(config, f) /\ config[f].secondary = b
      BY <1>2
    <2>2. f \in Answering /\ f[1] \in Buses /\ f \in DOMAIN config
      BY <2>1 DEF TablesInv, Answering
    <2>3. b \in AllBuses
      BY <2>1, <2>2 DEF AllBuses
    <2>4. \A buses \in SUBSET AllBuses : Closed(buses) => b \in buses
      BY <2>1, <2>2 DEF Buses, Closed
    <2> QED BY <2>3, <2>4 DEF Buses
  <1> QED BY <1>1, <1>2 DEF Begun

(***************************************************************************)
(* The tables stay in order when they and the configuration stay as they   *)
(* are, or change only what the scan does not look at, and nothing passed  *)
(* is before the stack again.                                              *)
(***************************************************************************)
SameLists == /\ SameShape /\ Found' = Found /\ Len(device_info') = Len(device_info)
             /\ DOMAIN device_info' = DOMAIN device_info
             /\ \A i \in DOMAIN device_info : device_info'[i].at = device_info[i].at
             /\ bridge_info' = bridge_info

LEMMA ListsKeep ==
    ASSUME Shape, TablesInv, SameLists, \A x \in DOMAIN config : Passed(x) => Passed(x)'
    PROVE  TablesInv' /\ \A b : Begun(b)' = Begun(b)
  <1>1. /\ Answering' = Answering /\ Buses' = Buses /\ Bridges' = Bridges /\ Found' = Found
        /\ \A f \in DOMAIN config : /\ Leads(config', f) = Leads(config, f)
                                     /\ config'[f].secondary = config[f].secondary
                                     /\ config'[f].header = config[f].header
    BY ShapeKeeps DEF SameLists, Bridges, SameShape
  <1>2. Answering \subseteq DOMAIN config /\ Bridges \subseteq DOMAIN config
    BY DEF Answering, TablesInv
  <1>3. ASSUME NEW b PROVE Begun(b)' = Begun(b)
    BY <1>1, <1>2 DEF Begun
  <1>4. ASSUME NEW x \in Found
        PROVE  /\ x \in Answering' /\ config'[x].header = "endpoint" /\ Begun(x[1])' /\ Passed(x)'
    <2>1. x \in DOMAIN config /\ x \in Answering /\ config[x].header = "endpoint" /\ Begun(x[1]) /\ Passed(x)
      BY <1>2 DEF TablesInv
    <2> QED BY <1>1, <1>3, <2>1
  <1>5. ASSUME NEW x \in Bridges
        PROVE  /\ x \in Answering' /\ config'[x].header = "bridge" /\ Begun(x[1])' /\ Passed(x)'
               /\ x[1] \in Buses'
    <2>1. /\ x \in DOMAIN config /\ x \in Answering /\ config[x].header = "bridge" /\ Begun(x[1]) /\ Passed(x)
          /\ x[1] \in Buses
      BY <1>2 DEF TablesInv
    <2> QED BY <1>1, <1>3, <2>1
  <1>6. /\ bridge_info' \in Seq(Entries(bridge_info')) /\ Len(bridge_info') <= MaxBridges
        /\ Len(device_info') <= MaxDevices
        /\ \A i, j \in DOMAIN device_info' : device_info'[i].at = device_info'[j].at => i = j
    BY DEF SameLists, TablesInv
  <1> QED BY <1>1, <1>3, <1>4, <1>5, <1>6 DEF TablesInv

LEMMA SameListsWhenSame == ASSUME UNCHANGED <<config, device_info, bridge_info>> PROVE SameLists
  BY DEF SameLists, SameShape, Found

(***************************************************************************)
(* The scan goes on: what it passes is listed, or need not be.             *)
(***************************************************************************)
LEMMA GoesOn ==
    ASSUME ScanInv, UNCHANGED <<config, device_info, bridge_info, limited>>, StackInv', PhaseInv',
           \A x \in DOMAIN config : Passed(x) => Passed(x)',
           \A x \in Answering : Passed(x)' => Passed(x) \/ config[x].header = "other"
    PROVE  ScanInv'
  <1>1. SameLists /\ Shape /\ TablesInv /\ Complete
    BY SameListsWhenSame DEF ScanInv
  <1>2. TablesInv' /\ \A b : Begun(b)' = Begun(b)
    BY <1>1, ListsKeep
  <1>3. Shape' /\ Answering' = Answering
    BY <1>1, ShapeKeeps DEF SameLists
  <1>4. Found' = Found /\ Bridges' = Bridges
    BY DEF Found, Bridges
  <1>5. Answering \subseteq DOMAIN config
    BY DEF Answering
  <1>6. Complete'
    <2> SUFFICES ASSUME ~limited, NEW x \in Answering, Begun(x[1])', Passed(x)'
                 PROVE  /\ config[x].header = "endpoint" => x \in Found
                        /\ config[x].header = "bridge" => x \in Bridges
      BY <1>3, <1>4 DEF Complete
    <2>1. Begun(x[1]) /\ (Passed(x) \/ config[x].header = "other")
      BY <1>2, <1>5
    <2> QED BY <1>1, <2>1 DEF Complete
  <1> QED BY <1>2, <1>3, <1>6 DEF ScanInv

LEMMA NextDeviceKeeps == ASSUME ScanInv, NextDevice PROVE ScanInv'
  <1>1. /\ phase = "scan" /\ stack # <<>> /\ Here.dev < MaxDevices /\ Here.func >= Functions(Here.bus, Here.dev)
        /\ Goto(Here.dev + 1, 0) /\ UNCHANGED <<config, device_info, bridge_info, limited, phase, dev_info>>
    BY DEF NextDevice, Scanning, Keep
  <1>2. Shape /\ StackInv /\ Here \in Frames
    BY <1>1, Top DEF ScanInv, StackInv
  <1>3. PICK next \in 0 .. MaxDevices : next = Here.dev + 1
    BY <1>1, <1>2, SizeAssumption DEF Frames
  <1>4. next > Here.dev
    BY <1>2, <1>3 DEF Frames
  <1>5. /\ StackInv' /\ \A x \in DOMAIN config : Passed(x) => Passed(x)'
        /\ \A x \in DOMAIN config : Passed(x)' => Passed(x) \/ Between(x, next, 0)
    BY <1>1, <1>2, <1>3, <1>4, Moves
  <1>6. ASSUME NEW x \in Answering, Between(x, next, 0) PROVE FALSE
    <2>1. x \in DOMAIN config /\ x[1] = Here.bus /\ x[2] \in Nat /\ x[3] \in Nat
      BY <1>2, <1>6, Triple DEF Answering, Between
    <2>2. x[2] = Here.dev /\ x[3] >= Here.func
      BY <1>2, <1>3, <1>6, <2>1 DEF Between, Frames
    <2>3. /\ <<Here.bus, Here.dev, 0>> \in DOMAIN config
          /\ x[3] = 0 \/ (config[<<Here.bus, Here.dev, 0>>].multi /\ x[3] < MaxFunctions)
      BY <2>1, <2>2 DEF Answering
    <2>4. Functions(Here.bus, Here.dev) =
             IF config[<<Here.bus, Here.dev, 0>>].multi THEN MaxFunctions ELSE 1
      BY <2>3 DEF Functions, Present
    <2>5. x[3] < Functions(Here.bus, Here.dev) /\ Functions(Here.bus, Here.dev) \in Int
      BY <2>1, <2>3, <2>4, SizeAssumption
    <2> QED BY <1>1, <1>2, <2>1, <2>2, <2>5 DEF Frames
  <1>7. PhaseInv'
    BY <1>1 DEF PhaseInv
  <1> QED BY <1>1, <1>5, <1>6, <1>7, GoesOn DEF Answering

\* One function on.
LEMMA FunctionOn ==
    ASSUME ScanInv, stack # <<>>, Goto(Here.dev, Here.func + 1), UNCHANGED <<config, bridge_info>>
    PROVE  /\ StackInv' /\ \A x \in DOMAIN config : Passed(x) => Passed(x)'
           /\ \A x \in DOMAIN config : Passed(x)' => Passed(x) \/ x = This
           /\ \A x \in DOMAIN config : x = This => ~Passed(x) /\ Passed(x)'
  <1>2. Shape /\ StackInv /\ Here \in Frames /\ Here.dev \in 0 .. MaxDevices /\ Here.func \in Nat
    BY Top DEF ScanInv, StackInv, Frames
  <1>3. PICK next \in Nat : next = Here.func + 1
    BY <1>2
  <1>4. next > Here.func
    BY <1>2, <1>3
  <1>5. /\ StackInv' /\ \A x \in DOMAIN config : Passed(x) => Passed(x)'
        /\ \A x \in DOMAIN config : Passed(x)' => Passed(x) \/ Between(x, Here.dev, next)
    BY <1>2, <1>3, <1>4, Moves
  <1>6. ASSUME NEW x \in DOMAIN config, Between(x, Here.dev, next) PROVE x = This
    <2>1. x[2] \in Nat /\ x[3] \in Nat /\ x = <<x[1], x[2], x[3]>>
      BY <1>2, Triple
    <2>2. x[1] = Here.bus /\ x[2] = Here.dev /\ x[3] = Here.func
      BY <1>2, <1>3, <1>6, <2>1 DEF Between
    <2> QED BY <2>1, <2>2 DEF This
  <1>7. DOMAIN stack = 1 .. Len(stack) /\ Len(stack) \in DOMAIN stack
    BY <1>2, Top DEF StackInv
  <1>8. ASSUME NEW x \in DOMAIN config, x = This PROVE ~Passed(x) /\ Passed(x)'
    <2> DEFINE n == Len(stack)
               frame == [Here EXCEPT !.dev = Here.dev, !.func = Here.func + 1]
    <2>1. x[1] = Here.bus /\ x[2] = Here.dev /\ x[3] = Here.func
      BY <1>8 DEF This
    <2>2. ~Before(x, n) /\ stack[n].bus = x[1] /\ Here = stack[n]
      BY <1>2, <2>1 DEF Before, Here
    <2>3. /\ n \in Nat \ {0} /\ Callers \in Seq(Frames) /\ Len(Callers) = n - 1
          /\ \A k \in 1 .. n - 1 : Callers[k] = stack[k]
      BY <1>2, Top DEF StackInv
    <2>4. \A k \in 1 .. n - 1 : stack[k].bus < stack[n].bus
      BY <1>2, <1>7, <2>3, SMTT(20) DEF StackInv
    <2>5. frame.dev = Here.dev /\ frame.func = Here.func + 1 /\ stack' = Append(Callers, frame)
      BY <1>2 DEF Goto, Frames
    <2> HIDE DEF n, frame
    <2>6. /\ DOMAIN stack' = 1 .. n /\ stack'[n] = frame
          /\ \A k \in 1 .. n - 1 : stack'[k] = stack[k]
      BY <2>3, <2>5
    <2>7. \A k \in 1 .. n : k \in 1 .. n - 1 \/ k = n
      BY <2>3
    <2>8. Here.bus \in Nat
      BY <1>2 DEF Frames
    <2>9. ASSUME NEW k \in 1 .. n, stack'[k].bus = x[1] PROVE Before(x, k)'
      <3>1. k = n
        BY <2>1, <2>2, <2>4, <2>6, <2>7, <2>8, <2>9
      <3>2. x[2] = stack'[k].dev /\ x[3] < stack'[k].func
        BY <1>2, <2>1, <2>5, <2>6, <3>1
      <3> QED BY <3>2 DEF Before
    <2>10. Passed(x)'
      BY <2>6, <2>9 DEF Passed
    <2>11. ~Passed(x)
      BY <1>7, <2>2 DEF Passed, n
    <2> QED BY <2>10, <2>11
  <1> QED BY <1>5, <1>6, <1>8

LEMMA SkipFunctionKeeps == ASSUME ScanInv, SkipFunction PROVE ScanInv'
  <1>1. /\ phase = "scan" /\ stack # <<>> /\ Goto(Here.dev, Here.func + 1)
        /\ Present(This) => Len(device_info) < MaxDevices /\ config[This].header = "other"
        /\ UNCHANGED <<config, device_info, bridge_info, limited, phase, dev_info>>
    BY DEF SkipFunction, Scanning, Keep
  <1>2. /\ StackInv' /\ \A x \in DOMAIN config : Passed(x) => Passed(x)'
        /\ \A x \in DOMAIN config : Passed(x)' => Passed(x) \/ x = This
    BY <1>1, FunctionOn
  <1>3. \A x \in Answering : Passed(x)' => Passed(x) \/ config[x].header = "other"
    BY <1>1, <1>2 DEF Answering, Present
  <1>4. PhaseInv'
    BY <1>1 DEF PhaseInv
  <1> QED BY <1>1, <1>2, <1>3, <1>4, GoesOn

LEMMA ReturnKeeps == ASSUME ScanInv, ReturnFromBus PROVE ScanInv'
  <1>1. /\ phase = "scan" /\ stack # <<>> /\ stack' = Callers /\ Here.dev = MaxDevices
        /\ UNCHANGED <<config, device_info, bridge_info, limited, phase, dev_info>>
    BY DEF ReturnFromBus, Scanning, Keep
  <1>2. /\ StackInv' /\ \A x \in DOMAIN config : Passed(x) => Passed(x)'
        /\ \A x \in DOMAIN config : Passed(x)' /\ ~Passed(x) =>
              ~(x[2] < Here.dev \/ (x[2] = Here.dev /\ x[3] < Here.func))
    BY <1>1, Pops DEF ScanInv
  <1>3. \A x \in Answering : Passed(x)' => Passed(x) \/ config[x].header = "other"
    BY <1>1, <1>2 DEF Answering
  <1>4. PhaseInv'
    BY <1>1 DEF PhaseInv
  <1> QED BY <1>1, <1>2, <1>3, <1>4, GoesOn

\* What was not listed does not count from here on.
LEMMA LimitKeeps == ASSUME ScanInv, LimitReached PROVE ScanInv'
  <1>1. /\ phase = "scan" /\ stack # <<>> /\ stack' = Callers /\ limited'
        /\ UNCHANGED <<config, device_info, bridge_info, phase, dev_info>>
    BY DEF LimitReached, Visiting, Scanning, Keep
  <1>2. StackInv' /\ \A x \in DOMAIN config : Passed(x) => Passed(x)'
    BY <1>1, Pops DEF ScanInv
  <1>3. SameLists /\ Shape /\ TablesInv
    BY <1>1, SameListsWhenSame DEF ScanInv
  <1>4. TablesInv' /\ Shape'
    BY <1>2, <1>3, ListsKeep, ShapeKeeps DEF SameLists
  <1>5. PhaseInv'
    BY <1>1 DEF PhaseInv
  <1> QED BY <1>1, <1>2, <1>4, <1>5 DEF ScanInv, Complete

\* What is visited answers the scan of its bus.
LEMMA VisitedAnswers ==
    ASSUME StackInv, Visiting
    PROVE  This \in Answering /\ This \in DOMAIN config /\ stack # <<>> /\ phase = "scan"
  <1>1. /\ stack # <<>> /\ phase = "scan" /\ Here.dev < MaxDevices
        /\ Here.func < Functions(Here.bus, Here.dev) /\ This \in DOMAIN config
    BY DEF Visiting, Scanning, Present
  <1>2. Here \in Frames
    BY <1>1, Top DEF StackInv
  <1>3. <<Here.bus, Here.dev, 0>> \in DOMAIN config
    BY <1>1, <1>2 DEF Functions, Present, Frames
  <1>4. Here.func = 0 \/ (config[<<Here.bus, Here.dev, 0>>].multi /\ Here.func < MaxFunctions)
    BY <1>1, <1>2, <1>3 DEF Functions, Present, Frames
  <1> QED BY <1>1, <1>3, <1>4 DEF Answering, This

\* Steps that leave the stack alone pass nothing.
LEMMA StackSame ==
    ASSUME StackInv, UNCHANGED <<config, stack, bridge_info>>
    PROVE  StackInv' /\ (\A x : Passed(x)' = Passed(x)) /\ This' = This
  BY DEF StackInv, Passed, Before, Begun, Bridges, This, Here

LEMMA EndpointKeeps == ASSUME ScanInv, FoundEndpoint PROVE ScanInv'
  <1>1. /\ Visiting /\ Len(device_info) < MaxDevices /\ config[This].header = "endpoint"
        /\ dev_info' = [NoEntry EXCEPT !.at = This, !.id = config[This].id] /\ phase' = "size"
        /\ UNCHANGED <<config, stack, device_info, bridge_info, limited>>
    BY DEF FoundEndpoint, Keep
  <1>2. This \in Answering /\ stack # <<>>
    BY <1>1, VisitedAnswers DEF ScanInv
  <1>3. StackInv' /\ (\A x : Passed(x)' = Passed(x)) /\ This' = This
    BY <1>1, StackSame DEF ScanInv
  <1>4. dev_info'.at = This
    BY <1>1 DEF NoEntry
  <1>5. Answering' = Answering
    BY <1>1 DEF Answering
  <1>6. PhaseInv'
    BY <1>1, <1>2, <1>3, <1>4, <1>5 DEF PhaseInv
  <1> QED BY <1>1, <1>3, <1>6, GoesOn

LEMMA SizingKeeps == ASSUME ScanInv, SizeSkipped \/ Size64 \/ Size32 PROVE ScanInv'
  <1>1. PICK n, size, address : Sized(n, size, address) /\ phase = "size"
    BY DEF SizeSkipped, Size64, Size32, Sizing
  <1>2. /\ dev_info' = [dev_info EXCEPT !.bar_size[bar_idx] = size, !.bar_address[bar_idx] = address]
        /\ UNCHANGED <<config, stack, device_info, bridge_info, limited, phase>>
    BY <1>1 DEF Sized, Keep
  <1>3. StackInv' /\ (\A x : Passed(x)' = Passed(x)) /\ This' = This
    BY <1>2, StackSame DEF ScanInv
  <1>4. dev_info'.at = dev_info.at
    BY <1>2
  <1>5. Answering' = Answering
    BY <1>2 DEF Answering
  <1>6. PhaseInv'
    BY <1>1, <1>2, <1>3, <1>4, <1>5 DEF PhaseInv, ScanInv
  <1> QED BY <1>2, <1>3, <1>6, GoesOn

LEMMA SizeDoneKeeps == ASSUME ScanInv, TableOK, SizeDone PROVE ScanInv'
  <1>1. /\ phase = "size" /\ phase' = "scan" /\ Goto(Here.dev, Here.func + 1)
        /\ device_info' = Append(device_info, dev_info)
        /\ UNCHANGED <<config, bridge_info, limited, dev_info>>
    BY DEF SizeDone, Keep
  <1>2. PICK f \in Answering : /\ f = This /\ dev_info.at = f /\ stack # <<>>
                              /\ config[f].header = "endpoint" /\ Len(device_info) < MaxDevices
    BY <1>1 DEF ScanInv, PhaseInv
  <1>3. /\ StackInv' /\ \A x \in DOMAIN config : Passed(x) => Passed(x)'
        /\ \A x \in DOMAIN config : Passed(x)' => Passed(x) \/ x = f
        /\ ~Passed(f) /\ Passed(f)' /\ f \in DOMAIN config
    BY <1>1, <1>2, FunctionOn DEF Answering
  <1>4. Shape /\ StackInv /\ TablesInv /\ Complete /\ SameShape
    BY <1>1, SameConfig DEF ScanInv
  <1>5. /\ device_info \in Seq(Entries(device_info)) /\ DOMAIN device_info = 1 .. Len(device_info)
        /\ Len(device_info) \in Nat
    BY DEF TableOK
  <1>6. /\ Len(device_info') = Len(device_info) + 1 /\ DOMAIN device_info' = 1 .. Len(device_info) + 1
        /\ \A i \in 1 .. Len(device_info) : device_info'[i] = device_info[i]
        /\ device_info'[Len(device_info) + 1] = dev_info
        /\ \A i \in 1 .. Len(device_info) + 1 : i \in 1 .. Len(device_info) \/ i = Len(device_info) + 1
    BY <1>1, <1>5
  <1>7. f \notin Found
    BY <1>3, <1>4 DEF TablesInv
  <1>8. Found' = Found \cup {f}
    <2>1. \A i \in DOMAIN device_info' : device_info'[i].at \in Found \cup {f}
      BY <1>2, <1>5, <1>6 DEF Found
    <2>2. \A i \in DOMAIN device_info : device_info[i].at \in Found'
      BY <1>5, <1>6 DEF Found
    <2>3. f \in Found'
      BY <1>2, <1>5, <1>6 DEF Found
    <2> QED BY <2>1, <2>2, <2>3 DEF Found
  <1>9. Bridges' = Bridges /\ Answering' = Answering /\ Buses' = Buses /\ (\A b : Begun(b)' = Begun(b))
    BY <1>1, <1>4, ShapeKeeps DEF Bridges, Begun
  <1>10. TablesInv'
    <2>1. \A i, j \in DOMAIN device_info' : device_info'[i].at = device_info'[j].at => i = j
      <3>1. \A i \in 1 .. Len(device_info) : device_info'[i].at = device_info[i].at /\ device_info[i].at # f
        BY <1>5, <1>6, <1>7 DEF Found
      <3>2. device_info'[Len(device_info) + 1].at = f
        BY <1>2, <1>6
      <3>3. \A i, j \in 1 .. Len(device_info) : device_info[i].at = device_info[j].at => i = j
        BY <1>4, <1>5 DEF TablesInv
      <3> QED BY <1>6, <3>1, <3>2, <3>3
    <2>2. Len(device_info') <= MaxDevices
      BY <1>2, <1>5, <1>6, SizeAssumption
    <2>3. Begun(f[1])
      <3>1. Here \in Frames /\ Len(stack) \in DOMAIN stack /\ f[1] = stack[Len(stack)].bus
        BY <1>2, <1>4, Top DEF StackInv, This, Here
      <3> QED BY <1>4, <3>1 DEF StackInv
    <2>4. \A x \in Found : /\ x \in Answering /\ config[x].header = "endpoint"
                           /\ Begun(x[1]) /\ Passed(x)'
      BY <1>3, <1>4 DEF TablesInv, Answering
    <2>5. \A x \in Bridges : /\ x \in Answering /\ config[x].header = "bridge"
                             /\ Begun(x[1]) /\ x[1] \in Buses /\ Passed(x)'
      BY <1>3, <1>4 DEF TablesInv, Answering
    <2>6. \A x \in Found \cup {f} : /\ x \in Answering /\ config[x].header = "endpoint"
                                  /\ Begun(x[1]) /\ Passed(x)'
      BY <1>2, <1>3, <2>3, <2>4
    <2>7. \A x \in Found' : /\ x \in Answering' /\ config'[x].header = "endpoint"
                            /\ Begun(x[1])' /\ Passed(x)'
      BY <1>1, <1>8, <1>9, <2>6
    <2>8. \A x \in Bridges' : /\ x \in Answering' /\ config'[x].header = "bridge"
                              /\ Begun(x[1])' /\ x[1] \in Buses' /\ Passed(x)'
      BY <1>1, <1>9, <2>5
    <2>9. bridge_info' \in Seq(Entries(bridge_info')) /\ Len(bridge_info') <= MaxBridges
      BY <1>1, <1>4 DEF TablesInv
    <2> QED BY <2>1, <2>2, <2>7, <2>8, <2>9 DEF TablesInv
  <1>11. Complete'
    <2> SUFFICES ASSUME ~limited, NEW x \in Answering, Begun(x[1]), Passed(x)'
                 PROVE  /\ config[x].header = "endpoint" => x \in Found \cup {f}
                        /\ config[x].header = "bridge" => x \in Bridges
      BY <1>1, <1>8, <1>9 DEF Complete
    <2>1. Passed(x) \/ x = f
      BY <1>3 DEF Answering
    <2> QED BY <1>2, <1>4, <2>1 DEF Complete
  <1>12. PhaseInv'
    BY <1>1 DEF PhaseInv
  <1> QED BY <1>3, <1>4, <1>10, <1>11, <1>12, ShapeKeeps DEF ScanInv

(***************************************************************************)
(* A bridge is listed, and the scan of the bus behind it begins.           *)
(***************************************************************************)
LEMMA BridgeStack ==
    ASSUME StackInv, Shape, FoundBridge, stack # <<>>, NEW sec, sec = config[This].secondary, sec \in Nat
    PROVE  LET n == Len(stack) IN
           /\ \E m \in {n, n + 1} :
                 /\ stack' \in Seq(Frames) /\ DOMAIN stack' = 1 .. m
                 /\ m = n + 1 <=> sec > Here.bus
                 /\ m = n + 1 => stack'[m].bus = sec /\ stack'[m].dev = 0 /\ stack'[m].func = 0
           /\ \A k \in 1 .. n - 1 : stack'[k] = stack[k]
           /\ stack'[n].bus = Here.bus /\ stack'[n].dev = Here.dev /\ stack'[n].func = Here.func + 1
  <1> DEFINE n == Len(stack)
             frame == [Here EXCEPT !.func = @ + 1]
             new == [bus |-> sec, dev |-> 0, func |-> 0]
             below == <<new>>
  <1>1. stack' = Append(Callers, frame) \o (IF sec > Here.bus THEN below ELSE <<>>)
    BY DEF FoundBridge
  <1>2. /\ n \in Nat \ {0} /\ Here \in Frames /\ Callers \in Seq(Frames) /\ Len(Callers) = n - 1
        /\ \A k \in 1 .. n - 1 : Callers[k] = stack[k]
    BY Top DEF StackInv
  <1>3. /\ frame \in Frames /\ frame.bus = Here.bus /\ frame.dev = Here.dev /\ frame.func = Here.func + 1
        /\ new \in Frames /\ new.bus = sec /\ new.dev = 0 /\ new.func = 0
    <2>1. frame \in Frames /\ frame.bus = Here.bus /\ frame.dev = Here.dev /\ frame.func = Here.func + 1
      BY <1>2 DEF Frames
    <2>2. 0 \in 0 .. MaxDevices
      BY SizeAssumption
    <2> QED BY <2>1, <2>2 DEF Frames
  <1> HIDE DEF frame, new
  <1> DEFINE moved == Append(Callers, frame)
  <1>4. /\ moved \in Seq(Frames) /\ Len(moved) = n /\ moved[n] = frame
        /\ \A k \in 1 .. n - 1 : moved[k] = stack[k] /\ k \in 1 .. n
    BY <1>2, <1>3
  <1>5. stack' = moved \o (IF sec > Here.bus THEN below ELSE <<>>)
    BY <1>1
  <1> HIDE DEF moved, n
  <1>6. CASE sec > Here.bus
    <2>1. stack' = moved \o below
      BY <1>5, <1>6
    <2>2. stack' \in Seq(Frames) /\ DOMAIN stack' = 1 .. n + 1 /\ stack'[n + 1] = new
      BY <1>2, <1>3, <1>4, <2>1
    <2>3. \A k \in 1 .. n : stack'[k] = moved[k]
      BY <1>2, <1>3, <1>4, <2>1
    <2>4. n \in 1 .. n
      BY <1>2
    <2> QED BY <1>2, <1>3, <1>4, <1>6, <2>2, <2>3, <2>4 DEF n
  <1>7. CASE ~(sec > Here.bus)
    <2>1. stack' = moved
      BY <1>4, <1>5, <1>7
    <2>2. n # n + 1
      BY <1>2
    <2> QED BY <1>3, <1>4, <1>7, <2>1, <2>2 DEF n
  <1> QED BY <1>6, <1>7

LEMMA BridgeKeeps == ASSUME ScanInv, FoundBridge PROVE ScanInv'
  <1>1. /\ Visiting /\ config[This].header = "bridge" /\ Len(bridge_info) < MaxBridges
        /\ bridge_info' = Append(bridge_info, [at |-> This, secondary |-> config[This].secondary])
        /\ UNCHANGED <<config, device_info, limited, phase, dev_info>>
    BY DEF FoundBridge, Keep
  <1>2. Shape /\ StackInv /\ TablesInv /\ Complete /\ SameShape
    BY <1>1, SameConfig DEF ScanInv
  <1>3. This \in Answering /\ This \in DOMAIN config /\ stack # <<>> /\ phase = "scan"
    BY <1>1, <1>2, VisitedAnswers
  <1>4. PICK f \in Answering : /\ f = This /\ f \in DOMAIN config /\ config[f].header = "bridge"
                              /\ f[1] = Here.bus /\ f[2] = Here.dev /\ f[3] = Here.func
    BY <1>1, <1>3 DEF This
  <1>5. PICK sec \in Nat : sec = config[f].secondary
    BY <1>2, <1>4 DEF Shape
  <1>6. PICK n \in Nat \ {0} :
           /\ n = Len(stack) /\ DOMAIN stack = 1 .. n /\ n \in DOMAIN stack
           /\ Here \in Frames /\ Here = stack[n]
    <2>1. Len(stack) \in Nat \ {0} /\ DOMAIN stack = 1 .. Len(stack) /\ Here \in Frames
      BY <1>2, <1>3, Top DEF StackInv
    <2>2. Len(stack) \in DOMAIN stack
      BY <2>1
    <2> QED BY <2>1, <2>2 DEF Here
  <1>7. Here.bus \in Nat /\ Here.dev \in Nat /\ Here.func \in Nat
    BY <1>6, SizeAssumption DEF Frames
  <1>8. PICK m \in {n, n + 1} :
           /\ stack' \in Seq(Frames) /\ DOMAIN stack' = 1 .. m
           /\ m = n + 1 <=> sec > Here.bus
           /\ m = n + 1 => stack'[m].bus = sec /\ stack'[m].dev = 0 /\ stack'[m].func = 0
           /\ \A k \in 1 .. n - 1 : stack'[k] = stack[k]
           /\ stack'[n].bus = Here.bus /\ stack'[n].dev = Here.dev /\ stack'[n].func = Here.func + 1
    BY <1>2, <1>3, <1>4, <1>5, <1>6, BridgeStack
  <1>9. \A k \in 1 .. n - 1 : stack[k].bus \in Nat /\ stack[k].bus < Here.bus /\ k \in 1 .. n
    <2>1. \A k \in 1 .. n - 1 : k \in 1 .. n /\ k < n
      BY <1>6
    <2>2. \A k \in 1 .. n : stack[k] \in Frames
      BY <1>2, <1>6 DEF StackInv
    <2>3. \A k \in 1 .. n : stack[k].bus \in Nat
      BY <2>2 DEF Frames
    <2>4. \A k \in 1 .. n - 1 : stack[k].bus < stack[n].bus
      BY <1>2, <1>6, <2>1 DEF StackInv
    <2> QED BY <1>6, <2>1, <2>3, <2>4
  <1>17. \A k \in 1 .. m : k \in 1 .. n - 1 \/ k = n \/ (k = n + 1 /\ m = n + 1)
    BY <1>6
  <1>10. Begun(f[1]) /\ f[1] \in Buses
    <2>1. Begun(f[1])
      BY <1>2, <1>4, <1>6 DEF StackInv
    <2> QED BY <1>2, <2>1, BegunReached
  <1>11. Leads(config, f) <=> sec > Here.bus
    BY <1>4, <1>5 DEF Leads
  <1>12. /\ bridge_info' \in Seq(Entries(bridge_info')) /\ Len(bridge_info') <= MaxBridges
         /\ Bridges' = Bridges \cup {f}
    <2> DEFINE e == [at |-> This, secondary |-> config[This].secondary]
               S == Entries(bridge_info) \cup {e}
    <2>1. bridge_info' = Append(bridge_info, e) /\ e.at = f
      BY <1>1, <1>4
    <2> HIDE DEF e
    <2>2. bridge_info \in Seq(S) /\ Len(bridge_info) \in Nat /\ DOMAIN bridge_info = 1 .. Len(bridge_info)
      BY <1>2 DEF TablesInv
    <2>3. /\ bridge_info' \in Seq(S) /\ Len(bridge_info') = Len(bridge_info) + 1
          /\ DOMAIN bridge_info' = 1 .. Len(bridge_info) + 1
          /\ \A i \in 1 .. Len(bridge_info) : bridge_info'[i] = bridge_info[i]
          /\ bridge_info'[Len(bridge_info) + 1] = e
      BY <2>1, <2>2
    <2>4. \A i \in 1 .. Len(bridge_info) + 1 : i \in 1 .. Len(bridge_info) \/ i = Len(bridge_info) + 1
      BY <2>2
    <2> HIDE DEF S
    <2> DEFINE new == bridge_info'
    <2>5. new \in Seq(S)
      BY <2>3
    <2>6. new \in Seq(Entries(new))
      BY <2>5 DEF Entries
    <2>7. Bridges' = Bridges \cup {f}
      <3>1. \A i \in DOMAIN bridge_info' : bridge_info'[i].at \in Bridges \cup {f}
        BY <2>1, <2>2, <2>3, <2>4 DEF Bridges
      <3>2. \A i \in DOMAIN bridge_info : bridge_info[i].at \in Bridges'
        BY <2>2, <2>3 DEF Bridges
      <3>3. f \in Bridges'
        BY <2>1, <2>2, <2>3 DEF Bridges
      <3> QED BY <3>1, <3>2, <3>3 DEF Bridges
    <2>8. Len(bridge_info') <= MaxBridges
      BY <1>1, <2>2, <2>3, SizeAssumption
    <2> QED BY <2>6, <2>7, <2>8 DEF Entries
  <1>13. Answering' = Answering /\ Buses' = Buses /\ Found' = Found
    BY <1>1, <1>2, ShapeKeeps DEF Found
  <1>14. \A b : Begun(b)' <=> Begun(b) \/ (sec > Here.bus /\ b = sec)
    BY <1>1, <1>5, <1>11, <1>12 DEF Begun
  <1>15. StackInv'
    <2>1. \A j, k \in 1 .. m : j < k => stack'[j].bus < stack'[k].bus
      <3>2. \A j, k \in 1 .. n - 1 : j < k => stack[j].bus < stack[k].bus
        BY <1>2, <1>6, <1>9 DEF StackInv
      <3> SUFFICES ASSUME NEW j \in 1 .. m, NEW k \in 1 .. m, j < k
                   PROVE  stack'[j].bus < stack'[k].bus
        OBVIOUS
      <3>3. CASE k \in 1 .. n - 1
        <4>1. j \in 1 .. n - 1
          BY <1>6, <3>3
        <4> QED BY <1>8, <3>2, <3>3, <4>1
      <3>4. CASE k = n
        <4>1. j \in 1 .. n - 1
          BY <1>6, <3>4
        <4> QED BY <1>8, <1>9, <3>4, <4>1
      <3>5. CASE k = n + 1 /\ m = n + 1
        <4>1. stack'[k].bus = sec /\ sec > Here.bus
          BY <1>8, <3>5
        <4>2. CASE j \in 1 .. n - 1
          BY <1>7, <1>8, <1>9, <4>1, <4>2
        <4>3. CASE j = n
          BY <1>8, <4>1, <4>3
        <4> QED BY <1>6, <1>17, <3>5, <4>2, <4>3
      <3> QED BY <1>17, <3>3, <3>4, <3>5
    <2>2. \A k \in 1 .. m : \A b : b = stack'[k].bus => Begun(b)'
      <3>2. \A k \in 1 .. n : Begun(stack[k].bus)
        BY <1>2, <1>6 DEF StackInv
      <3>3. \A k \in 1 .. n - 1 : \A b : b = stack'[k].bus => Begun(b)'
        BY <1>8, <1>9, <1>14, <3>2
      <3>4. \A b : b = stack'[n].bus => Begun(b)'
        BY <1>8, <1>4, <1>10, <1>14
      <3>5. m = n + 1 => \A b : b = stack'[m].bus => Begun(b)'
        BY <1>8, <1>14
      <3> QED BY <1>17, <3>3, <3>4, <3>5
    <2> QED BY <1>8, <2>1, <2>2 DEF StackInv, Begun, Bridges
  <1>16. ~Passed(f)
    <2>1. ~Before(f, n) /\ stack[n].bus = f[1]
      BY <1>4, <1>6, <1>7 DEF Before
    <2> QED BY <1>6, <2>1 DEF Passed
  <1>18. \A x \in Found \cup Bridges : x[1] = sec => ~(sec > Here.bus)
    <2> SUFFICES ASSUME NEW x \in Found \cup Bridges, x[1] = sec, sec > Here.bus PROVE FALSE
      OBVIOUS
    <2>1. Begun(sec)
      BY <1>2 DEF TablesInv
    <2>2. PICK g \in Bridges : Leads(config, g) /\ config[g].secondary = sec
      BY <1>7, <2>1 DEF Begun
    <2>3. g = f
      BY <1>2, <1>4, <1>5, <1>11, <2>2 DEF Shape, TablesInv, Answering
    <2> QED BY <1>2, <1>16, <2>2, <2>3 DEF TablesInv
  <1>19. ASSUME NEW x \in DOMAIN config, Passed(x) \/ x = f, x[1] = sec => ~(sec > Here.bus)
         PROVE  Passed(x)'
    <2>0. x[2] \in Nat /\ x[3] \in Nat
      BY <1>2, Triple
    <2>1. ASSUME NEW k \in 1 .. m, stack'[k].bus = x[1] PROVE Before(x, k)'
      <3>1. CASE k \in 1 .. n - 1
        <4>1. stack'[k] = stack[k] /\ stack[k].bus < Here.bus /\ stack[k].bus \in Nat /\ k \in DOMAIN stack
          BY <1>6, <1>8, <1>9, <3>1
        <4>2. x # f
          BY <1>4, <1>7, <2>1, <4>1
        <4>3. Before(x, k)
          BY <1>19, <2>1, <4>1, <4>2 DEF Passed
        <4> QED BY <4>1, <4>3 DEF Before
      <3>2. CASE k = n
        <4>1. x # f => x[2] < Here.dev \/ (x[2] = Here.dev /\ x[3] < Here.func)
          BY <1>6, <1>8, <1>19, <2>1, <3>2 DEF Passed, Before
        <4>2. x = f => x[2] = Here.dev /\ x[3] = Here.func
          BY <1>4
        <4>3. x[2] < Here.dev \/ (x[2] = Here.dev /\ x[3] < Here.func + 1)
          BY <1>7, <2>0, <4>1, <4>2
        <4> QED BY <1>8, <3>2, <4>3 DEF Before
      <3>3. CASE k = n + 1 /\ m = n + 1
        BY <1>8, <1>19, <2>1, <3>3
      <3> QED BY <1>17, <3>1, <3>2, <3>3
    <2> QED BY <1>8, <2>1 DEF Passed
  <1>20. ASSUME NEW x \in DOMAIN config, Passed(x)'
         PROVE  (Passed(x) \/ x = f) /\ ~(x[1] = sec /\ sec > Here.bus)
    <2>0. x[1] \in Nat /\ x[2] \in Nat /\ x[3] \in Nat /\ x = <<x[1], x[2], x[3]>>
      BY <1>2, Triple
    <2>1. ~(x[1] = sec /\ sec > Here.bus)
      <3> SUFFICES ASSUME x[1] = sec, sec > Here.bus PROVE FALSE
        OBVIOUS
      <3>1. m = n + 1 /\ m \in 1 .. m /\ stack'[m].bus = sec /\ stack'[m].dev = 0 /\ stack'[m].func = 0
        BY <1>6, <1>8
      <3>2. x[2] < stack'[m].dev \/ (x[2] = stack'[m].dev /\ x[3] < stack'[m].func)
        BY <1>8, <1>20, <3>1 DEF Passed, Before
      <3> QED BY <2>0, <3>1, <3>2
    <2>2. ASSUME ~Passed(x) PROVE x = f
      <3>1. PICK k \in 1 .. n : stack[k].bus = x[1] /\ ~Before(x, k)
        BY <1>6, <2>2 DEF Passed
      <3>2. k \in 1 .. m /\ (k \in 1 .. n - 1 \/ k = n)
        BY <1>6, <1>8
      <3>3. stack'[k].bus = x[1]
        BY <1>6, <1>8, <3>1, <3>2
      <3>4. x[2] < stack'[k].dev \/ (x[2] = stack'[k].dev /\ x[3] < stack'[k].func)
        BY <1>8, <1>20, <3>2, <3>3 DEF Passed, Before
      <3>5. k = n
        BY <1>8, <3>1, <3>2, <3>4 DEF Before
      <3>6. x[2] < Here.dev \/ (x[2] = Here.dev /\ x[3] < Here.func + 1)
        BY <1>8, <3>4, <3>5
      <3>7. ~(x[2] < Here.dev \/ (x[2] = Here.dev /\ x[3] < Here.func)) /\ x[1] = Here.bus
        BY <1>6, <3>1, <3>5 DEF Before
      <3>8. x[2] = Here.dev /\ x[3] = Here.func
        BY <1>7, <2>0, <3>6, <3>7
      <3>9. f = <<f[1], f[2], f[3]>>
        BY <1>2, <1>4, Triple
      <3> QED BY <1>4, <2>0, <3>7, <3>8, <3>9
    <2> QED BY <2>1, <2>2
  <1>21. TablesInv'
    <2>1. \A x \in Found : /\ x \in Answering /\ config[x].header = "endpoint"
                           /\ Begun(x[1])' /\ Passed(x)'
      BY <1>2, <1>14, <1>18, <1>19 DEF TablesInv, Answering
    <2>2. \A x \in Bridges : /\ x \in Answering /\ config[x].header = "bridge"
                             /\ Begun(x[1])' /\ x[1] \in Buses /\ Passed(x)'
      BY <1>2, <1>14, <1>18, <1>19 DEF TablesInv, Answering
    <2>3. /\ f \in Answering /\ config[f].header = "bridge" /\ Begun(f[1])' /\ f[1] \in Buses
          /\ Passed(f)'
      <3>1. f[1] = sec => ~(sec > Here.bus)
        BY <1>4, <1>7
      <3> QED BY <1>4, <1>10, <1>14, <1>19, <3>1
    <2>4. \A x \in Bridges \cup {f} : /\ x \in Answering /\ config[x].header = "bridge"
                             /\ Begun(x[1])' /\ x[1] \in Buses /\ Passed(x)'
      BY <2>2, <2>3
    <2>5. \A x \in Bridges' : /\ x \in Answering' /\ config'[x].header = "bridge"
                              /\ Begun(x[1])' /\ x[1] \in Buses' /\ Passed(x)'
      BY <1>1, <1>12, <1>13, <2>4
    <2>6. \A x \in Found' : /\ x \in Answering' /\ config'[x].header = "endpoint"
                            /\ Begun(x[1])' /\ Passed(x)'
      BY <1>1, <1>13, <2>1
    <2>7. /\ Len(device_info') <= MaxDevices
          /\ \A i, j \in DOMAIN device_info' : device_info'[i].at = device_info'[j].at => i = j
      BY <1>1, <1>2 DEF TablesInv
    <2> QED BY <1>12, <2>5, <2>6, <2>7 DEF TablesInv
  <1>22. Complete'
    <2> SUFFICES ASSUME ~limited, NEW x \in Answering, Begun(x[1])', Passed(x)'
                 PROVE  /\ config[x].header = "endpoint" => x \in Found
                        /\ config[x].header = "bridge" => x \in Bridges \cup {f}
      BY <1>1, <1>12, <1>13 DEF Complete
    <2>1. x \in DOMAIN config
      BY DEF Answering
    <2>2. Begun(x[1]) /\ (Passed(x) \/ x = f)
      BY <1>14, <1>20, <2>1
    <2> QED BY <1>2, <1>4, <2>2 DEF Complete
  <1>23. PhaseInv'
    BY <1>1, <1>3 DEF PhaseInv
  <1> QED BY <1>2, <1>15, <1>21, <1>22, <1>23, ShapeKeeps DEF ScanInv

-----------------------------------------------------------------------------
(* After the scan *)

(***************************************************************************)
(* Steps that write registers and the addresses in the table, and leave    *)
(* the scan where it is.                                                   *)
(***************************************************************************)
LEMMA ListsStep == ASSUME ScanInv, SameLists, UNCHANGED <<stack, limited>>, PhaseInv' PROVE ScanInv'
  <1>1. Shape /\ StackInv /\ TablesInv /\ Complete /\ SameShape
    BY DEF ScanInv, SameLists
  <1>2. \A x : Passed(x)' = Passed(x)
    BY DEF Passed, Before
  <1>3. TablesInv' /\ \A b : Begun(b)' = Begun(b)
    BY <1>1, <1>2, ListsKeep
  <1>4. Shape' /\ Answering' = Answering
    BY <1>1, ShapeKeeps
  <1>5. StackInv'
    <2>1. \A k \in DOMAIN stack : Begun(stack[k].bus)'
      BY <1>1, <1>3 DEF StackInv
    <2> QED BY <1>1, <2>1 DEF StackInv
  <1>6. Found' = Found /\ Bridges' = Bridges
    BY DEF SameLists, Bridges
  <1>7. Complete'
    <2> SUFFICES ASSUME ~limited, NEW x \in Answering, Begun(x[1]), Passed(x)
                 PROVE  /\ config'[x].header = "endpoint" => x \in Found
                        /\ config'[x].header = "bridge" => x \in Bridges
      BY <1>2, <1>3, <1>4, <1>6 DEF Complete
    <2>1. config'[x].header = config[x].header
      BY <1>1 DEF SameShape, Answering
    <2> QED BY <1>1, <2>1 DEF Complete
  <1> QED BY <1>3, <1>4, <1>5, <1>7 DEF ScanInv

LEMMA DoneKeeps == ASSUME ScanInv, ScanDone PROVE ScanInv'
  <1>1. UNCHANGED <<config, stack, device_info, bridge_info, limited>> /\ phase' = "alloc" /\ stack = <<>>
    BY DEF ScanDone, Keep
  <1> QED BY <1>1, SameListsWhenSame, ListsStep DEF PhaseInv

LEMMA ScanStepKeeps == ASSUME ScanInv, TableOK, ScanStep PROVE ScanInv'
  BY NextDeviceKeeps, SkipFunctionKeeps, ReturnKeeps, LimitKeeps, EndpointKeeps, BridgeKeeps, SizingKeeps,
     SizeDoneKeeps, DoneKeeps DEF ScanStep

LEMMA AllocStepKeeps == ASSUME ScanInv, TableOK, AllocStep PROVE ScanInv'
  <1>1. phase' \in {"alloc", "up"} /\ phase = "alloc" /\ UNCHANGED <<stack, bridge_info, limited>>
    BY DEF AllocStep, AllocHostBridge, AllocNoBar, AllocBar, AllocDevice, AllocDone, Allocating, KeepScan
  <1>2. PhaseInv'
    BY <1>1 DEF PhaseInv, ScanInv
  <1>3. SameLists
    <2>1. CASE AllocHostBridge \/ AllocNoBar \/ AllocDone
      BY <1>1, <2>1, SameListsWhenSame DEF AllocHostBridge, AllocNoBar, AllocDone
    <2>2. CASE AllocBar
      <3>1. PICK addr :
              /\ config' = [config EXCEPT ![Device.at].bars[bar_idx].value = addr]
              /\ device_info' = [device_info EXCEPT ![alloc_idx].bar_address[bar_idx] = addr]
        BY <2>2 DEF AllocBar
      <3>2. SameShape
        BY <3>1 DEF SameShape, ScanInv, Shape
      <3>3. /\ DOMAIN device_info' = DOMAIN device_info
            /\ \A i \in DOMAIN device_info : device_info'[i].at = device_info[i].at
        BY <3>1 DEF TableOK
      <3>4. Len(device_info') = Len(device_info)
        BY <3>1 DEF TableOK
      <3> QED BY <1>1, <3>2, <3>3, <3>4 DEF SameLists, Found
    <2>3. CASE AllocDevice
      <3>1. UNCHANGED device_info /\ SameShape
        BY <2>3 DEF AllocDevice, SameShape, ScanInv, Shape
      <3> QED BY <1>1, <3>1 DEF SameLists, Found
    <2> QED BY <2>1, <2>2, <2>3 DEF AllocStep
  <1> QED BY <1>1, <1>2, <1>3, ListsStep

LEMMA ValidateStepKeeps == ASSUME ScanInv, Validate PROVE ScanInv'
  <1>1. UNCHANGED <<phase, stack, device_info, bridge_info, dev_info, limited>>
    BY DEF Validate
  <1>2. SameShape
    <2>1. CASE UNCHANGED config
      BY <2>1, SameConfig
    <2>2. CASE \E dev \in Vfio : ConfigDeviceResources(dev)
      <3>1. PICK dev \in Vfio : ConfigDeviceResources(dev)
        BY <2>2
      <3>2. DOMAIN config' = DOMAIN config
        BY <3>1 DEF ConfigDeviceResources
      <3>3. ASSUME NEW f \in DOMAIN config
            PROVE  /\ DOMAIN config'[f] = DOMAIN config[f]
                   /\ config'[f].header = config[f].header /\ config'[f].multi = config[f].multi
                   /\ config'[f].secondary = config[f].secondary
        <4>1. \E w, b, c : config'[f] = [config[f] EXCEPT !.window = w, !.bars = b, !.cmd = c]
          BY <3>1 DEF ConfigDeviceResources
        <4>2. {"header", "multi", "secondary"} \subseteq DOMAIN config[f]
          BY DEF ScanInv, Shape
        <4> QED BY <4>1, <4>2
      <3> QED BY <3>2, <3>3 DEF SameShape
    <2> QED BY <2>1, <2>2 DEF Validate
  <1>3. SameLists
    BY <1>1, <1>2 DEF SameLists, Found
  <1>4. Answering' = Answering /\ This' = This /\ \A f \in Answering : config'[f].header = config[f].header
    BY <1>1, <1>2, ShapeKeeps DEF ScanInv, This, Here, SameShape, Answering
  <1>5. PhaseInv'
    BY <1>1, <1>4 DEF PhaseInv, ScanInv
  <1> QED BY <1>1, <1>3, <1>5, ListsStep

LEMMA StandsStill == ASSUME ScanInv, UNCHANGED scanVars PROVE ScanInv'
  <1>1. UNCHANGED <<config, phase, stack, device_info, bridge_info, dev_info, limited>>
    BY DEF scanVars
  <1>2. PhaseInv'
    BY <1>1 DEF PhaseInv, ScanInv, This, Here, Answering
  <1> QED BY <1>1, <1>2, SameListsWhenSame, ListsStep

LEMMA ScanInitInv == ScanInit => ScanInv
  <1> SUFFICES ASSUME ScanInit PROVE ScanInv
    OBVIOUS
  <1>1. /\ config \in Topologies /\ phase = "scan" /\ stack = <<[bus |-> 0, dev |-> 0, func |-> 0]>>
        /\ device_info = <<>> /\ bridge_info = <<>>
    BY DEF ScanInit
  <1>2. Shape
    BY <1>1, TopologiesAssumption DEF Shape
  <1>3. StackInv
    <2>1. 0 \in 0 .. MaxDevices
      BY SizeAssumption
    <2> QED BY <1>1, <2>1 DEF StackInv, Frames, Begun
  <1>4. Found = {} /\ Bridges = {}
    BY <1>1 DEF Found, Bridges
  <1>5. TablesInv
    BY <1>1, <1>4, SizeAssumption DEF TablesInv
  <1>6. Complete
    <2> SUFFICES ASSUME NEW x \in Answering, Begun(x[1]), Passed(x) PROVE FALSE
      BY DEF Complete
    <2>1. x[1] = 0 /\ x[2] \in Nat /\ x[3] \in Nat
      BY <1>2, <1>4, Triple DEF Begun, Answering
    <2>2. 1 \in DOMAIN stack /\ stack[1].bus = 0 /\ stack[1].dev = 0 /\ stack[1].func = 0
      BY <1>1
    <2> QED BY <2>1, <2>2 DEF Passed, Before
  <1> QED BY <1>1, <1>2, <1>3, <1>5, <1>6 DEF ScanInv, PhaseInv

LEMMA RtosScans == PciInv /\ ScanInv /\ [RtosNext]_<<vars, pciVars>> => ScanInv'
  <1> SUFFICES ASSUME PciInv, ScanInv, [RtosNext]_<<vars, pciVars>> PROVE ScanInv'
    OBVIOUS
  <1>1. CASE UNCHANGED scanVars
    BY <1>1, StandsStill
  <1>2. CASE UartStep
    BY <1>1, <1>2 DEF UartStep, pciVars
  <1>3. CASE CliStep
    <2>1. CASE UNCHANGED pciVars
      BY <1>1, <2>1 DEF pciVars
    <2>2. CASE \E c : PciCommand(c)
      BY <1>1, <2>2 DEF PciCommand, PciStart, PciSuspend, PciTestStart, pciVars
    <2> QED BY <1>3, <2>1, <2>2 DEF CliStep, Command
  <1>4. CASE PciStarted \/ MsiIrq
    BY <1>1, <1>4 DEF PciStarted, MsiIrq
  <1>5. CASE BootStep
    BY <1>5, ScanStepKeeps, AllocStepKeeps DEF BootStep, PciInv
  <1>6. CASE PciTaskStep
    BY <1>1, <1>6, ValidateStepKeeps DEF PciTaskStep, Boot, LoopWait, Baseline, StateClear, Discard, Trigger,
       WaitEnd, Judge
  <1> QED BY <1>1, <1>2, <1>3, <1>4, <1>5, <1>6 DEF RtosNext, Work, PciStep, pciVars

-----------------------------------------------------------------------------
(* What the tables hold at the end *)

\* A table without an entry twice has as many functions as entries.
LEMMA AsManyFound == ASSUME TableOK, TablesInv PROVE Cardinality(Found) = Len(device_info)
  <1> DEFINE n == Len(device_info)
             place == [i \in 1 .. n |-> device_info[i].at]
  <1>1. n \in Nat /\ DOMAIN device_info = 1 .. n
    BY DEF TableOK
  <1>2. place \in Bijection(1 .. n, Found)
    <2>1. place \in [1 .. n -> Found] /\ \A y \in Found : \E i \in 1 .. n : place[i] = y
      BY <1>1 DEF Found
    <2>2. \A i, j \in 1 .. n : place[i] = place[j] => i = j
      BY <1>1 DEF TablesInv
    <2> QED BY <2>1, <2>2 DEF Bijection, Injection, Surjection, IsInjective
  <1>3. IsFiniteSet(1 .. n) /\ Cardinality(1 .. n) = n
    <2> HIDE DEF n
    <2>1. IsFiniteSet(1 .. n) /\ Cardinality(1 .. n) = IF 1 > n THEN 0 ELSE n - 1 + 1
      BY <1>1, FS_Interval
    <2> QED BY <1>1, <2>1
  <1> HIDE DEF n, place
  <1>4. ExistsBijection(1 .. n, Found)
    BY <1>2 DEF ExistsBijection
  <1> QED BY <1>3, <1>4, FS_Bijection DEF n

\* The buses begun are all that bridges lead to, once no frame is left.
LEMMA AllBegun ==
    ASSUME Shape, Complete, stack = <<>>, ~limited, NEW b \in Buses
    PROVE  Begun(b)
  <1> DEFINE B == {c \in AllBuses : Begun(c)}
  <1>1. \A x : Passed(x)
    BY DEF Passed
  <1>2. Closed(B)
    <2>1. 0 \in B
      BY DEF AllBuses, Begun
    <2>2. ASSUME NEW f \in Answering, Leads(config, f), f[1] \in B PROVE config[f].secondary \in B
      <3>1. f \in Bridges
        BY <1>1, <2>2 DEF Complete, Leads
      <3>2. config[f].secondary \in AllBuses
        BY DEF AllBuses, Answering
      <3> QED BY <2>2, <3>1, <3>2 DEF Begun
    <2> QED BY <2>1, <2>2 DEF Closed
  <1>3. B \in SUBSET AllBuses
    OBVIOUS
  <1>4. b \in B
    BY <1>2, <1>3 DEF Buses
  <1> QED BY <1>4

LEMMA ScanTellsExact == ASSUME TableOK, ScanInv PROVE ScanExact
  <1> DEFINE endpoints == {f \in Visible : config[f].header = "endpoint"}
  <1>1. TablesInv /\ Shape /\ Complete
    BY DEF ScanInv
  <1>2. Found \subseteq endpoints
    BY <1>1, BegunReached DEF TablesInv, Visible
  <1>3. ASSUME phase \in {"alloc", "up"}, ~limited PROVE endpoints \subseteq Found
    <2> SUFFICES ASSUME NEW x \in Answering, x[1] \in Buses, config[x].header = "endpoint" PROVE x \in Found
      BY DEF Visible
    <2>1. stack = <<>>
      BY <1>3 DEF ScanInv, PhaseInv
    <2>2. Begun(x[1]) /\ Passed(x)
      BY <1>1, <1>3, <2>1, AllBegun DEF Passed
    <2> QED BY <1>1, <1>3, <2>2 DEF Complete
  <1>4. /\ Len(device_info) <= MaxDevices /\ Len(bridge_info) <= MaxBridges
        /\ Cardinality(Found) = Len(device_info)
    BY <1>1, AsManyFound DEF TablesInv
  <1> QED BY <1>2, <1>3, <1>4 DEF ScanExact, Found

(***************************************************************************)
(* The device table lists no function twice and nothing but endpoints that *)
(* answer on a bus that bridges lead to; unless a table was full it lists  *)
(* them all.  For every configuration of devices and bridges in which each *)
(* bus is behind one bridge.                                               *)
(***************************************************************************)
THEOREM ScanAlwaysExact == RtosSpec => []ScanExact
  <1>1. RtosInit => PciInv /\ ScanInv
    BY PciInitInv, ScanInitInv DEF RtosInit, PciInit
  <1>2. PciInv /\ ScanInv /\ [RtosNext]_<<vars, pciVars>> => PciInv' /\ ScanInv'
    BY RtosKeeps, RtosScans
  <1>3. PciInv /\ ScanInv => ScanExact
    BY ScanTellsExact DEF PciInv
  <1> QED BY <1>1, <1>2, <1>3, PTL DEF RtosSpec

-----------------------------------------------------------------------------
(* The allocation *)

LEMMA DivMod ==
    ASSUME NEW a \in Nat, NEW s \in Nat \ {0}
    PROVE  /\ a \div s \in Nat /\ a % s \in Nat /\ a % s < s
           /\ a = s * (a \div s) + (a % s)
  OBVIOUS
LEMMA TimesMod ==
    ASSUME NEW q \in Nat, NEW s \in Nat \ {0} PROVE (q * s) % s = 0
  <1> DEFINE a == q * s
  <1>0. a \in Nat
    OBVIOUS
  <1>1. PICK k \in Nat, m \in Nat : a = s * k + m /\ m < s /\ m = a % s
    <2> HIDE DEF a
    <2> QED BY <1>0, DivMod
  <1>2. m = s * (q - k)
    BY <1>1
  <1>3. CASE q - k > 0
    <2>1. s * (q - k) >= s
      BY <1>3
    <2> QED BY <1>1, <1>2, <2>1
  <1>4. CASE q - k < 0
    <2>1. s * (q - k) < 0
      BY <1>4
    <2> QED BY <1>1, <1>2, <2>1
  <1>5. CASE q - k = 0
    BY <1>1, <1>2, <1>5
  <1> QED BY <1>3, <1>4, <1>5
LEMMA AlignedUp ==
    ASSUME NEW free \in Nat, NEW s \in Nat \ {0}, NEW w \in Nat \ {0}, s <= w,
           NEW addr, addr = (((free + s - 1) \div s) * s) % w, addr >= free
    PROVE  addr \in Nat /\ addr < w /\ addr % s = 0
  <1>1. PICK top \in Nat : top = free + s - 1
    OBVIOUS
  <1>2. PICK q \in Nat : q = top \div s /\ q * s <= top
    BY <1>1, DivMod
  <1>3. PICK x \in Nat : x = q * s
    OBVIOUS
  <1>4. addr = x % w /\ addr \in Nat /\ addr < w
    BY <1>1, <1>2, <1>3
  <1>5. x < w
    <2> SUFFICES ASSUME x >= w PROVE FALSE
      BY <1>3
    <2>1. x - w \in Nat /\ x - w < w
      BY <1>1, <1>2, <1>3, <1>4
    <2>2. x % w = x - w
      BY <2>1
    <2> QED BY <1>1, <1>2, <1>3, <1>4, <2>2
  <1>6. addr = x
    BY <1>4, <1>5
  <1> QED BY <1>3, <1>4, <1>6, TimesMod

FitsEntry(e) ==
    /\ {"at", "bar_size", "bar_address"} \subseteq DOMAIN e
    /\ DOMAIN e.bar_size = Bars /\ DOMAIN e.bar_address = Bars
    /\ \A b \in Bars : e.bar_size[b] \in Nat /\ e.bar_size[b] < Wrap /\ e.bar_address[b] \in Nat

PlacedWell(r) ==
    /\ Start(r) \in Nat /\ Start(r) % Size(r) = 0 /\ Start(r) >= MmioBase
    /\ Start(r) + Size(r) <= free_mmio /\ Start(r) + Size(r) < Wrap
    /\ config[device_info[r[1]].at].bars[r[2]].value = Start(r)

Apart(r, q) == Start(r) + Size(r) <= Start(q) \/ Start(q) + Size(q) <= Start(r)

RegistersInv ==
    /\ \A f \in DOMAIN config : BarsFit(config[f])
    /\ FitsEntry(dev_info) /\ \A i \in DOMAIN device_info : FitsEntry(device_info[i])
    /\ bar_idx \in Nat /\ alloc_idx \in Nat \ {0} /\ free_mmio \in Nat
    /\ phase \in {"scan", "size"} => alloc_idx = 1
    /\ phase = "alloc" /\ alloc_idx \in DOMAIN device_info /\ Device.at = <<0, 0, 0>> => bar_idx = 0
    /\ phase = "up" => alloc_idx > Len(device_info)

PlacedInv ==
    ~wrapped => /\ free_mmio >= MmioBase
                /\ phase \in {"alloc", "up"} =>
                      /\ \A r \in Placed : PlacedWell(r)
                      /\ \A r, q \in Placed : r # q => Apart(r, q)

VectorsInv ==
    /\ vector_count \in 0 .. MaxPciMsi
    /\ \A f \in DOMAIN config : "msi" \in DOMAIN config[f] /\ config[f].msi \subseteq 0 .. vector_count - 1
    /\ \A f, g \in DOMAIN config : f # g => config[f].msi \cap config[g].msi = {}

AllocInv == RegistersInv /\ PlacedInv /\ VectorsInv

LEMMA AllocInitInv == ScanInit => AllocInv
  <1> SUFFICES ASSUME ScanInit PROVE AllocInv
    OBVIOUS
  <1>1. /\ config \in Topologies /\ phase = "scan" /\ device_info = <<>> /\ dev_info = NoEntry
        /\ bar_idx = 0 /\ alloc_idx = 1 /\ free_mmio = MmioBase /\ vector_count = 0 /\ wrapped = FALSE
    BY DEF ScanInit
  <1>2. FitsEntry(NoEntry)
    BY SizeAssumption DEF FitsEntry, NoEntry
  <1>3. \A f \in DOMAIN config : "msi" \in DOMAIN config[f] /\ config[f].msi = {} /\ BarsFit(config[f])
    BY <1>1, TopologiesAssumption
  <1>4. RegistersInv
    BY <1>1, <1>2, <1>3, SizeAssumption DEF RegistersInv
  <1>5. PlacedInv
    BY <1>1, SizeAssumption DEF PlacedInv
  <1>6. VectorsInv
    BY <1>1, <1>3, SizeAssumption DEF VectorsInv
  <1> QED BY <1>4, <1>5, <1>6 DEF AllocInv

\* The sizing fills in entries of the same shape.
LEMMA SizedFits ==
    ASSUME FitsEntry(dev_info), NEW b \in Bars, NEW size \in Nat, size < Wrap, NEW address \in Nat,
           dev_info' = [dev_info EXCEPT !.bar_size[b] = size, !.bar_address[b] = address]
    PROVE  FitsEntry(dev_info')
  <1>1. {"at", "bar_size", "bar_address"} \subseteq DOMAIN dev_info'
    BY DEF FitsEntry
  <1>2. dev_info'.bar_size = [dev_info.bar_size EXCEPT ![b] = size]
    BY DEF FitsEntry
  <1>3. dev_info'.bar_address = [dev_info.bar_address EXCEPT ![b] = address]
    BY DEF FitsEntry
  <1> QED BY <1>1, <1>2, <1>3 DEF FitsEntry

LEMMA ScanAllocKeeps == ASSUME AllocInv, ScanInv, TableOK, ScanStep PROVE AllocInv'
  <1>1. UNCHANGED <<config, alloc_idx, free_mmio, vector_count, wrapped>> /\ phase \in {"scan", "size"}
    BY DEF ScanStep, NextDevice, SkipFunction, ReturnFromBus, LimitReached, FoundEndpoint, FoundBridge,
           SizeSkipped, Size64, Size32, Sized, SizeDone, ScanDone, Keep, Scanning, Visiting, Sizing
  <1>2. RegistersInv /\ PlacedInv /\ VectorsInv /\ alloc_idx = 1
    BY <1>1 DEF AllocInv, RegistersInv
  <1>3. VectorsInv'
    BY <1>1, <1>2 DEF VectorsInv
  <1>4. ASSUME phase' \in {"scan", "size"}, bar_idx' \in Nat, FitsEntry(dev_info'),
               \A i \in DOMAIN device_info' : FitsEntry(device_info'[i])
        PROVE  AllocInv'
    <2>1. RegistersInv'
      BY <1>1, <1>2, <1>4 DEF RegistersInv
    <2>2. PlacedInv'
      BY <1>1, <1>2, <1>4 DEF PlacedInv
    <2> QED BY <1>3, <2>1, <2>2 DEF AllocInv
  <1>5. CASE NextDevice \/ SkipFunction \/ ReturnFromBus \/ LimitReached \/ FoundBridge
    <2>1. UNCHANGED <<phase, device_info, dev_info, bar_idx>>
      BY <1>5 DEF NextDevice, SkipFunction, ReturnFromBus, LimitReached, FoundBridge
    <2> QED BY <1>1, <1>2, <1>4, <2>1 DEF RegistersInv
  <1>6. CASE FoundEndpoint
    <2>1. /\ dev_info' = [NoEntry EXCEPT !.at = This, !.id = config[This].id] /\ bar_idx' = 0
          /\ phase' = "size" /\ UNCHANGED device_info
      BY <1>6 DEF FoundEndpoint
    <2>2. FitsEntry(dev_info')
      BY <2>1, SizeAssumption DEF FitsEntry, NoEntry
    <2> QED BY <1>2, <1>4, <2>1, <2>2 DEF RegistersInv
  <1>7. CASE SizeSkipped \/ Size64 \/ Size32
    <2>1. phase = "size" /\ bar_idx < MaxBars
      BY <1>7 DEF SizeSkipped, Size64, Size32, Sizing
    <2>2. This \in DOMAIN config /\ bar_idx \in Bars
      BY <1>2, <2>1, SizeAssumption DEF ScanInv, PhaseInv, Answering, RegistersInv, Bars
    <2>3. Bar.size \in Nat /\ Bar.value \in Nat /\ dev_info.bar_address[bar_idx] \in Nat /\ (Bar.size < Wrap \/ Is64(Bar))
      BY <1>2, <2>2 DEF RegistersInv, BarsFit, Bar, Registers, Is64, FitsEntry
    <2>4. PICK n \in Nat, size \in Nat, address \in Nat : size < Wrap /\ Sized(n, size, address)
      <3>1. CASE SizeSkipped
        BY <2>3, <3>1, SizeAssumption DEF SizeSkipped
      <3>2. CASE Size64
        <4>1. PICK size \in Nat : size = (IF Bar.size >= Wrap THEN Wrap - 1 ELSE Bar.size) /\ size < Wrap
          BY <2>3, SizeAssumption
        <4> QED BY <2>3, <3>2, <4>1 DEF Size64
      <3>3. CASE Size32
        <4>1. PICK size \in Nat : size = (IF Bar.size = Least THEN 0 ELSE Bar.size) /\ size < Wrap
          BY <2>3, <3>3, SizeAssumption DEF Size32
        <4> QED BY <2>3, <3>3, <4>1 DEF Size32
      <3> QED BY <1>7, <3>1, <3>2, <3>3
    <2>5. /\ dev_info' = [dev_info EXCEPT !.bar_size[bar_idx] = size, !.bar_address[bar_idx] = address]
          /\ bar_idx' = bar_idx + n /\ UNCHANGED <<phase, device_info>>
      BY <2>4 DEF Sized
    <2>6. FitsEntry(dev_info')
      BY <1>2, <2>2, <2>4, <2>5, SizedFits DEF RegistersInv
    <2> QED BY <1>1, <1>2, <1>4, <2>5, <2>6 DEF RegistersInv
  <1>8. CASE SizeDone
    <2>1. device_info' = Append(device_info, dev_info) /\ phase' = "scan" /\ UNCHANGED <<dev_info, bar_idx>>
      BY <1>8 DEF SizeDone
    <2>2. \A i \in DOMAIN device_info' : device_info'[i] = dev_info \/ \E j \in DOMAIN device_info : device_info'[i] = device_info[j]
      BY <2>1 DEF TableOK
    <2> QED BY <1>2, <1>4, <2>1, <2>2 DEF RegistersInv
  <1>9. CASE ScanDone
    <2>1. phase' = "alloc" /\ bar_idx' = 0 /\ UNCHANGED <<device_info, dev_info>>
      BY <1>9 DEF ScanDone
    <2>2. Placed' = {}
      BY <1>1, <1>2, <2>1 DEF Placed, TableOK, Bars
    <2>3. RegistersInv'
      BY <1>1, <1>2, <2>1 DEF RegistersInv
    <2>4. PlacedInv'
      BY <1>1, <1>2, <2>2 DEF PlacedInv
    <2> QED BY <1>3, <2>3, <2>4 DEF AllocInv
  <1> QED BY <1>5, <1>6, <1>7, <1>8, <1>9 DEF ScanStep

LEMMA PlacedStays ==
    ASSUME PlacedInv, phase \in {"alloc", "up"}, UNCHANGED <<device_info, free_mmio, wrapped>>,
           \A r \in Placed' : r \in Placed,
           \A r \in Placed : config'[device_info[r[1]].at].bars[r[2]].value
                                = config[device_info[r[1]].at].bars[r[2]].value
    PROVE  PlacedInv'
  <1> SUFFICES ASSUME ~wrapped
               PROVE  /\ free_mmio >= MmioBase
                      /\ \A r \in Placed' : PlacedWell(r)' 
                      /\ \A r, q \in Placed' : r # q => Apart(r, q)'
    BY DEF PlacedInv
  <1>1. \A r : Start(r)' = Start(r) /\ Size(r)' = Size(r)
    BY DEF Start, Size
  <1>2. \A r \in Placed : PlacedWell(r) /\ \A q \in Placed : r # q => Apart(r, q)
    BY DEF PlacedInv
  <1> QED BY <1>1, <1>2 DEF PlacedWell, Apart, PlacedInv

\* What pci_alloc looks at, and what it may write to.
LEMMA AllocAt ==
    ASSUME AllocInv, ScanInv, TableOK, Allocating
    PROVE  /\ alloc_idx \in DOMAIN device_info /\ Device.at \in DOMAIN config /\ FitsEntry(Device)
           /\ DOMAIN device_info = 1 .. Len(device_info) /\ Len(device_info) \in Nat
           /\ {"bars", "cmd", "msi"} \subseteq DOMAIN config[Device.at] /\ BarsFit(config[Device.at])
  <1>1. alloc_idx \in DOMAIN device_info /\ DOMAIN device_info = 1 .. Len(device_info) /\ Len(device_info) \in Nat
    BY DEF Allocating, AllocInv, RegistersInv, TableOK
  <1>2. Device.at \in DOMAIN config
    BY <1>1 DEF Device, ScanInv, TablesInv, Found, Answering
  <1> QED BY <1>1, <1>2 DEF Device, AllocInv, RegistersInv, ScanInv, Shape

LEMMA HostBridgeKeeps == ASSUME AllocInv, ScanInv, TableOK, AllocHostBridge \/ AllocNoBar \/ AllocDone PROVE AllocInv'
  <1>1. /\ phase = "alloc" /\ phase' \in {"alloc", "up"}
        /\ UNCHANGED <<config, device_info, dev_info, free_mmio, vector_count, wrapped>>
        /\ alloc_idx' \in Nat \ {0} /\ bar_idx' \in Nat
    BY DEF AllocHostBridge, AllocNoBar, AllocDone, Allocating, KeepScan, AllocInv, RegistersInv
  <1>2. VectorsInv'
    BY <1>1 DEF AllocInv, VectorsInv
  <1>3. ASSUME NEW r \in Placed' PROVE r \in Placed
    <2>1. r \in (DOMAIN device_info) \X Bars /\ r[2] \in Nat /\ r[2] < MaxBars /\ r[1] \in Nat
      BY <1>1, SizeAssumption, SMTT(20) DEF Placed, TableOK, Bars
    <2>2. CASE AllocHostBridge
      <3>1. alloc_idx' = alloc_idx + 1 /\ bar_idx' = bar_idx /\ Device.at = <<0, 0, 0>> /\ bar_idx = 0
        BY <2>2, AllocAt DEF AllocHostBridge, AllocInv, RegistersInv, Allocating
      <3>2. device_info[r[1]].at # <<0, 0, 0>> /\ device_info[r[1]].bar_size[r[2]] > 0 /\ r[1] < alloc_idx'
        BY <1>1, <2>1, <3>1 DEF Placed
      <3>3. r[1] # alloc_idx
        BY <3>1, <3>2 DEF Device
      <3>4. r[1] < alloc_idx
        BY <2>1, <3>1, <3>2, <3>3 DEF AllocInv, RegistersInv
      <3> QED BY <2>1, <3>2, <3>4 DEF Placed
    <2>3. CASE AllocNoBar
      <3>1. alloc_idx' = alloc_idx /\ bar_idx' = bar_idx + 1 /\ Device.bar_size[bar_idx] = 0
        BY <2>3 DEF AllocNoBar
      <3>2. /\ device_info[r[1]].at # <<0, 0, 0>> /\ device_info[r[1]].bar_size[r[2]] > 0
            /\ r[1] < alloc_idx \/ (r[1] = alloc_idx /\ r[2] < bar_idx + 1)
        BY <1>1, <2>1, <3>1 DEF Placed
      <3>3. ~(r[1] = alloc_idx /\ r[2] = bar_idx)
        BY <3>1, <3>2 DEF Device
      <3>4. r[1] < alloc_idx \/ (r[1] = alloc_idx /\ r[2] < bar_idx)
        BY <2>1, <3>2, <3>3 DEF AllocInv, RegistersInv
      <3> QED BY <2>1, <3>2, <3>4 DEF Placed
    <2>4. CASE AllocDone
      BY <1>1, <2>4 DEF AllocDone, Placed
    <2> QED BY <2>2, <2>3, <2>4
  <1>4. PlacedInv'
    BY <1>1, <1>3, PlacedStays DEF AllocInv
  <1>5. RegistersInv'
    <2>1. phase' = "alloc" /\ alloc_idx' \in DOMAIN device_info /\ device_info[alloc_idx'].at = <<0, 0, 0>>
             => bar_idx' = 0
      <3>1. CASE AllocHostBridge
        BY <3>1, AllocAt DEF AllocHostBridge, AllocInv, RegistersInv, Allocating
      <3>2. CASE AllocNoBar
        BY <3>2 DEF AllocNoBar, Device
      <3>3. CASE AllocDone
        BY <3>3 DEF AllocDone
      <3> QED BY <3>1, <3>2, <3>3
    <2>2. phase' = "up" => alloc_idx' > Len(device_info)
      BY DEF AllocHostBridge, AllocNoBar, AllocDone, Allocating
    <2> QED BY <1>1, <2>1, <2>2 DEF AllocInv, RegistersInv, Device
  <1> QED BY <1>2, <1>4, <1>5 DEF AllocInv

LEMMA AllocDeviceKeeps == ASSUME AllocInv, ScanInv, TableOK, AllocDevice PROVE AllocInv'
  <1> DEFINE place == Device.at
  <1>1. /\ Allocating /\ phase = "alloc" /\ phase' = "alloc" /\ bar_idx >= MaxBars
        /\ UNCHANGED <<device_info, dev_info, free_mmio, wrapped>>
        /\ alloc_idx' = alloc_idx + 1 /\ bar_idx' = 0 /\ vector_count' = VectorCountAfter(place)
        /\ config' = [config EXCEPT ![place].msi = IF GetsVector(place) THEN {vector_count} ELSE @,
                                    ![place].cmd = @ \cup {"memory", "master"}]
    BY DEF AllocDevice, Allocating, KeepScan
  <1>2. place \in DOMAIN config /\ {"bars", "cmd", "msi"} \subseteq DOMAIN config[place]
    BY <1>1, AllocAt
  <1>3. DOMAIN config' = DOMAIN config /\ \A f \in DOMAIN config : f # place => config'[f] = config[f]
    BY <1>1
  <1>4. /\ config'[place].bars = config[place].bars /\ "msi" \in DOMAIN config'[place]
        /\ config'[place].msi = IF GetsVector(place) THEN {vector_count} ELSE config[place].msi
    BY <1>1, <1>2
  <1> HIDE DEF place
  <1>5. VectorsInv'
    <2>1. vector_count \in Nat /\ vector_count <= MaxPciMsi
      BY SizeAssumption DEF AllocInv, VectorsInv
    <2>2. CASE GetsVector(place)
      <3>1. vector_count' = vector_count + 1 /\ vector_count < MaxPciMsi
        BY <1>1, <2>2 DEF VectorCountAfter, GetsVector
      <3>2. vector_count' \in 0 .. MaxPciMsi
        BY <2>1, <3>1, SizeAssumption
      <3>3. \A f \in DOMAIN config : config[f].msi \subseteq 0 .. vector_count - 1 /\ "msi" \in DOMAIN config[f]
        BY DEF AllocInv, VectorsInv
      <3>4. config'[place].msi = {vector_count}
        BY <1>4, <2>2
      <3>5. vector_count \in 0 .. vector_count' - 1 /\ \A v \in 0 .. vector_count - 1 : v \in 0 .. vector_count' - 1 /\ v # vector_count
        BY <2>1, <3>1
      <3>6. \A f \in DOMAIN config : "msi" \in DOMAIN config'[f] /\ config'[f].msi \subseteq 0 .. vector_count' - 1
        BY <1>3, <1>4, <3>3, <3>4, <3>5
      <3>7. \A f, g \in DOMAIN config : f # g => config'[f].msi \cap config'[g].msi = {}
        <4>1. \A f \in DOMAIN config : f # place => vector_count \notin config'[f].msi
          BY <1>3, <3>3, <3>5
        <4>2. \A f, g \in DOMAIN config : f # g => config[f].msi \cap config[g].msi = {}
          BY DEF AllocInv, VectorsInv
        <4> QED BY <1>3, <3>4, <4>1, <4>2
      <3> QED BY <1>3, <3>2, <3>6, <3>7 DEF VectorsInv
    <2>3. CASE ~GetsVector(place)
      <3>1. vector_count' = vector_count
        BY <1>1, <2>3 DEF VectorCountAfter
      <3>2. \A f \in DOMAIN config : config'[f].msi = config[f].msi /\ ("msi" \in DOMAIN config[f] => "msi" \in DOMAIN config'[f])
        BY <1>3, <1>4, <2>3
      <3> QED BY <1>3, <3>1, <3>2 DEF AllocInv, VectorsInv
    <2> QED BY <2>2, <2>3
  <1>6. \A f \in DOMAIN config : config'[f].bars = config[f].bars
    BY <1>3, <1>4
  <1>7. ASSUME NEW r \in Placed'
        PROVE  r \in Placed
    <2>1. r \in (DOMAIN device_info) \X Bars /\ r[2] \in Nat /\ r[2] < MaxBars /\ r[1] \in Nat
      BY <1>1, SizeAssumption DEF Placed, TableOK, Bars
    <2>2. device_info[r[1]].at # <<0, 0, 0>> /\ device_info[r[1]].bar_size[r[2]] > 0 /\ r[1] < alloc_idx + 1
      BY <1>1, <2>1 DEF Placed
    <2>3. r[1] < alloc_idx \/ (r[1] = alloc_idx /\ r[2] < bar_idx)
      BY <1>1, <2>1, <2>2, SizeAssumption DEF AllocInv, RegistersInv
    <2> QED BY <2>1, <2>2, <2>3 DEF Placed
  <1>8. \A r \in Placed : device_info[r[1]].at \in DOMAIN config
    BY DEF Placed, ScanInv, TablesInv, Found, Answering
  <1>9. PlacedInv'
    BY <1>1, <1>6, <1>7, <1>8, PlacedStays DEF AllocInv
  <1>10. RegistersInv'
    <2>1. \A f \in DOMAIN config : BarsFit(config'[f])
      BY <1>6 DEF AllocInv, RegistersInv, BarsFit
    <2>2. alloc_idx' \in Nat \ {0}
      BY <1>1 DEF AllocInv, RegistersInv
    <2> QED BY <1>1, <1>3, <2>1, <2>2 DEF AllocInv, RegistersInv
  <1> QED BY <1>5, <1>9, <1>10 DEF AllocInv

LEMMA AlignedWell ==
    ASSUME NEW free \in Nat, NEW size \in Nat \ {0}, size < Wrap, free = free_mmio,
           NEW addr, addr = Aligned(size)
    PROVE  /\ addr \in Nat
           /\ addr >= free /\ addr + size < Wrap => addr % size = 0
  <1>1. Wrap \in Nat \ {0}
    BY SizeAssumption
  <1>2. PICK top \in Nat : top = free + size - 1
    OBVIOUS
  <1>3. CASE size = Wrap - 1
    <2>1. PICK bit \in {0, 1} : bit = top % 2
      BY <1>2
    <2>2. addr = bit % Wrap
      BY <1>2, <1>3, <2>1 DEF Aligned
    <2>3. addr \in Nat
      BY <1>1, <2>1, <2>2
    <2>4. addr >= free /\ addr + size < Wrap => addr = 0
      BY <1>1, <1>3, <2>3
    <2>5. 0 % size = 0
      OBVIOUS
    <2> QED BY <2>3, <2>4, <2>5
  <1>4. CASE size # Wrap - 1
    <2>1. addr = (((free + size - 1) \div size) * size) % Wrap
      BY <1>4 DEF Aligned
    <2>2. PICK q \in Nat : q = (free + size - 1) \div size
      BY <1>2, DivMod
    <2>3. q * size \in Nat
      OBVIOUS
    <2>4. addr \in Nat
      BY <1>1, <2>1, <2>2, <2>3, DivMod
    <2>5. addr >= free => addr % size = 0
      <3>1. size <= Wrap
        BY <1>1
      <3> QED BY <1>1, <2>1, <3>1, AlignedUp
    <2> QED BY <2>4, <2>5
  <1> QED BY <1>3, <1>4

LEMMA AllocBarKeeps == ASSUME AllocInv, ScanInv, TableOK, AllocBar PROVE AllocInv'
  <1> DEFINE place == Device.at
  <1>1. /\ Allocating /\ phase = "alloc" /\ phase' = "alloc" /\ bar_idx < MaxBars /\ place # <<0, 0, 0>>
        /\ UNCHANGED <<dev_info, alloc_idx, vector_count>> /\ bar_idx' = bar_idx + 1
    BY DEF AllocBar, Allocating, KeepScan
  <1>2. /\ RegistersInv /\ PlacedInv /\ VectorsInv
        /\ alloc_idx \in DOMAIN device_info /\ place \in DOMAIN config /\ FitsEntry(Device)
        /\ DOMAIN device_info = 1 .. Len(device_info) /\ Len(device_info) \in Nat
        /\ {"bars", "cmd", "msi"} \subseteq DOMAIN config[place] /\ BarsFit(config[place])
    BY <1>1, AllocAt DEF AllocInv
  <1>3. bar_idx \in Nat /\ bar_idx \in Bars /\ free_mmio \in Nat
    BY <1>1, <1>2, SizeAssumption DEF RegistersInv, Bars
  <1>4. PICK size, addr :
           /\ size \in Nat \ {0} /\ size = Device.bar_size[bar_idx] /\ size < Wrap /\ addr = Aligned(size)
           /\ config' = [config EXCEPT ![place].bars[bar_idx].value = addr]
           /\ device_info' = [device_info EXCEPT ![alloc_idx].bar_address[bar_idx] = addr]
           /\ free_mmio' = (addr + size) % Wrap
           /\ ~wrapped' => ~wrapped /\ ~(addr < free_mmio) /\ ~(addr + size >= Wrap)
    <2>1. PICK size : size = Device.bar_size[bar_idx]
      OBVIOUS
    <2>2. PICK addr : addr = Aligned(size)
      OBVIOUS
    <2>3. size \in Nat /\ size < Wrap
      BY <1>2, <1>3, <2>1 DEF FitsEntry
    <2>4. /\ size > 0
          /\ config' = [config EXCEPT ![place].bars[bar_idx].value = addr]
          /\ device_info' = [device_info EXCEPT ![alloc_idx].bar_address[bar_idx] = addr]
          /\ free_mmio' = (addr + size) % Wrap
          /\ wrapped' = (wrapped \/ addr < free_mmio \/ addr + size >= Wrap)
      BY <2>1, <2>2 DEF AllocBar
    <2>5. ~wrapped' => ~wrapped /\ ~(addr < free_mmio) /\ ~(addr + size >= Wrap)
      BY <2>4, Zenon
    <2>6. size \in Nat \ {0}
      BY <2>3, <2>4
    <2> HIDE DEF place
    <2> QED BY <2>1, <2>2, <2>3, <2>4, <2>5, <2>6
  <1>5. addr \in Nat /\ (addr >= free_mmio /\ addr + size < Wrap => addr % size = 0)
    BY <1>3, <1>4, AlignedWell
  <1>6. free_mmio' \in Nat /\ (addr + size < Wrap => free_mmio' = addr + size)
    <2>1. PICK end \in Nat : end = addr + size
      BY <1>4, <1>5
    <2>2. free_mmio' = end % Wrap /\ Wrap \in Nat \ {0}
      BY <1>4, <2>1, SizeAssumption
    <2>3. free_mmio' \in Nat
      BY <2>2, DivMod
    <2>4. end < Wrap => end % Wrap = end
      BY <2>2
    <2> QED BY <2>1, <2>2, <2>3, <2>4
  <1>7. /\ DOMAIN config' = DOMAIN config /\ \A f \in DOMAIN config : f # place => config'[f] = config[f]
        /\ config'[place] = [config[place] EXCEPT !.bars[bar_idx].value = addr]
    BY <1>2, <1>4
  <1>8. /\ DOMAIN device_info' = DOMAIN device_info
        /\ \A i \in DOMAIN device_info : i # alloc_idx => device_info'[i] = device_info[i]
        /\ device_info'[alloc_idx] = [Device EXCEPT !.bar_address[bar_idx] = addr]
    BY <1>2, <1>4 DEF Device
  <1>9. \A i, j \in DOMAIN device_info : device_info[i].at = device_info[j].at => i = j
    BY DEF ScanInv, TablesInv
  <1>10. place = device_info[alloc_idx].at /\ Device = device_info[alloc_idx]
    BY DEF Device
  <1> HIDE DEF place
  <1>11. /\ config'[place].msi = config[place].msi /\ "msi" \in DOMAIN config'[place]
         /\ config'[place].bars = [config[place].bars EXCEPT ![bar_idx].value = addr]
    BY <1>2, <1>7
  <1>12. /\ DOMAIN config'[place].bars = Bars /\ config'[place].bars[bar_idx] = [config[place].bars[bar_idx] EXCEPT !.value = addr]
         /\ \A b \in Bars : b # bar_idx => config'[place].bars[b] = config[place].bars[b]
    BY <1>2, <1>3, <1>11 DEF BarsFit
  <1>13. /\ {"kind", "typed", "size", "value"} \subseteq DOMAIN config'[place].bars[bar_idx]
         /\ config'[place].bars[bar_idx].value = addr /\ config'[place].bars[bar_idx].size = config[place].bars[bar_idx].size
         /\ config'[place].bars[bar_idx].kind = config[place].bars[bar_idx].kind
    BY <1>2, <1>3, <1>12 DEF BarsFit
  <1>14. BarsFit(config'[place])
    BY <1>2, <1>3, <1>5, <1>12, <1>13 DEF BarsFit
  <1>15. /\ {"at", "bar_size", "bar_address"} \subseteq DOMAIN device_info'[alloc_idx]
         /\ device_info'[alloc_idx].at = place /\ device_info'[alloc_idx].bar_size = Device.bar_size
         /\ device_info'[alloc_idx].bar_address = [Device.bar_address EXCEPT ![bar_idx] = addr]
    BY <1>2, <1>8, <1>10 DEF FitsEntry
  <1>16. /\ DOMAIN device_info'[alloc_idx].bar_address = Bars /\ device_info'[alloc_idx].bar_address[bar_idx] = addr
         /\ \A b \in Bars : b # bar_idx => device_info'[alloc_idx].bar_address[b] = Device.bar_address[b]
    BY <1>2, <1>3, <1>15 DEF FitsEntry
  <1>17. FitsEntry(device_info'[alloc_idx])
    BY <1>2, <1>3, <1>5, <1>15, <1>16 DEF FitsEntry
  <1>18. RegistersInv'
    <2>1. \A f \in DOMAIN config' : BarsFit(config'[f])
      BY <1>2, <1>7, <1>14 DEF RegistersInv
    <2>2. \A i \in DOMAIN device_info' : FitsEntry(device_info'[i])
      BY <1>2, <1>8, <1>17 DEF RegistersInv
    <2>3. bar_idx' \in Nat /\ alloc_idx' \in Nat \ {0} /\ FitsEntry(dev_info')
      BY <1>1, <1>2, <1>3 DEF RegistersInv
    <2>4. device_info'[alloc_idx'].at # <<0, 0, 0>>
      BY <1>1, <1>15
    <2> QED BY <1>1, <1>6, <2>1, <2>2, <2>3, <2>4 DEF RegistersInv, Device
  <1>19. VectorsInv'
    <2>1. \A f \in DOMAIN config : config'[f].msi = config[f].msi /\ ("msi" \in DOMAIN config[f] => "msi" \in DOMAIN config'[f])
      BY <1>7, <1>11
    <2> QED BY <1>1, <1>2, <1>7, <2>1 DEF VectorsInv
  <1>20. PlacedInv'
    <2> SUFFICES ASSUME ~wrapped'
                 PROVE  /\ free_mmio' >= MmioBase
                        /\ \A r \in Placed' : PlacedWell(r)'
                        /\ \A r, q \in Placed' : r # q => Apart(r, q)'
      BY DEF PlacedInv
    <2>1. /\ ~wrapped /\ addr >= free_mmio /\ addr + size < Wrap /\ addr % size = 0
          /\ free_mmio' = addr + size /\ free_mmio >= MmioBase
      <3>1. ~wrapped /\ ~(addr < free_mmio) /\ ~(addr + size >= Wrap)
        BY <1>4
      <3>2. addr >= free_mmio /\ addr + size < Wrap
        BY <1>3, <1>4, <1>5, <3>1, SizeAssumption
      <3>3. free_mmio >= MmioBase
        BY <1>2, <3>1 DEF PlacedInv
      <3> QED BY <1>5, <1>6, <3>1, <3>2, <3>3
    <2>2. addr >= MmioBase /\ free_mmio' >= MmioBase
      BY <1>3, <1>4, <1>5, <2>1, SizeAssumption
    <2> DEFINE new == <<alloc_idx, bar_idx>>
    <2>3. ASSUME NEW r \in Placed', r # new PROVE r \in Placed
      <3>1. r \in (DOMAIN device_info) \X Bars /\ r[2] \in Nat /\ r[1] \in Nat /\ r = <<r[1], r[2]>>
        BY <1>2, <1>8 DEF Placed, Bars
      <3>2. /\ device_info'[r[1]].at # <<0, 0, 0>> /\ device_info'[r[1]].bar_size[r[2]] > 0
            /\ r[1] < alloc_idx \/ (r[1] = alloc_idx /\ r[2] < bar_idx + 1)
        BY <1>1 DEF Placed
      <3>3. device_info'[r[1]].at = device_info[r[1]].at /\ device_info'[r[1]].bar_size = device_info[r[1]].bar_size
        BY <1>8, <1>10, <1>15, <3>1
      <3>4. r[1] < alloc_idx \/ (r[1] = alloc_idx /\ r[2] < bar_idx)
        BY <1>3, <2>3, <3>1, <3>2
      <3> QED BY <3>1, <3>2, <3>3, <3>4 DEF Placed
    <2>4. ASSUME NEW r \in Placed
          PROVE  /\ r # new /\ Start(r)' = Start(r) /\ Size(r)' = Size(r) /\ PlacedWell(r) /\ PlacedWell(r)'
                 /\ Size(r) \in Nat
      <3>1. /\ r[1] \in DOMAIN device_info /\ r[2] \in Bars /\ r[1] \in Nat /\ r[2] \in Nat
            /\ r[1] < alloc_idx \/ (r[1] = alloc_idx /\ r[2] < bar_idx)
        BY <1>2 DEF Placed, Bars
      <3>2. r[1] # alloc_idx \/ r[2] # bar_idx
        BY <1>2, <1>3, <3>1 DEF RegistersInv
      <3>3. device_info'[r[1]].at = device_info[r[1]].at /\ device_info'[r[1]].bar_size = device_info[r[1]].bar_size
        BY <1>8, <1>10, <1>15, <3>1
      <3>4. Start(r)' = Start(r) /\ Size(r)' = Size(r)
        <4>1. CASE r[1] # alloc_idx
          BY <1>8, <3>1, <4>1 DEF Start, Size
        <4>2. CASE r[1] = alloc_idx
          BY <1>10, <1>16, <3>1, <3>2, <3>3, <4>2 DEF Start, Size
        <4> QED BY <4>1, <4>2
      <3>5. PlacedWell(r)
        BY <1>1, <1>2, <2>1 DEF PlacedInv
      <3>6. Size(r) \in Nat
        BY <1>2, <3>1 DEF RegistersInv, FitsEntry, Size
      <3>7. device_info[r[1]].at \in DOMAIN config
        BY <3>1 DEF ScanInv, TablesInv, Found, Answering
      <3>8. config'[device_info[r[1]].at].bars[r[2]] = config[device_info[r[1]].at].bars[r[2]]
        <4>1. CASE device_info[r[1]].at # place
          BY <1>7, <3>7, <4>1
        <4>2. CASE device_info[r[1]].at = place
          <5>1. r[1] = alloc_idx
            BY <1>2, <1>9, <1>10, <3>1, <4>2
          <5> QED BY <1>12, <3>1, <3>2, <4>2, <5>1
        <4> QED BY <4>1, <4>2
      <3>9. PlacedWell(r)'
        <4>1. Start(r) + Size(r) <= free_mmio'
          BY <1>3, <1>4, <1>5, <2>1, <3>5, <3>6 DEF PlacedWell
        <4> QED BY <3>3, <3>4, <3>5, <3>8, <4>1 DEF PlacedWell
      <3> QED BY <3>2, <3>4, <3>5, <3>6, <3>9
    <2>5. PICK n : n = new /\ n[1] = alloc_idx /\ n[2] = bar_idx
      <3>1. new[1] = alloc_idx /\ new[2] = bar_idx
        OBVIOUS
      <3> HIDE DEF new
      <3> QED BY <3>1
    <2>6. Start(n)' = addr /\ Size(n)' = size
      BY <1>4, <1>15, <1>16, <2>5 DEF Start, Size
    <2>7. PlacedWell(n)'
      <3>1. config'[device_info'[n[1]].at].bars[n[2]].value = addr
        BY <1>13, <1>15, <2>5
      <3>2. addr + size <= free_mmio'
        BY <1>5, <2>1
      <3> QED BY <1>5, <2>1, <2>2, <2>6, <3>1, <3>2 DEF PlacedWell
    <2>8. \A r \in Placed : Start(r) + Size(r) <= addr
      BY <1>3, <1>5, <2>1, <2>4 DEF PlacedWell
    <2>9. \A r \in Placed' : PlacedWell(r)'
      BY <2>3, <2>4, <2>5, <2>7
    <2>10. \A r, q \in Placed' : r # q => Apart(r, q)'
      <3> SUFFICES ASSUME NEW r \in Placed', NEW q \in Placed', r # q PROVE Apart(r, q)'
        OBVIOUS
      <3>1. CASE r # n /\ q # n
        <4>1. r \in Placed /\ q \in Placed
          BY <2>3, <2>5, <3>1
        <4>2. Apart(r, q)
          BY <1>1, <1>2, <2>1, <4>1 DEF PlacedInv
        <4> QED BY <2>4, <4>1, <4>2 DEF Apart
      <3>2. CASE r = n
        <4>1. q \in Placed
          BY <2>3, <2>5, <3>2
        <4> QED BY <2>4, <2>6, <2>8, <3>2, <4>1 DEF Apart
      <3>3. CASE q = n
        <4>1. r \in Placed
          BY <2>3, <2>5, <3>3
        <4> QED BY <2>4, <2>6, <2>8, <3>3, <4>1 DEF Apart
      <3> QED BY <3>1, <3>2, <3>3
    <2> QED BY <2>2, <2>9, <2>10
  <1> QED BY <1>18, <1>19, <1>20 DEF AllocInv

\* Before a test the registers of the device are written once more, with what the table says.
LEMMA ValidateRegisters == ASSUME AllocInv, ScanInv, TableOK, Validate PROVE AllocInv'
  <1>1. UNCHANGED <<phase, device_info, dev_info, bar_idx, alloc_idx, free_mmio, vector_count, wrapped>>
    BY DEF Validate
  <1>2. RegistersInv /\ PlacedInv /\ VectorsInv
    BY DEF AllocInv
  <1>3. CASE UNCHANGED config
    <2>1. Placed' = Placed /\ \A r : PlacedWell(r)' = PlacedWell(r) /\ \A q : Apart(r, q)' = Apart(r, q)
      BY <1>1, <1>3 DEF Placed, PlacedWell, Apart, Start, Size
    <2>2. PlacedInv'
      BY <1>1, <1>2, <2>1 DEF PlacedInv
    <2>3. RegistersInv' /\ VectorsInv'
      BY <1>1, <1>2, <1>3 DEF RegistersInv, VectorsInv, Device
    <2> QED BY <2>2, <2>3 DEF AllocInv
  <1>4. ASSUME NEW dev \in Vfio, ConfigDeviceResources(dev) PROVE AllocInv'
    <2>1. PICK i \in DOMAIN device_info : dev = device_info[i]
      BY DEF Vfio, FindById
    <2> DEFINE written(f, b) == IF f = dev.at /\ dev.bar_size[b] # 0
                                THEN [config[f].bars[b] EXCEPT !.value = dev.bar_address[b]]
                                ELSE config[f].bars[b]
    <2>2. /\ DOMAIN config' = DOMAIN config
          /\ \A f \in DOMAIN config : \E w, c :
                config'[f] = [config[f] EXCEPT !.window = w, !.bars = [b \in Bars |-> written(f, b)], !.cmd = c]
      BY <1>4 DEF ConfigDeviceResources
    <2>3. \A f \in DOMAIN config : {"bars", "msi", "window", "cmd"} \subseteq DOMAIN config[f] /\ BarsFit(config[f])
      BY <1>2 DEF RegistersInv, ScanInv, Shape
    <2> HIDE DEF written
    <2>4. \A f \in DOMAIN config : /\ config'[f].bars = [b \in Bars |-> written(f, b)]
                                   /\ config'[f].msi = config[f].msi /\ "msi" \in DOMAIN config'[f]
      BY <2>2, <2>3
    <2>5. ASSUME NEW f \in DOMAIN config, NEW b \in Bars
          PROVE  /\ {"kind", "typed", "size", "value"} \subseteq DOMAIN written(f, b)
                 /\ written(f, b).kind = config[f].bars[b].kind /\ written(f, b).size = config[f].bars[b].size
                 /\ f = dev.at /\ dev.bar_size[b] # 0 => written(f, b).value = dev.bar_address[b]
                 /\ f # dev.at => written(f, b) = config[f].bars[b]
      <3>1. {"kind", "typed", "size", "value"} \subseteq DOMAIN config[f].bars[b]
        BY <2>3 DEF BarsFit
      <3> QED BY <3>1 DEF written
    <2>6. \A f \in DOMAIN config : BarsFit(config'[f])
      <3> SUFFICES ASSUME NEW f \in DOMAIN config PROVE BarsFit(config'[f])
        OBVIOUS
      <3>1. DOMAIN config'[f].bars = Bars /\ \A b \in Bars : config'[f].bars[b] = written(f, b)
        BY <2>4
      <3>4. FitsEntry(dev)
        BY <1>2, <2>1 DEF RegistersInv
      <3>5. \A b \in Bars : written(f, b).value \in Nat
        <4>1. \A b \in Bars : config[f].bars[b].value \in Nat /\ dev.bar_address[b] \in Nat
                             /\ {"kind", "typed", "size", "value"} \subseteq DOMAIN config[f].bars[b]
          BY <2>3, <3>4 DEF BarsFit, FitsEntry
        <4> QED BY <4>1 DEF written
      <3>2. \A b \in Bars : /\ config[f].bars[b].size \in Nat
                            /\ \/ config[f].bars[b].size < Wrap
                               \/ config[f].bars[b].kind = "mem64" /\ b < MaxBars - 1
        BY <2>3 DEF BarsFit
      <3>3. \A b \in Bars : /\ {"kind", "typed", "size", "value"} \subseteq DOMAIN config'[f].bars[b]
                            /\ config'[f].bars[b].size \in Nat /\ config'[f].bars[b].value \in Nat
                            /\ \/ config'[f].bars[b].size < Wrap
                               \/ config'[f].bars[b].kind = "mem64" /\ b < MaxBars - 1
        BY <2>5, <3>1, <3>2, <3>5
      <3> QED BY <3>1, <3>3 DEF BarsFit
    <2>7. RegistersInv' /\ VectorsInv'
      BY <1>1, <1>2, <2>2, <2>4, <2>6 DEF RegistersInv, VectorsInv, Device
    <2>8. PlacedInv'
      <3> SUFFICES ASSUME phase \in {"alloc", "up"}, ~wrapped,
                          NEW r \in Placed, PlacedWell(r)
                   PROVE  config'[device_info[r[1]].at].bars[r[2]].value = Start(r)
        <4>1. Placed' = Placed /\ \A r : Start(r)' = Start(r) /\ Size(r)' = Size(r)
          BY <1>1 DEF Placed, Start, Size
        <4> QED BY <1>1, <1>2, <4>1 DEF PlacedInv, PlacedWell, Apart
      <3>1. r[1] \in DOMAIN device_info /\ r[2] \in Bars /\ device_info[r[1]].bar_size[r[2]] > 0
        BY DEF Placed
      <3>2. device_info[r[1]].at \in DOMAIN config
        BY <3>1 DEF ScanInv, TablesInv, Found, Answering
      <3>3. config'[device_info[r[1]].at].bars[r[2]] = written(device_info[r[1]].at, r[2])
        BY <2>4, <3>1, <3>2
      <3>4. CASE device_info[r[1]].at = dev.at
        <4>1. r[1] = i
          BY <2>1, <3>1, <3>4 DEF ScanInv, TablesInv
        <4>2. dev.bar_size[r[2]] # 0
          BY <2>1, <3>1, <4>1
        <4> QED BY <2>1, <2>5, <3>1, <3>2, <3>3, <3>4, <4>1, <4>2 DEF Start
      <3>5. CASE device_info[r[1]].at # dev.at
        BY <2>5, <3>1, <3>2, <3>3, <3>5 DEF PlacedWell
      <3> QED BY <3>4, <3>5
    <2> QED BY <2>7, <2>8 DEF AllocInv
  <1> QED BY <1>3, <1>4 DEF Validate

LEMMA RtosAllocates == PciInv /\ ScanInv /\ AllocInv /\ [RtosNext]_<<vars, pciVars>> => AllocInv'
  <1> SUFFICES ASSUME PciInv, ScanInv, AllocInv, [RtosNext]_<<vars, pciVars>> PROVE AllocInv'
    OBVIOUS
  <1>1. CASE UNCHANGED scanVars
    <2>1. UNCHANGED <<config, phase, device_info, dev_info, bar_idx, alloc_idx, free_mmio, vector_count, wrapped>>
      BY <1>1 DEF scanVars
    <2>2. Placed' = Placed /\ \A r : PlacedWell(r)' = PlacedWell(r) /\ \A q : Apart(r, q)' = Apart(r, q)
      BY <2>1 DEF Placed, PlacedWell, Apart, Start, Size
    <2> QED BY <2>1, <2>2 DEF AllocInv, RegistersInv, PlacedInv, VectorsInv, Device
  <1>2. CASE UartStep
    BY <1>1, <1>2 DEF UartStep, pciVars
  <1>3. CASE CliStep
    <2>1. CASE UNCHANGED pciVars
      BY <1>1, <2>1 DEF pciVars
    <2>2. CASE \E c : PciCommand(c)
      BY <1>1, <2>2 DEF PciCommand, PciStart, PciSuspend, PciTestStart, pciVars
    <2> QED BY <1>3, <2>1, <2>2 DEF CliStep, Command
  <1>4. CASE PciStarted \/ MsiIrq
    BY <1>1, <1>4 DEF PciStarted, MsiIrq
  <1>5. CASE BootStep
    BY <1>5, ScanAllocKeeps, HostBridgeKeeps, AllocDeviceKeeps, AllocBarKeeps DEF BootStep, PciInv, AllocStep
  <1>6. CASE PciTaskStep
    BY <1>1, <1>6, ValidateRegisters DEF PciTaskStep, Boot, LoopWait, Baseline, StateClear, Discard, Trigger,
       WaitEnd, Judge, PciInv
  <1> QED BY <1>1, <1>2, <1>3, <1>4, <1>5, <1>6 DEF RtosNext, Work, PciStep, pciVars

LEMMA AllocTellsApart == ASSUME AllocInv PROVE BarsApart
  <1>1. ASSUME phase \in {"alloc", "up"}, ~wrapped, NEW r \in Placed
        PROVE  /\ Start(r) % Size(r) = 0 /\ Start(r) >= MmioBase
               /\ config[device_info[r[1]].at].bars[r[2]].value = Start(r)
               /\ \A q \in Placed \ {r} : Start(r) + Size(r) <= Start(q) \/ Start(q) + Size(q) <= Start(r)
    BY <1>1 DEF AllocInv, PlacedInv, PlacedWell, Apart
  <1>2. \A f \in DOMAIN config : config[f].msi \subseteq 0 .. MaxPciMsi - 1
    <2>1. \A v \in 0 .. vector_count - 1 : v \in 0 .. MaxPciMsi - 1
      BY SizeAssumption DEF AllocInv, VectorsInv
    <2> QED BY <2>1 DEF AllocInv, VectorsInv
  <1> QED BY <1>1, <1>2 DEF BarsApart, AllocInv, VectorsInv

(***************************************************************************)
(* What pci_alloc places is aligned to its size, above the base, in the    *)
(* registers as in the table and apart from all else, as long as           *)
(* free_mmio stays within 32 bits; no two devices share a vector, and none *)
(* is outside the table of the trampolines.                                *)
(***************************************************************************)
THEOREM BarsAlwaysApart == RtosSpec => []BarsApart
  <1>1. RtosInit => PciInv /\ ScanInv /\ AllocInv
    BY PciInitInv, ScanInitInv, AllocInitInv DEF RtosInit, PciInit
  <1>2. PciInv /\ ScanInv /\ AllocInv /\ [RtosNext]_<<vars, pciVars>> => PciInv' /\ ScanInv' /\ AllocInv'
    BY RtosKeeps, RtosScans, RtosAllocates
  <1>3. AllocInv => BarsApart
    BY AllocTellsApart
  <1> QED BY <1>1, <1>2, <1>3, PTL DEF RtosSpec

-----------------------------------------------------------------------------
(* The memory of the tested device *)

\* A set of numbers has a least one.
LEMMA LeastOf == ASSUME NEW S, S \subseteq Nat, S # {} PROVE Min(S) \in S /\ \A y \in S : Min(S) <= y
  <1> DEFINE R == {ss \in Nat \X Nat : ss[1] < ss[2]}
  <1>1. IsWellFoundedOn(R, Nat)
    BY NatLessThanWellFounded DEF OpToRel
  <1>2. \A x, y \in Nat : x < y => <<x, y>> \in R
    OBVIOUS
  <1> HIDE DEF R
  <1>3. PICK x \in S : \A y \in S : ~(<<y, x>> \in R)
    BY <1>1, WFMin
  <1>4. \A y \in S : x <= y
    <2> SUFFICES ASSUME NEW y \in S, ~(x <= y) PROVE FALSE
      OBVIOUS
    <2>1. x \in Nat /\ y \in Nat
      OBVIOUS
    <2>2. y < x
      BY <2>1
    <2> QED BY <1>2, <1>3, <2>1, <2>2
  <1> QED BY <1>4 DEF Min
\* and a greatest one, if it is bounded.
LEMMA GreatestOf ==
    ASSUME NEW S, S \subseteq Nat, S # {}, NEW top \in Nat, \A y \in S : y <= top
    PROVE  Max(S) \in S /\ \A y \in S : Max(S) >= y
  <1> DEFINE U == {n \in Nat : \A y \in S : y <= n}
  <1>1. PICK m : m = Min(U) /\ m \in U /\ \A n \in U : m <= n
    BY LeastOf
  <1>2. m \in S
    <2> SUFFICES ASSUME m \notin S PROVE FALSE
      OBVIOUS
    <2>1. PICK y \in S : TRUE
      OBVIOUS
    <2>2. m \in Nat /\ \A z \in S : z <= m /\ z # m
      BY <1>1, <2>1
    <2>3. PICK n \in Int : n = m - 1
      BY <2>2
    <2>4. \A z \in S : z <= n
      BY <2>2, <2>3
    <2>5. n \in Nat
      BY <2>1, <2>4
    <2>6. n \in U
      BY <2>4, <2>5
    <2> QED BY <1>1, <2>2, <2>3, <2>6
  <1> QED BY <1>1, <1>2 DEF Max

(***************************************************************************)
(* From the validation to the verdict the tested device decodes memory,    *)
(* and the window of the bridge in front of it is its own.                 *)
(***************************************************************************)
Opened(dev) ==
    /\ "memory" \in config[dev.at].cmd
    /\ dev.at[1] > 0 =>
          \E i \in Parent(dev.at[1]) : config[bridge_info[i].at].window = WindowFor(dev)

ReachInv == task \notin {"boot", "loop", "validate"} => \A dev \in Vfio : Opened(dev)

LEMMA ParentThere ==
    ASSUME ScanInv, NEW bus \in Nat, bus > 0, Begun(bus)
    PROVE  \E i \in Parent(bus) : i \in DOMAIN bridge_info /\ bridge_info[i].at \in DOMAIN config
  <1> DEFINE S == {i \in DOMAIN bridge_info : config[bridge_info[i].at].secondary = bus}
  <1>1. DOMAIN bridge_info = 1 .. Len(bridge_info) /\ Len(bridge_info) \in Nat
    BY DEF ScanInv, TablesInv
  <1>2. S # {} /\ S \subseteq Nat
    BY <1>1 DEF Begun, Bridges
  <1>3. PICK m : m = Min(S) /\ m \in S /\ \A i \in S : m <= i
    BY <1>2, LeastOf
  <1>4. \A j \in 1 .. m - 1 : j \in DOMAIN bridge_info /\ j < m /\ j \in Nat
    <2>3. m \in DOMAIN bridge_info
      BY <1>3
    <2>1. m \in Nat /\ m <= Len(bridge_info)
      BY <1>1, <2>3
    <2>2. \A j \in 1 .. m - 1 : j \in 1 .. Len(bridge_info) /\ j < m /\ j \in Nat
      BY <1>1, <2>1
    <2> QED BY <1>1, <2>2
  <1>5. \A j \in 1 .. m - 1 : config[bridge_info[j].at].secondary # bus
    <2> SUFFICES ASSUME NEW j \in 1 .. m - 1, j \in S PROVE FALSE
      BY <1>4
    <2>1. m <= j /\ m \in Nat
      BY <1>2, <1>3
    <2> QED BY <1>4, <2>1
  <1>6. m \in Parent(bus)
    BY <1>3, <1>5 DEF Parent, RegistersOf, Registers
  <1>7. bridge_info[m].at \in DOMAIN config
    BY <1>3 DEF ScanInv, TablesInv, Bridges, Answering
  <1> QED BY <1>3, <1>6, <1>7

\* The bridge in front of a bus, which is all that lies between the bus and a bridge on bus 0.
LEMMA ParentAlone ==
    ASSUME ScanInv, NEW bus \in Nat, bus > 0, \A i \in Parent(bus) : ~(bridge_info[i].at[1] > 0)
    PROVE  /\ \A i, j \in Parent(bus) : i = j
           /\ Upstream(bus) = Parent(bus)
  <1>1. DOMAIN bridge_info = 1 .. Len(bridge_info) /\ Len(bridge_info) \in Nat
    BY DEF ScanInv, TablesInv
  <1>2. ASSUME NEW i \in Parent(bus), NEW j \in Parent(bus) PROVE i = j
    <2>1. i \in Nat /\ j \in Nat /\ ~(i < j) /\ ~(j < i)
      BY <1>1 DEF Parent, RegistersOf, Registers
    <2> QED BY <2>1
  <1>3. Parent(bus) \in SUBSET DOMAIN bridge_info
    BY DEF Parent, RegistersOf, Registers
  <1>4. Upstream(bus) \subseteq Parent(bus)
    BY <1>3 DEF Upstream
  <1>5. Parent(bus) \subseteq Upstream(bus)
    BY <1>3 DEF Upstream
  <1> QED BY <1>2, <1>4, <1>5

LEMMA ValidateOpens ==
    ASSUME TableOK, ScanInv, NEW dev \in Vfio, ConfigDeviceResources(dev),
           UNCHANGED <<phase, device_info, dev_info, bridge_info>>
    PROVE  \A d \in Vfio' : Opened(d)'
  <1>1. Vfio' = Vfio
    BY ConfigKeepsVectors
  <1>2. PICK k \in DOMAIN device_info : dev = device_info[k]
    BY DEF Vfio, FindById
  <1>3. dev.at \in DOMAIN config /\ Begun(dev.at[1]) /\ dev.at[1] \in Nat
    BY <1>2, Triple DEF ScanInv, TablesInv, Found, Answering
  <1>4. \A f \in DOMAIN config : {"window", "bars", "cmd", "secondary"} \subseteq DOMAIN config[f]
    BY DEF ScanInv, Shape
  <1> DEFINE bridge == IF dev.at[1] > 0 THEN {bridge_info[i].at : i \in Parent(dev.at[1])} ELSE {}
             cmd(f) == IF f = dev.at THEN config[f].cmd \cup {"io", "memory", "master"} ELSE config[f].cmd
             window(f) == IF f \in bridge THEN WindowFor(dev) ELSE config[f].window
  <1>5. /\ DOMAIN config' = DOMAIN config
        /\ \A f \in DOMAIN config : \E b :
              config'[f] = [config[f] EXCEPT !.window = window(f), !.bars = b, !.cmd = cmd(f)]
    BY DEF ConfigDeviceResources
  <1> HIDE DEF cmd, window
  <1>6. \A f \in DOMAIN config : /\ config'[f].window = window(f) /\ config'[f].cmd = cmd(f)
                                 /\ config'[f].secondary = config[f].secondary
    BY <1>4, <1>5
  <1>7. "memory" \in config'[dev.at].cmd
    BY <1>3, <1>6 DEF cmd
  <1>8. \A i \in DOMAIN bridge_info : bridge_info[i].at \in DOMAIN config
    BY DEF ScanInv, TablesInv, Bridges, Answering
  <1>9. ASSUME NEW bus, NEW i \in Parent(bus) PROVE i \in Parent(bus)'
    <2>1. DOMAIN bridge_info = 1 .. Len(bridge_info) /\ Len(bridge_info) \in Nat
      BY DEF ScanInv, TablesInv
    <2>2. i \in DOMAIN bridge_info /\ \A j \in 1 .. i - 1 : j \in DOMAIN bridge_info
      BY <1>9, <2>1 DEF Parent, RegistersOf, Registers
    <2> QED BY <1>6, <1>8, <1>9, <2>2 DEF Parent, RegistersOf, Registers
  <1>10. ASSUME dev.at[1] > 0
         PROVE  \E i : i \in Parent(dev.at[1])' /\ config'[bridge_info[i].at].window = WindowFor(dev)
    <2>1. PICK i \in Parent(dev.at[1]) : i \in DOMAIN bridge_info /\ bridge_info[i].at \in DOMAIN config
      BY <1>3, <1>10, ParentThere
    <2>2. bridge_info[i].at \in bridge
      BY <1>10, <2>1
    <2>3. PICK bus : bus = dev.at[1]
      OBVIOUS
    <2>4. i \in Parent(bus)'
      BY <1>9, <2>1, <2>3
    <2> QED BY <1>6, <2>1, <2>2, <2>3, <2>4 DEF window
  <1>11. Opened(dev)'
    BY <1>7, <1>10 DEF Opened
  <1> QED BY <1>1, <1>11, OneVfio

LEMMA ReachSame ==
    ASSUME ReachInv, UNCHANGED <<config, device_info, bridge_info>>,
           task' \in {"boot", "loop", "validate"} \/ task \notin {"boot", "loop", "validate"}
    PROVE  ReachInv'
  <1>1. Vfio' = Vfio /\ \A d : Opened(d)' = Opened(d)
    BY DEF Vfio, FindById, Opened, Parent, RegistersOf, Registers
  <1> QED BY <1>1 DEF ReachInv

LEMMA RtosReaches == PciInv /\ ScanInv /\ ReachInv /\ [RtosNext]_<<vars, pciVars>> => ReachInv'
  <1> SUFFICES ASSUME PciInv, ScanInv, ReachInv, [RtosNext]_<<vars, pciVars>> PROVE ReachInv'
    OBVIOUS
  <1>1. CASE UNCHANGED <<scanVars, task>>
    BY <1>1, ReachSame DEF scanVars
  <1>2. CASE UartStep
    BY <1>1, <1>2 DEF UartStep, pciVars
  <1>3. CASE CliStep
    <2>1. CASE UNCHANGED pciVars
      BY <1>1, <2>1 DEF pciVars
    <2>2. CASE \E c : PciCommand(c)
      BY <1>1, <2>2 DEF PciCommand, PciStart, PciSuspend, PciTestStart, pciVars
    <2> QED BY <1>3, <2>1, <2>2 DEF CliStep, Command
  <1>4. CASE PciStarted \/ MsiIrq
    BY <1>1, <1>4 DEF PciStarted, MsiIrq
  <1>5. CASE BootStep
    <2>1. phase # "up"
      BY <1>5 DEF BootStep, ScanStep, AllocStep, NextDevice, SkipFunction, ReturnFromBus, LimitReached, FoundEndpoint,
           FoundBridge, SizeSkipped, Size64, Size32, SizeDone, ScanDone, Scanning, Visiting, Sizing,
           AllocHostBridge, AllocNoBar, AllocBar, AllocDevice, AllocDone, Allocating
    <2> QED BY <1>5, <2>1, Facts DEF BootStep, ReachInv
  <1>6. CASE PciTaskStep
    <2>1. CASE Boot \/ LoopWait \/ Judge
      BY <2>1, ReachSame DEF Boot, LoopWait, Judge, scanVars
    <2>2. CASE Baseline \/ StateClear \/ Discard \/ Trigger \/ WaitEnd
      BY <2>2, ReachSame DEF Baseline, StateClear, Discard, Trigger, WaitEnd, Runs, scanVars
    <2>3. CASE Validate
      <3>1. /\ UNCHANGED <<phase, device_info, dev_info, bridge_info>>
            /\ task' = "loop" \/ \E dev \in Vfio : ConfigDeviceResources(dev)
        BY <2>3 DEF Validate
      <3>2. CASE task' = "loop"
        BY <3>2 DEF ReachInv
      <3>3. CASE \E dev \in Vfio : ConfigDeviceResources(dev)
        BY <3>1, <3>3, ValidateOpens DEF PciInv, ReachInv
      <3> QED BY <3>1, <3>2, <3>3
    <2> QED BY <1>6, <2>1, <2>2, <2>3 DEF PciTaskStep
  <1> QED BY <1>1, <1>2, <1>3, <1>4, <1>5, <1>6 DEF RtosNext, Work, PciStep, pciVars

(***************************************************************************)
(* The window reaches over every BAR that has an address.                  *)
(***************************************************************************)
LEMMA WindowCovers ==
    ASSUME NEW dev, FitsEntry(dev), NEW b \in Used(dev),
           \A x \in Used(dev) : dev.bar_address[x] + dev.bar_size[x] < Wrap
    PROVE  \E w \in WindowFor(dev) :
              w.base <= dev.bar_address[b] /\ dev.bar_address[b] + dev.bar_size[b] - 1 <= w.limit
              /\ w.base \in Nat /\ w.limit \in Nat
  <1> DEFINE start(x) == dev.bar_address[x]
             end(x) == (dev.bar_address[x] + dev.bar_size[x] - 1) % Wrap
             starts == {start(x) : x \in Used(dev)}
             ends == {end(x) : x \in Used(dev)}
  <1>1. Wrap \in Nat \ {0} /\ Window \in Nat \ {0}
    BY SizeAssumption
  <1>2. ASSUME NEW x \in Used(dev)
        PROVE  /\ dev.bar_address[x] \in Nat /\ dev.bar_size[x] \in Nat
               /\ end(x) = dev.bar_address[x] + dev.bar_size[x] - 1 /\ end(x) \in Nat /\ end(x) <= Wrap
    <2>1. dev.bar_address[x] \in Nat /\ dev.bar_size[x] \in Nat /\ dev.bar_size[x] > 0
      BY DEF Used, FitsEntry
    <2>2. PICK last \in Nat : last = dev.bar_address[x] + dev.bar_size[x] - 1 /\ last < Wrap
      BY <1>1, <2>1
    <2>3. last % Wrap = last
      BY <1>1, <2>2
    <2>4. end(x) = last % Wrap
      BY <2>2
    <2>5. last <= Wrap
      BY <1>1, <2>2
    <2> HIDE DEF end
    <2> QED BY <2>1, <2>2, <2>3, <2>4, <2>5
  <1> HIDE DEF end
  <1>3. starts \subseteq Nat /\ ends \subseteq Nat /\ \A y \in ends : y <= Wrap
    BY <1>2
  <1>4. start(b) \in starts /\ end(b) \in ends
    OBVIOUS
  <1>5. PICK lo \in Nat : lo = Min(starts) /\ lo <= start(b)
    <2> HIDE DEF starts
    <2> QED BY <1>3, <1>4, LeastOf
  <1>6. PICK hi \in Nat : hi = Max(ends) /\ hi >= end(b)
    <2> HIDE DEF ends
    <2> QED BY <1>1, <1>3, <1>4, GreatestOf
  <1>7. Extent(dev) = {[base |-> lo, limit |-> hi]}
    <2>1. Extent(dev) = IF starts = {} THEN {} ELSE {[base |-> Min(starts), limit |-> Max(ends)]}
      BY DEF Extent, end
    <2>2. starts # {}
      BY <1>4
    <2> QED BY <1>5, <1>6, <2>1, <2>2
  <1> DEFINE w == [base |-> (lo \div Window) * Window, limit |-> (hi \div Window) * Window + Window - 1]
  <1>8. w \in WindowFor(dev)
    BY <1>7 DEF WindowFor
  <1>9. (lo \div Window) * Window \in Nat /\ (lo \div Window) * Window <= lo
    <2>1. PICK q \in Nat, m \in Nat : q = lo \div Window /\ lo = Window * q + m
      BY <1>1, DivMod
    <2> QED BY <1>1, <2>1
  <1>10. (hi \div Window) * Window + Window - 1 \in Nat /\ hi <= (hi \div Window) * Window + Window - 1
    <2>1. PICK q \in Nat, m \in Nat : q = hi \div Window /\ hi = Window * q + m /\ m < Window
      BY <1>1, DivMod
    <2>2. q * Window \in Nat /\ q * Window = Window * q
      BY <1>1, <2>1
    <2> QED BY <1>1, <2>1, <2>2
  <1>11. w.base <= start(b) /\ end(b) <= w.limit /\ w.base \in Nat /\ w.limit \in Nat
    <2>1. start(b) \in Nat /\ end(b) \in Nat
      BY <1>2
    <2> QED BY <1>5, <1>6, <1>9, <1>10, <2>1
  <1> QED BY <1>2, <1>8, <1>11

LEMMA ReachTells == ASSUME PciInv, ScanInv, AllocInv, ReachInv PROVE TestReaches
  <1> SUFFICES ASSUME task = "trigger", NEW dev \in Vfio, NEW b \in Used(dev), ~wrapped,
                      ~(Decoded(dev, b) >= Wrap),
                      \A i \in Parent(dev.at[1]) : /\ ~(bridge_info[i].at[1] > 0)
                                                   /\ "memory" \in RegistersOf(bridge_info[i]).cmd
               PROVE  Routed(dev, b, {addr + n : addr \in Mapped(dev, b), n \in 0 .. dev.bar_size[b] - 1})
    BY DEF TestReaches
  <1>1. PICK k \in DOMAIN device_info : dev = device_info[k]
    BY DEF Vfio, FindById
  <1>2. /\ dev.at \in DOMAIN config /\ dev.at[1] \in Nat /\ dev.at = <<dev.at[1], dev.at[2], dev.at[3]>>
        /\ FitsEntry(dev) /\ BarsFit(config[dev.at])
    BY <1>1, Triple DEF ScanInv, TablesInv, Found, Answering, AllocInv, RegistersInv
  <1>3. Opened(dev) /\ phase = "up" /\ alloc_idx > Len(device_info) /\ alloc_idx \in Nat
    BY Facts DEF ReachInv, AllocInv, RegistersInv
  <1>4. b \in Bars /\ dev.bar_size[b] \in Nat /\ dev.bar_size[b] > 0 /\ dev.bar_address[b] \in Nat
    BY <1>2 DEF Used, FitsEntry
  <1>5. PICK value \in Nat : value = config[dev.at].bars[b].value
    BY <1>2, <1>4 DEF BarsFit
  <1>6. Decoded(dev, b) = value
    <2>1. CASE config[dev.at].bars[b].kind = "mem64" /\ b < MaxBars - 1
      <3>1. b + 1 \in Bars
        BY <1>4, <2>1, SizeAssumption DEF Bars
      <3>2. PICK u \in Nat : u = config[dev.at].bars[b + 1].value
        BY <1>2, <3>1 DEF BarsFit
      <3>3. Decoded(dev, b) = value + Wrap * u
        BY <1>5, <2>1, <3>2 DEF Decoded, RegistersOf, Registers
      <3>4. CASE u = 0
        BY <3>3, <3>4, SizeAssumption
      <3>5. CASE u > 0
        <4>1. Wrap \in Nat /\ Wrap * u >= Wrap
          BY <3>5, SizeAssumption
        <4> QED BY <3>3, <4>1
      <3> QED BY <3>4, <3>5
    <2>2. CASE ~(config[dev.at].bars[b].kind = "mem64" /\ b < MaxBars - 1)
      BY <1>5, <2>2 DEF Decoded, RegistersOf, Registers
    <2> QED BY <2>1, <2>2
  <1> DEFINE all == {addr + n : addr \in Mapped(dev, b), n \in 0 .. dev.bar_size[b] - 1}
  <1>7. \A y \in all : y \in Nat /\ value <= y /\ y <= value + dev.bar_size[b] - 1
    <2>1. Mapped(dev, b) \subseteq {value}
      BY <1>5 DEF Mapped, RegistersOf, Registers
    <2> QED BY <1>4, <2>1
  <1> HIDE DEF all
  <1>8. all \subseteq Decoded(dev, b) .. Decoded(dev, b) + dev.bar_size[b] - 1
    BY <1>4, <1>6, <1>7
  <1>9. ASSUME dev.at[1] > 0
        PROVE  /\ Upstream(dev.at[1]) # {}
               /\ \A i \in Upstream(dev.at[1]) : PassesDown(bridge_info[i], all)
    <2>1. ASSUME NEW x \in Used(dev)
          PROVE  /\ dev.bar_address[x] + dev.bar_size[x] < Wrap
                 /\ config[dev.at].bars[x].value = dev.bar_address[x]
      <3> DEFINE r == <<k, x>>
      <3>1. x \in Bars /\ dev.bar_size[x] > 0
        BY DEF Used
      <3>2. k \in Nat /\ k < alloc_idx
        BY <1>3 DEF PciInv, TableOK
      <3>3. dev.at # <<0, 0, 0>>
        BY <1>9
      <3>4. r \in Placed
        BY <1>1, <3>1, <3>2, <3>3 DEF Placed
      <3>5. PlacedWell(r)
        BY <1>3, <3>4 DEF AllocInv, PlacedInv
      <3>6. r[1] = k /\ r[2] = x
        OBVIOUS
      <3> HIDE DEF r
      <3> QED BY <1>1, <3>5, <3>6 DEF PlacedWell, Start, Size
    <2>2. PICK w \in WindowFor(dev) :
             /\ w.base <= dev.bar_address[b] /\ dev.bar_address[b] + dev.bar_size[b] - 1 <= w.limit
             /\ w.base \in Nat /\ w.limit \in Nat
      BY <1>2, <2>1, WindowCovers
    <2>3. value = dev.bar_address[b]
      BY <1>5, <2>1
    <2>4. all \subseteq w.base .. w.limit
      BY <1>4, <1>7, <2>2, <2>3
    <2>5. PICK i \in Parent(dev.at[1]) : config[bridge_info[i].at].window = WindowFor(dev)
      BY <1>3, <1>9 DEF Opened
    <2>6. Upstream(dev.at[1]) = Parent(dev.at[1]) /\ \A j \in Parent(dev.at[1]) : j = i
      BY <1>2, <1>9, ParentAlone
    <2>7. PassesDown(bridge_info[i], all)
      BY <2>2, <2>4, <2>5 DEF PassesDown, RegistersOf, Registers
    <2> QED BY <2>5, <2>6, <2>7
  <1>11. ASSUME ~(dev.at[1] > 0) PROVE Upstream(dev.at[1]) = {}
    <2>1. {} \in SUBSET DOMAIN bridge_info
      OBVIOUS
    <2> QED BY <1>11, <2>1 DEF Upstream
  <1>10. "memory" \in config[dev.at].cmd
    BY <1>3 DEF Opened
  <1>12. "memory" \in RegistersOf(dev).cmd
    BY <1>10 DEF RegistersOf, Registers
  <1>13. /\ dev.at[1] > 0 => Upstream(dev.at[1]) # {}
         /\ \A i \in Upstream(dev.at[1]) : PassesDown(bridge_info[i], all)
    BY <1>9, <1>11
  <1>14. Routed(dev, b, all)
    BY <1>8, <1>12, <1>13 DEF Routed
  <1> QED BY <1>14 DEF all

(***************************************************************************)
(* When the test of the MSI writes its trigger, every BAR of the device    *)
(* that has an address can be reached at it: the registers, the table, the *)
(* bridge's window and the device's command register agree.  For every     *)
(* configuration of devices, whatever the sizes of their BARs, with the    *)
(* exceptions that TestReaches names; the bridge that nobody opened is one *)
(* of them.                                                                *)
(***************************************************************************)
THEOREM TestAlwaysReaches == RtosSpec => []TestReaches
  <1>1. RtosInit => PciInv /\ ScanInv /\ AllocInv /\ ReachInv
    BY PciInitInv, ScanInitInv, AllocInitInv DEF RtosInit, PciInit, ReachInv
  <1>2. PciInv /\ ScanInv /\ AllocInv /\ ReachInv /\ [RtosNext]_<<vars, pciVars>>
        => PciInv' /\ ScanInv' /\ AllocInv' /\ ReachInv'
    BY RtosKeeps, RtosScans, RtosAllocates, RtosReaches
  <1>3. PciInv /\ ScanInv /\ AllocInv /\ ReachInv => TestReaches
    BY ReachTells
  <1> QED BY <1>1, <1>2, <1>3, PTL DEF RtosSpec
=============================================================================
