------------------------------- MODULE PciScan ------------------------------
(***************************************************************************)
(* The PCI root complex at start: the depth-first scan of the buses, the   *)
(* sizing of the base address registers (BARs), the allocation of memory   *)
(* and MSI vectors (drivers/pci/pci_rc.c, init_pci and                     *)
(* pcie_register_msi_vector in the ports' pci.c), and what drivers do with *)
(* a device afterwards (drivers/pci/pci_utils.c).                          *)
(*                                                                         *)
(* A function of a device is a triple <<bus, dev, func>>; config gives the *)
(* configuration space of the functions present.  Addresses are scaled: a  *)
(* 32-bit address is a number below Wrap, a BAR has a power of two of      *)
(* units, Least of them standing for the 16 bytes whose mask is            *)
(* 0xFFFFFFF0, and a bridge's window has a granularity of Window units     *)
(* (1 MB).  The recursion of do_pci_scan is a stack of frames.             *)
(***************************************************************************)
EXTENDS Integers, Sequences, FiniteSetsExt

CONSTANTS Topologies,                 \* what config may be at start
          MaxDevices, MaxBridges, MaxFunctions, MaxBars, MaxPciMsi,
          MaxCaps,                    \* timeout of the capability search
          MmioBase, Wrap, Least, Window

ASSUME SizeAssumption ==
    /\ {MaxDevices, MaxFunctions, MaxBars, MaxCaps, MaxPciMsi, Wrap, Window} \subseteq Nat \ {0}
    /\ {MaxBridges, MmioBase, Least} \subseteq Nat

Bars == 0 .. MaxBars - 1

\* A single register cannot ask for more than 32 bits.
BarsFit(function) ==
    /\ DOMAIN function.bars = Bars
    /\ \A b \in Bars :
          LET bar == function.bars[b]
          IN  /\ {"kind", "typed", "size", "value"} \subseteq DOMAIN bar
              /\ bar.size \in Nat /\ bar.value \in Nat
              /\ bar.size < Wrap \/ (bar.kind = "mem64" /\ b < MaxBars - 1)

\* What hardware and firmware have set up at start: every bus is behind one bridge.
Leads(functions, f) == functions[f].header = "bridge" /\ functions[f].secondary > f[1]
ASSUME TopologiesAssumption ==
    \A functions \in Topologies :
        /\ DOMAIN functions \subseteq Nat \X Nat \X Nat
        /\ \A f \in DOMAIN functions :
              /\ {"header", "multi", "secondary", "bars", "window", "cmd", "msi"} \subseteq DOMAIN functions[f]
              /\ functions[f].header \in {"endpoint", "bridge", "other"} /\ functions[f].secondary \in Nat
              /\ functions[f].msi = {} /\ BarsFit(functions[f])
        /\ \A f, g \in DOMAIN functions :
              Leads(functions, f) /\ Leads(functions, g) /\ functions[f].secondary = functions[g].secondary => f = g

VARIABLES config,          \* the configuration space
          phase,           \* "scan", "size" (in do_pci_scan), "alloc" or "up"
          stack,           \* frames of do_pci_scan, the innermost last
          device_info, bridge_info,
          dev_info,        \* the entry being filled
          bar_idx,         \* the BAR being sized or placed
          alloc_idx,       \* pci_alloc's device
          free_mmio, vector_count,
          limited, wrapped \* history: a limit was met; free_mmio left the 32 bits

scanVars == <<config, phase, stack, device_info, bridge_info, dev_info, bar_idx,
              alloc_idx, free_mmio, vector_count, limited, wrapped>>

NoEntry == [at |-> <<0, 0, 0>>, id |-> "other",
            bar_size |-> [b \in Bars |-> 0], bar_address |-> [b \in Bars |-> 0]]

ScanInit ==
    /\ config \in Topologies
    /\ phase = "scan" /\ stack = <<[bus |-> 0, dev |-> 0, func |-> 0]>>
    /\ device_info = <<>> /\ bridge_info = <<>> /\ dev_info = NoEntry
    /\ bar_idx = 0 /\ alloc_idx = 1
    /\ free_mmio = MmioBase /\ vector_count = 0
    /\ limited = FALSE /\ wrapped = FALSE

-----------------------------------------------------------------------------
(* do_pci_scan *)

\* pcie_read_config_word and its siblings: the registers at a bus, device and function
\* number.  A function that is not there reads as vendor 0xFFFF or 0.
Registers(f) == config[f]
Present(f) == f \in DOMAIN config
Here == stack[Len(stack)]
This == <<Here.bus, Here.dev, Here.func>>
Callers == SubSeq(stack, 1, Len(stack) - 1)
Goto(dev, func) == stack' = Append(Callers, [Here EXCEPT !.dev = dev, !.func = func])

\* Mutant: the bit of a multi-function device is ignored.
FunctionsOne(bus, dev) == IF ~Present(<<bus, dev, 0>>) THEN 0 ELSE 1

Functions(bus, dev) ==
    IF ~Present(<<bus, dev, 0>>) THEN 0
    ELSE IF config[<<bus, dev, 0>>].multi THEN MaxFunctions ELSE 1

Scanning == phase = "scan" /\ stack # <<>>
Visiting == /\ Scanning /\ Here.dev < MaxDevices
            /\ Here.func < Functions(Here.bus, Here.dev) /\ Present(This)
Keep == UNCHANGED <<config, alloc_idx, free_mmio, vector_count, wrapped>>

NextDevice ==
    /\ Scanning /\ Here.dev < MaxDevices /\ Here.func >= Functions(Here.bus, Here.dev)
    /\ Goto(Here.dev + 1, 0)
    /\ UNCHANGED <<phase, device_info, bridge_info, dev_info, bar_idx, limited>> /\ Keep

\* A hole among the functions, or a header that is neither an endpoint's nor a bridge's.
SkipFunction ==
    /\ Scanning /\ Here.dev < MaxDevices /\ Here.func < Functions(Here.bus, Here.dev)
    /\ Present(This) => Len(device_info) < MaxDevices /\ config[This].header = "other"
    /\ Goto(Here.dev, Here.func + 1)
    /\ UNCHANGED <<phase, device_info, bridge_info, dev_info, bar_idx, limited>> /\ Keep

\* The end of a bus: back to the scan of the bus above.
ReturnFromBus ==
    /\ Scanning /\ Here.dev = MaxDevices
    /\ stack' = Callers
    /\ UNCHANGED <<phase, device_info, bridge_info, dev_info, bar_idx, limited>> /\ Keep

\* A full table ends the scan of this bus only; every caller goes on.
LimitReached ==
    /\ Visiting
    /\ Len(device_info) < MaxDevices
         => config[This].header = "bridge" /\ Len(bridge_info) >= MaxBridges
    /\ limited' = TRUE
    /\ stack' = Callers
    /\ UNCHANGED <<phase, device_info, bridge_info, dev_info, bar_idx>> /\ Keep

FoundEndpoint ==
    /\ Visiting /\ Len(device_info) < MaxDevices /\ config[This].header = "endpoint"
    /\ dev_info' = [NoEntry EXCEPT !.at = This, !.id = config[This].id]
    /\ bar_idx' = 0
    /\ phase' = "size"
    /\ UNCHANGED <<stack, device_info, bridge_info, limited>> /\ Keep

FoundBridge ==
    /\ Visiting /\ Len(device_info) < MaxDevices /\ config[This].header = "bridge"
    /\ Len(bridge_info) < MaxBridges
    /\ LET sec == config[This].secondary
           frame == [Here EXCEPT !.func = @ + 1]
           below == <<[bus |-> sec, dev |-> 0, func |-> 0]>>
       IN  /\ bridge_info' = Append(bridge_info, [at |-> This, secondary |-> sec])
           \* an unconfigured bridge has no bus number
           /\ stack' = Append(Callers, frame) \o (IF sec > Here.bus THEN below ELSE <<>>)
    /\ UNCHANGED <<phase, device_info, dev_info, bar_idx, limited>> /\ Keep

-----------------------------------------------------------------------------
(* The sizing of BAR bar_idx of the function This: the register is written *)
(* with ones, read back and restored, so config is what it was.            *)

Bar == Registers(This).bars[bar_idx]
ReadsZero(bar) == bar.kind = "none" \/ (bar.kind = "mem32" /\ ~bar.typed /\ bar.value = 0)
Is64(bar) == bar.kind = "mem64" /\ bar_idx < MaxBars - 1

Sized(n, size, address) ==
    /\ dev_info' = [dev_info EXCEPT !.bar_size[bar_idx] = size, !.bar_address[bar_idx] = address]
    /\ bar_idx' = bar_idx + n
    /\ UNCHANGED <<phase, stack, device_info, bridge_info, limited>> /\ Keep

Sizing == phase = "size" /\ bar_idx < MaxBars /\ ~ReadsZero(Bar)

SizeSkipped ==
    /\ Sizing /\ Bar.kind = "io"
    /\ Sized(1, 0, dev_info.bar_address[bar_idx])

\* A 64-bit BAR takes two registers; bar_size and bar_address have 32 bits.
Size64 == /\ Sizing /\ Is64(Bar)
          /\ Sized(2, IF Bar.size >= Wrap THEN Wrap - 1 ELSE Bar.size, Bar.value)

Size32 == /\ Sizing /\ Bar.kind \in {"mem32", "mem64"} /\ ~Is64(Bar)
          /\ Sized(1, IF Bar.size = Least THEN 0 ELSE Bar.size, Bar.value)

\* A register that reads as zero ends the sizing of all BARs that follow it.
SizeDone ==
    /\ phase = "size" /\ (bar_idx < MaxBars => ReadsZero(Bar))
    /\ device_info' = Append(device_info, dev_info)
    /\ phase' = "scan"
    /\ Goto(Here.dev, Here.func + 1)
    /\ UNCHANGED <<bridge_info, dev_info, bar_idx, limited>> /\ Keep

ScanDone ==
    /\ phase = "scan" /\ stack = <<>>
    /\ phase' = "alloc" /\ bar_idx' = 0
    /\ UNCHANGED <<stack, device_info, bridge_info, dev_info, limited>> /\ Keep

ScanStep == \/ NextDevice \/ SkipFunction \/ ReturnFromBus \/ LimitReached
            \/ FoundEndpoint \/ FoundBridge
            \/ SizeSkipped \/ Size64 \/ Size32 \/ SizeDone \/ ScanDone

-----------------------------------------------------------------------------
(* pci_alloc *)

\* Mutant: BARs are packed.
AlignedPacked(size) == free_mmio

\* free_mmio rounded up by the mask of a size, in 32 bits.  For a size that
\* was capped to 0xFFFFFFFF the mask leaves only bit 0.
Aligned(size) ==
    LET top == free_mmio + size - 1
    IN  (IF size = Wrap - 1 THEN top % 2 ELSE (top \div size) * size) % Wrap

\* The capability list, followed for at most MaxCaps - 1 nodes.
HasMsi(f) ==
    LET caps == config[f].caps
        node[n \in 1 .. MaxCaps] == IF n = 1 THEN caps.first
                                    ELSE IF node[n - 1] = 0 THEN 0 ELSE caps.next[node[n - 1]]
    IN  \E n \in 1 .. MaxCaps - 1 : node[n] # 0 /\ node[n] = caps.msi

\* pcie_register_msi_vector refuses a device only if both identifiers differ.
GetsVector(f) == HasMsi(f) /\ config[f].id # "other" /\ vector_count < MaxPciMsi
VectorCountAfter(f) == IF GetsVector(f) THEN vector_count + 1 ELSE vector_count

Allocating == phase = "alloc" /\ alloc_idx <= Len(device_info)
Device == device_info[alloc_idx]
KeepScan == UNCHANGED <<stack, bridge_info, dev_info, limited>>

AllocHostBridge ==
    /\ Allocating /\ Device.at = <<0, 0, 0>>
    /\ alloc_idx' = alloc_idx + 1
    /\ UNCHANGED <<config, phase, device_info, bar_idx, free_mmio, vector_count, wrapped>>
    /\ KeepScan

AllocNoBar ==
    /\ Allocating /\ Device.at # <<0, 0, 0>> /\ bar_idx < MaxBars
    /\ Device.bar_size[bar_idx] = 0
    /\ bar_idx' = bar_idx + 1
    /\ UNCHANGED <<config, phase, device_info, alloc_idx, free_mmio, vector_count, wrapped>>
    /\ KeepScan

\* Only the lower register of a 64-bit BAR is written.
AllocBar ==
    /\ Allocating /\ Device.at # <<0, 0, 0>> /\ bar_idx < MaxBars
    /\ LET size == Device.bar_size[bar_idx]
           addr == Aligned(size)
       IN  /\ size > 0
           /\ config' = [config EXCEPT ![Device.at].bars[bar_idx].value = addr]
           /\ device_info' = [device_info EXCEPT ![alloc_idx].bar_address[bar_idx] = addr]
           /\ free_mmio' = (addr + size) % Wrap
           /\ wrapped' = (wrapped \/ addr < free_mmio \/ addr + size >= Wrap)
    /\ bar_idx' = bar_idx + 1
    /\ UNCHANGED <<phase, alloc_idx, vector_count>> /\ KeepScan

\* The vector, then memory and master in the command register.
AllocDevice ==
    /\ Allocating /\ Device.at # <<0, 0, 0>> /\ bar_idx >= MaxBars
    /\ vector_count' = VectorCountAfter(Device.at)
    /\ config' = [config EXCEPT
                    ![Device.at].msi = IF GetsVector(Device.at) THEN {vector_count} ELSE @,
                    ![Device.at].cmd = @ \cup {"memory", "master"}]
    /\ alloc_idx' = alloc_idx + 1 /\ bar_idx' = 0
    /\ UNCHANGED <<phase, device_info, free_mmio, wrapped>> /\ KeepScan

\* init_pci is done; the PCI_SCANNED and PCI_INITIALIZED flags keep it so.
AllocDone ==
    /\ phase = "alloc" /\ alloc_idx > Len(device_info)
    /\ phase' = "up"
    /\ UNCHANGED <<config, device_info, bar_idx, alloc_idx, free_mmio, vector_count, wrapped>>
    /\ KeepScan

AllocStep == AllocHostBridge \/ AllocNoBar \/ AllocBar \/ AllocDevice \/ AllocDone

-----------------------------------------------------------------------------
(* What a driver does with a device of the table *)

\* pci_read_config_word, pcib_read_config_word and their siblings: the registers of an
\* entry of the tables.
RegistersOf(entry) == Registers(entry.at)

\* pci_find_by_id: the first entry, or none.
FindById(id) == {i \in DOMAIN device_info :
                    /\ device_info[i].id = id
                    /\ \A j \in 1 .. i - 1 : device_info[j].id # id}

\* pci_ioremap_bar: the address in the registers, none for a BAR without memory.
\* A pointer has 32 bits, so the upper register of a 64-bit BAR is lost.
Mapped(dev, b) ==
    LET bar == RegistersOf(dev).bars[b]
    IN  IF dev.bar_size[b] = 0 \/ ReadsZero(bar) \/ bar.kind = "io" THEN {} ELSE {bar.value}

\* The address the device decodes.
Decoded(dev, b) ==
    LET bars == RegistersOf(dev).bars
    IN  bars[b].value + (IF bars[b].kind = "mem64" /\ b < MaxBars - 1
                         THEN Wrap * bars[b + 1].value ELSE 0)

\* The first bridge of the table in front of a bus.
Parent(bus) == {i \in DOMAIN bridge_info :
                   /\ RegistersOf(bridge_info[i]).secondary = bus
                   /\ \A j \in 1 .. i - 1 : RegistersOf(bridge_info[j]).secondary # bus}

Used(dev) == {b \in Bars : dev.bar_size[b] > 0 /\ dev.bar_address[b] # 0}

\* Mutant: the limit is where the last BAR starts.
ExtentShort(dev) ==
    LET starts == {dev.bar_address[b] : b \in Used(dev)}
    IN  IF starts = {} THEN {} ELSE {[base |-> Min(starts), limit |-> Max(starts)]}

\* From the first byte to the last one of the BARs that have an address, in 32 bits.
Extent(dev) ==
    LET starts == {dev.bar_address[b] : b \in Used(dev)}
        ends == {(dev.bar_address[b] + dev.bar_size[b] - 1) % Wrap : b \in Used(dev)}
    IN  IF starts = {} THEN {} ELSE {[base |-> Min(starts), limit |-> Max(ends)]}

\* The window of the bridge in front of the device, set to this device alone.
WindowFor(dev) == {[base |-> (e.base \div Window) * Window,
                    limit |-> (e.limit \div Window) * Window + Window - 1] : e \in Extent(dev)}

\* pci_config_device_resources
ConfigDeviceResources(dev) ==
    LET bridge == IF dev.at[1] > 0 THEN {bridge_info[i].at : i \in Parent(dev.at[1])} ELSE {}
        written(f, b) == IF f = dev.at /\ dev.bar_size[b] # 0
                         THEN [config[f].bars[b] EXCEPT !.value = dev.bar_address[b]]
                         ELSE config[f].bars[b]
    IN  config' = [f \in DOMAIN config |->
                    [config[f] EXCEPT
                       !.window = IF f \in bridge THEN WindowFor(dev) ELSE @,
                       !.bars = [b \in Bars |-> written(f, b)],
                       !.cmd = IF f = dev.at THEN @ \cup {"io", "memory", "master"} ELSE @]]

-----------------------------------------------------------------------------
(* Properties *)

\* Functions that answer a scan of their bus: function 0 of their device is there.
Answering == {f \in DOMAIN config :
                /\ f[2] < MaxDevices
                /\ <<f[1], f[2], 0>> \in DOMAIN config
                /\ f[3] = 0 \/ (config[<<f[1], f[2], 0>>].multi /\ f[3] < MaxFunctions)}

\* The buses that configured bridges lead to: the least set of them with bus 0.
AllBuses == {0} \cup {config[f].secondary : f \in DOMAIN config}
Closed(buses) == /\ 0 \in buses
                 /\ \A f \in Answering : Leads(config, f) /\ f[1] \in buses => config[f].secondary \in buses
Buses == {b \in AllBuses : \A buses \in SUBSET AllBuses : Closed(buses) => b \in buses}
Visible == {f \in Answering : f[1] \in Buses}

(***************************************************************************)
(* The device table has no entry twice and only endpoints that are there;  *)
(* unless a table was full it has all of them, on every bus that bridges   *)
(* lead to.  Neither table grows past its array.                           *)
(***************************************************************************)
ScanExact ==
    LET found == {device_info[i].at : i \in DOMAIN device_info}
        endpoints == {f \in Visible : config[f].header = "endpoint"}
    IN  /\ Len(device_info) <= MaxDevices /\ Len(bridge_info) <= MaxBridges
        /\ Cardinality(found) = Len(device_info)
        /\ found \subseteq endpoints
        /\ phase \in {"alloc", "up"} /\ ~limited => found = endpoints

Placed == {r \in (DOMAIN device_info) \X Bars :
             /\ device_info[r[1]].at # <<0, 0, 0>> /\ device_info[r[1]].bar_size[r[2]] > 0
             /\ r[1] < alloc_idx \/ (r[1] = alloc_idx /\ r[2] < bar_idx)}
Start(r) == device_info[r[1]].bar_address[r[2]]
Size(r) == device_info[r[1]].bar_size[r[2]]

(***************************************************************************)
(* The BARs that pci_alloc has placed are aligned to their sizes and do    *)
(* not overlap, the registers hold what the table says, and no two devices *)
(* share a vector of the trampoline table, as long as free_mmio stays      *)
(* within 32 bits (the code does not look).                                *)
(***************************************************************************)
BarsApart ==
    /\ phase \in {"alloc", "up"} /\ ~wrapped =>
         \A r \in Placed :
            /\ Start(r) % Size(r) = 0 /\ Start(r) >= MmioBase
            /\ config[device_info[r[1]].at].bars[r[2]].value = Start(r)
            /\ \A q \in Placed \ {r} : Start(r) + Size(r) <= Start(q)
                                      \/ Start(q) + Size(q) <= Start(r)
    /\ \A f, g \in DOMAIN config : f # g => config[f].msi \cap config[g].msi = {}
    /\ \A f \in DOMAIN config : config[f].msi \subseteq 0 .. MaxPciMsi - 1
=============================================================================
