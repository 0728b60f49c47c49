----------------------------- MODULE EventLoop ------------------------------
(***************************************************************************)
(* The main loop of the build without an RTOS (port/event_loop_main.c) on  *)
(* bare metal, with the interrupt handlers that drive it: the UART handler *)
(* stores a character and sets EVT_DATA_READY, every Period-th SysTick     *)
(* sets EVT_SYS_TICK, and the MSI handler sets EVT_MSI.  The loop takes    *)
(* all events at once, serves one character, and halts the processor until *)
(* the next interrupt, whichever it is and whatever came in meanwhile.     *)
(*                                                                         *)
(* The input FIFO is the ByteQueue that Fifo implements.  A command line   *)
(* is a single "enter"; what it asks for is chosen when it is executed.    *)
(***************************************************************************)
EXTENDS Integers, Sequences

CONSTANTS
    Bytes, EOF, Capacity,   \* the input FIFO
    Boards,                 \* a subset of {"cortex-m", "pcie"}
    Period,                 \* SysTick interrupts per EVT_SYS_TICK (256)
    MaxChars,               \* bound: the characters typed
    MaxTests                \* bound: the PCI tests asked for

ASSUME BoardAssumption == Boards \subseteq {"cortex-m", "pcie"} /\ Boards # {}
ASSUME BoundAssumption == /\ Period \in Nat \ {0} /\ Capacity \in Nat \ {0}
                          /\ MaxChars \in Nat /\ MaxTests \in Nat
                          /\ "enter" \in Bytes /\ EOF \notin Bytes

Events == {"EVT_SYS_TICK", "EVT_DATA_READY", "EVT_MSI", "EVT_PCI_TEST"}

VARIABLES
    board,          \* which board the image is built for
    event_notify,   \* the events set since the loop last took them
    queue, pushed, popped,   \* the input FIFO
    keep_running,
    at,             \* where main stands
    event,          \* its local copy of the events
    ticks,          \* system_ticks % Period
    seen,           \* event_notify as a SysTick handler that was interrupted read it, or <<>>
    device,         \* an MSI the PCI device has yet to deliver
    typed,          \* history: the characters stored so far
    served,         \* history: the characters given to the command line
    asked, tests, triggers,  \* history: the PCI tests asked for, run, and their MSI tests
    open            \* history: an MSI test waits for its epilogue

fifo == <<queue, pushed, popped>>
pci == <<device, asked, tests, triggers, open>>
vars == <<board, event_notify, fifo, keep_running, at, event, ticks, seen, typed, served, pci>>

Q == INSTANCE ByteQueue

Init == /\ board \in Boards
        /\ event_notify = {}
        /\ Q!Init
        /\ keep_running = TRUE
        /\ at = "top" /\ event = {}
        /\ ticks = 0 /\ seen = <<>>
        /\ device = FALSE
        /\ typed = 0 /\ served = 0
        /\ asked = 0 /\ tests = 0 /\ triggers = 0 /\ open = FALSE

-----------------------------------------------------------------------------
(***************************************************************************)
(* Interrupt handlers.  Each runs to its end before main goes on, and ends *)
(* the halt.  On the Cortex-M boards SysTick has the lowest priority, so a *)
(* UART interrupt can come between its load and its store of event_notify. *)
(***************************************************************************)
Woken == at' = IF at = "halted" THEN "top" ELSE at

UartIrq(c) ==
    /\ typed < MaxChars
    /\ \/ Q!Put(c) /\ typed' = typed + 1
       \/ Q!Reject /\ UNCHANGED typed
    /\ event_notify' = event_notify \cup {"EVT_DATA_READY"}
    /\ Woken
    /\ UNCHANGED <<board, keep_running, event, ticks, seen, served, pci>>

\* Mutant: the tick sets no event.
SysTickSilent ==
    /\ seen = <<>>
    /\ ticks' = (ticks + 1) % Period
    /\ Woken
    /\ UNCHANGED <<board, event_notify, fifo, keep_running, event, seen, typed, served, pci>>

\* The handler up to its load of event_notify, and to its end when that is not interrupted.
SysTick ==
    /\ seen = <<>>
    /\ ticks' = (ticks + 1) % Period
    /\ \/ ticks' # 0 /\ UNCHANGED <<event_notify, seen>>
       \/ /\ ticks' = 0
          /\ board # "cortex-m"
          /\ event_notify' = event_notify \cup {"EVT_SYS_TICK"}
          /\ UNCHANGED seen
       \/ /\ ticks' = 0
          /\ board = "cortex-m"
          /\ seen' = <<event_notify>>
          /\ UNCHANGED event_notify
    /\ Woken
    /\ UNCHANGED <<board, fifo, keep_running, event, typed, served, pci>>

\* The store: what came in since the load is overwritten.
SysTickStore ==
    /\ seen # <<>>
    /\ event_notify' = seen[1] \cup {"EVT_SYS_TICK"}
    /\ seen' = <<>>
    /\ UNCHANGED <<board, fifo, keep_running, at, event, ticks, typed, served, pci>>

\* Mutant: the vector's event bit is not one of EVT_MSI_MASK.
MsiIrqUnmasked ==
    /\ device
    /\ device' = FALSE
    /\ Woken
    /\ UNCHANGED <<board, event_notify, fifo, keep_running, event, ticks, seen, typed, served,
                   asked, tests, triggers, open>>

MsiIrq ==
    /\ device
    /\ device' = FALSE
    /\ event_notify' = event_notify \cup {"EVT_MSI"}
    /\ Woken
    /\ UNCHANGED <<board, fifo, keep_running, event, ticks, seen, typed, served,
                   asked, tests, triggers, open>>

-----------------------------------------------------------------------------
(* main; it runs only outside the interrupt handlers                       *)

Main(a) == at = a /\ seen = <<>>

\* The loop condition and the atomic exchange.
TakeEvents ==
    /\ Main("top")
    /\ IF keep_running
       THEN /\ event' = event_notify
            /\ event_notify' = {}
            /\ at' = IF event_notify = {} THEN "idle" ELSE "pci"
       ELSE at' = "done" /\ UNCHANGED <<event, event_notify>>
    /\ UNCHANGED <<board, fifo, keep_running, ticks, seen, typed, served, pci>>

\* test_pci and the epilogue of the MSI test; the event counters.
ServePci ==
    /\ Main("pci")
    /\ tests' = tests + (IF "EVT_PCI_TEST" \in event THEN 1 ELSE 0)
    /\ open' = (open /\ "EVT_MSI" \notin event)
    /\ at' = "ready"
    /\ UNCHANGED <<board, event_notify, fifo, keep_running, event, ticks, seen, typed, served,
                   device, asked, triggers>>

\* Mutant: cli_run reads a character without looking.
StdinAlwaysReady ==
    /\ Main("ready")
    /\ at' = "getchar"
    /\ UNCHANGED <<board, event_notify, fifo, keep_running, event, ticks, seen, typed, served, pci>>

\* cli_run, stdin_ready: nothing to read ends cli_run.
StdinReady ==
    /\ Main("ready")
    /\ at' = IF queue = <<>> THEN "msi" ELSE "getchar"
    /\ keep_running' = IF queue = <<>> THEN TRUE ELSE keep_running
    /\ UNCHANGED <<board, event_notify, fifo, event, ticks, seen, typed, served, pci>>

\* cli_run, the rest: one character; a command may start a PCI test, or exit.
GetChar ==
    /\ Main("getchar")
    /\ Q!Get \/ Q!FindEmpty
    /\ served' = served + 1
    /\ \/ UNCHANGED <<event_notify, keep_running, asked>>
       \/ /\ popped' = "enter" /\ board = "pcie" /\ asked < MaxTests
          /\ event_notify' = event_notify \cup {"EVT_PCI_TEST"}
          /\ asked' = asked + 1
          /\ UNCHANGED keep_running
       \/ /\ popped' = "enter"
          /\ keep_running' = FALSE
          /\ UNCHANGED <<event_notify, asked>>
    /\ at' = "msi"
    /\ UNCHANGED <<board, event, ticks, seen, typed, device, tests, triggers, open>>

\* Mutant: the MSI test looks at the events of the moment.
MsiTestLate ==
    /\ Main("msi")
    /\ IF "EVT_PCI_TEST" \in event_notify
       THEN triggers' = triggers + 1 /\ device' = TRUE /\ open' = TRUE
       ELSE UNCHANGED <<triggers, device, open>>
    /\ at' = "idle"
    /\ UNCHANGED <<board, event_notify, fifo, keep_running, event, ticks, seen, typed, served,
                   asked, tests>>

\* test_pci_msi_irq makes the device raise its interrupt.
MsiTest ==
    /\ Main("msi")
    /\ IF "EVT_PCI_TEST" \in event
       THEN triggers' = triggers + 1 /\ device' = TRUE /\ open' = TRUE
       ELSE UNCHANGED <<triggers, device, open>>
    /\ at' = "idle"
    /\ UNCHANGED <<board, event_notify, fifo, keep_running, event, ticks, seen, typed, served,
                   asked, tests>>

\* Mutant: what came in meanwhile is cleared before the halt.
IdleClearing ==
    /\ Main("idle")
    /\ at' = "halted"
    /\ event_notify' = {}
    /\ UNCHANGED <<board, fifo, keep_running, event, ticks, seen, typed, served, pci>>

\* HALT_CPU.
Idle ==
    /\ Main("idle")
    /\ at' = "halted"
    /\ UNCHANGED <<board, event_notify, fifo, keep_running, event, ticks, seen, typed, served, pci>>

MainStep == TakeEvents \/ ServePci \/ StdinReady \/ GetChar \/ MsiTest \/ Idle
Handlers == SysTick \/ SysTickStore \/ MsiIrq

Next == (\E c \in Bytes : UartIrq(c)) \/ Handlers \/ MainStep

(***************************************************************************)
(* The timer never stops, the device answers, and the handlers leave main  *)
(* time to run: an interrupt handler ends long before the next tick.       *)
(* Nobody is obliged to type.                                              *)
(***************************************************************************)
Fairness == /\ WF_vars(SysTick) /\ WF_vars(SysTickStore) /\ WF_vars(MsiIrq)
            /\ SF_vars(MainStep)

Spec == Init /\ [][Next]_vars
FairSpec == Spec /\ Fairness

-----------------------------------------------------------------------------
(***************************************************************************)
(* The types; the FIFO never holds more than Capacity.                     *)
(***************************************************************************)
TypeOK ==
    /\ board \in Boards
    /\ event_notify \subseteq Events /\ event \subseteq Events
    /\ queue \in Seq(Bytes) /\ Len(queue) <= Capacity
    /\ keep_running \in BOOLEAN
    /\ at \in {"top", "pci", "ready", "getchar", "msi", "idle", "halted", "done"}
    /\ ticks \in 0 .. Period - 1
    /\ seen \in Seq(SUBSET Events) /\ Len(seen) <= 1
    /\ device \in BOOLEAN /\ open \in BOOLEAN
    /\ typed \in Nat /\ served \in Nat
    /\ asked \in Nat /\ tests \in Nat /\ triggers \in Nat

(***************************************************************************)
(* Every character the FIFO stored is given to the command line unless the *)
(* session ends: also one that came while main was about to halt, that     *)
(* shared its event with another, or whose event the SysTick handler       *)
(* overwrote.                                                              *)
(***************************************************************************)
EveryCharServed == \A n \in 1 .. MaxChars : typed >= n ~> served >= n \/ ~keep_running

(***************************************************************************)
(* A PCI test that was asked for is run exactly once: its event is still   *)
(* set, is in main's copy and not yet served, or was served; and the MSI   *)
(* test follows before the next events are taken.                          *)
(***************************************************************************)
TestsAccounted ==
    /\ asked = tests + (IF "EVT_PCI_TEST" \in event_notify THEN 1 ELSE 0)
                     + (IF "EVT_PCI_TEST" \in event /\ at = "pci" THEN 1 ELSE 0)
    /\ tests = triggers + (IF "EVT_PCI_TEST" \in event /\ at \in {"ready", "getchar", "msi"}
                           THEN 1 ELSE 0)

(***************************************************************************)
(* No character is made up or lost on the way: getchar is never called on  *)
(* an empty FIFO, whose EOF would be taken for a character.                *)
(***************************************************************************)
CharsAccounted == typed = served + Len(queue)

(***************************************************************************)
(* The inductive form: main reads only what it has seen to be there, it    *)
(* asks for a PCI test only when it has taken the last request, and a      *)
(* SysTick handler interrupted between its load and its store has not      *)
(* missed a request, since main does not run meanwhile.                    *)
(***************************************************************************)
LoopInv ==
    /\ TypeOK /\ TestsAccounted /\ CharsAccounted
    /\ at = "getchar" => queue # <<>>
    /\ at \in {"pci", "ready", "getchar"} => "EVT_PCI_TEST" \notin event_notify
    /\ seen # <<>> => ("EVT_PCI_TEST" \in seen[1] <=> "EVT_PCI_TEST" \in event_notify)

(***************************************************************************)
(* Every PCI test asked for gets to its MSI test unless the session ends,  *)
(* although main halts with the request already set.                       *)
(***************************************************************************)
EveryTestRuns == \A n \in 1 .. MaxTests : asked >= n ~> triggers >= n \/ ~keep_running

(***************************************************************************)
(* An MSI test is followed by an epilogue unless the session ends.         *)
(***************************************************************************)
MsiTestEnds == open ~> ~open \/ ~keep_running
=============================================================================
