# EmbedTemplate in TLA+

This directory holds the formal models of the firmware in this repository: TLA+
modules for its concurrent parts, TLC configurations that check them on small
instances, and TLAPS proofs of what matters most for every value of the
constants.

1. [The system](#1-the-system)
2. [The modules](#2-the-modules)
3. [The runs](#3-the-runs)
4. [The proofs](#4-the-proofs)
5. [What the models found](#5-what-the-models-found)
6. [What is not modelled](#6-what-is-not-modelled)
7. [Order of work and what is left](#7-order-of-work-and-what-is-left)

To check: `tlc -workers 2 -config X.cfg M` for a run of section 3, `tlapm M.tla`
for a module of proofs. `PROJECT.json` maps every definition to the lines of
code it stands for.

## 1. The system

EmbedTemplate is a firmware template for Cortex-M, Cortex-A, RISC-V and x86
boards and for hosted execution. It comes in two shapes: **without an RTOS** one
loop serves event bits that interrupt handlers set (`port/event_loop_main.c`);
**with FreeRTOS** tasks of fixed priority wait for notifications
(`port/freertos_main.c`, `port/freertos_sim.c`, `port/freertos_pci.c`).

| component | state | operations | used by |
|---|---|---|---|
| input FIFO, `common/src/fifo.c` | 256 bytes, `fifo_head`, `fifo_tail` | init, push, pop, is_empty | UART interrupt pushes, command line pops |
| log ring, `diagnostic/logging/log_infra.c` | ring of bytes, `head`, `tail`, `dirty`, counters | `log_dispatch`, `log_flash`, levels | every task and handler writes, `process_logs` of the command line reads |
| event loop, `port/event_loop_main.c` | `event_notify`, `keep_running` | exchange, dispatch, halt | UART, SysTick and MSI handlers set bits |
| command line task, `port/freertos_main.c` | notification count, `keep_running` | wait, `cli_run` | UART interrupt notifies |
| thermal simulation, `port/freertos_sim.c` | GPIO registers, temperature, regulation status, `system_mode`, `suspended` | tick, regulate, start, stop, pause, resume | command line and GPIO test |
| GPIO driver, `src/drivers/gpio` | the registers | pins, interrupt status, watchdog | thermal simulation, tests |
| PCI root complex, `src/drivers/pci/pci_rc.c`, `pci_utils.c` | configuration space, device and bridge table, next free address and vector | scan, size, allocate, find a capability, map a BAR, program a device and its bridge | start-up, PCI test |
| PCI task and MSI test, `port/freertos_pci.c`, `pci_test.c`, the ports' `pci.c` | notification state and bits, counts per vector, `suspended` | start, suspend, test, wait for the MSI | command line, MSI handler |
| profiler, `diagnostic/profiler` | sample pool, its counter, a chain per function | enter, exit, stop, start, statistics | compiler instrumentation, `show stats prof` |
| menus and tests, `cli_main.c`, `cli_test.c`, `cli_system.c` | mode, block index, registry, message, application and completion context | menus, back, quit, tests | every line |
| `set` and `show`, `cli_system.c` | log levels, configuration of the plant | dispatch, completion, help, configure, report | command line |
| embedded CLI library, `third_party/lib/embedded-cli` | history, line buffer | lookup, completion | command line task or loop |

How they interact: the UART handler pushes a byte and signals (event bit or
notification); the loop or the task runs `cli_run`, which takes the logs out of
the ring, looks at the FIFO (`stdin_ready`), reads **one** byte and, when it
completes a line, executes a command in the same context. Commands start, pause
and stop the simulation, run driver tests, and request the PCI test. Everything
logs, from interrupt handlers too.

Every test of the test menus is a function in a registry; one of them types a
list of commands itself. `set` and `show` lines change log levels that the first
start of the simulation changes too.

What is hard: the FIFO and the ring are shared without locks; on one core a
reader can be preempted at any instruction and for any number of writers; the
event word is changed by plain read-modify-write in handlers that nest; halting
races with interrupts; the hardware task and the command line agree on a pause
through one word; registers are saved and restored by a test beside a running
simulation; 16-bit sums scale with user configuration; one notification of the
PCI task carries requests and interrupts and is cleared in two steps; the same
address is kept in a register, in a table and in a bridge; profiled calls
interrupt each other between the two steps that extend a chain; menus leave
their commands, names and messages behind for the next one; and completion and
execution are two programs over the same tables.

What makes each part correct:

- FIFO: it is a bounded queue; no two accesses to a slot race; a FIFO seen
  non-empty answers a byte.
- Log ring: it is a bounded queue that keeps the newest records; records come
  out whole and once; a quiet system has its logs flushed; both sides end.
- Event loop: every stored byte is served, every PCI test requested is run once
  with its MSI test, although events coincide, come before the halt, or are
  overwritten.
- Command line task: it never reads an empty FIFO, whose EOF would end the
  session, and never leaves a byte behind.
- Simulation: heater and fans are interlocked, the watchdog stays quiet while
  the tasks are scheduled, alarms and pauses end, and the GPIO test is alone
  with the registers.
- PCI: the device table is what the buses hold, BARs and vectors do not overlap,
  the test reaches the device behind its bridge, and passes on exactly one
  interrupt; a request is served.
- Profiler: the reader is alone, the chains hold the samples taken and no
  others, nothing of an earlier run shows, and reading ends.
- Command line: what is on the screen, what is offered and what a number selects
  agree; commands enabled are those of the menu; `back` leads out; what is
  offered is accepted; lines change what they name, or report it, and `show` shows
  the truth.

## 2. The modules

| module | models | abstract specification |
|---|---|---|
| `Fifo` | `fifo.c` | `ByteQueue` |
| `LogRing` | `log_dispatch`, `log_flash` | `LossyLog` |
| `EventLoop` | the loop without an RTOS and its handlers | |
| `CliTask` | the command line task under FreeRTOS | |
| `ThermalSim` | hardware task, control task, watchdog, commands, GPIO test | |
| `PciScan` | scan, sizing, allocation, and what drivers do with a device | a reference scan (`Visible`, in `ScanExact`) |
| `PciTask` | the PCI task, its MSI test, handler and commands | |
| `Rtos` | `CliTask` and `PciTask` composed: priorities, commands, interrupts | |
| `Profiler` | entry, exit, stop, start and statistics | |
| `Session` | menus, contexts, messages, tests | |
| `CommandTree` | tables, dispatch, completion of `set` and `show` | |
| `Settings` | log levels, plant configuration, reports | |
| `Shell` | `Session` and `Settings` composed: a line, a TAB | |

`MC*` modules give the constants their values, `*Proofs` modules hold the
theorems. `EventLoop` and `CliTask` do not repeat the FIFO: they instantiate
`ByteQueue`, which `FifoImplementsByteQueue` proves `Fifo` to implement.

**Fifo.** Producer and consumer each have a program counter; each load of the
other side's index, each access to the array and each store of an index is an
action. Acquire and release order on the indices makes interleaving an adequate
memory model: who sees an index sees the array accesses before it. The queue of
the refinement is the stretch of the array from `tail` to `head`.

**LogRing.** A ring of 4-byte words, the unit the code copies in; a record has
an even number of words, its tag in word 0. Every access to `head`, `tail`,
`dirty` and a tag is an action (`Dispatch`, `LoadHead`, `LookAtOldest`,
`DropOldest`, ... for a writer; `Flash` to `ClearDirty` for the reader); the copy of a
header and the copy of a text are one action each. Positions grow as in the
code and are reduced only to index. A word remembers which record wrote it,
which is how a property tells a whole record from a torn one. `Runs` is the
scheduler: a thread moves only while no thread of higher priority is inside the
logger, equal priorities are time-sliced (`configUSE_PREEMPTION`,
`configUSE_TIME_SLICING`). The reader has the lowest priority, as the command
line task has. `MayLog` limits what is logged while a call is in progress: while
one `log_dispatch` is under way at most a ring's worth (a writer asleep for a
lap is not defended against anywhere), and without `Overrun` what is logged
during a `log_flash` fits without a drop. `Stamps` says what the low byte of a
timestamp may look like, since two places read it as a tag. The mute flag of
`process_logs` only delays a flush and is left out. The reader is never a writer
in the runs: it logs between its flushes, when it is like any other task.

**EventLoop.** `event_notify` is a set of events; `at` is where main stands. The
handlers are atomic except that on the Cortex-M boards SysTick, which has the
lowest priority, may be interrupted between load and store of
`event_notify |= EVT_SYS_TICK` (`SysTick`, `SysTickStore`). Any handler ends the
halt. Input is unbuffered (`buffered_mode` false), so each byte sets its event. A
command line is one byte, "enter"; what it asks for, a PCI test, exit or
something else, is chosen when it is executed.

**CliTask.** The notification count matters only as zero or not, because both
waits clear it (`pdTRUE`). A timeout may come whenever no notification is there.

**ThermalSim.** Temperatures are levels between the thresholds; per tick the
temperature moves at most one level, in the direction of the balance of powers,
which is computed in the code's 16-bit arithmetic and divided by the thermal
mass with its integer division. `Dwell` is how many ticks a level can take. The
registers are one record (`gpio`): the pins that drive, the sensor, alarm bit,
latched interrupt, interrupt enable, and the watchdog. A whole tick is one
action because the hardware task has the highest priority; a whole regulation
(`Emergency`, `Cooldown`, `Normal`: the early returns of
`run_temperature_regulation`, each with the kick that follows) is one action
too. Ticks do come between a notification and its regulation, up to `Lag` of
them; a tick in the middle of the pin writes of one regulation would only see a
heater and fan combination that lasts for microseconds. Commands run only while
the control task waits, because the command line has the lowest priority; the
steps of the GPIO test and of the wait for `PAUSE_ACK` are separate actions,
since ticks come in between.

**PciScan.** `config` is the configuration space, one record for each function
present; the recursion of `do_pci_scan` is the variable `stack`. Each step of a
loop is an action: the next device, a function that is an endpoint, a bridge or
a hole, one BAR, one device to allocate. Addresses are scaled: 64 units stand
for the 32-bit space, a window granule is 4 units, and all arithmetic is modulo
`Wrap`. Sizing writes and restores a register, so only what it reads back counts
(`ReadsZero`, `Is64`). `ConfigDeviceResources`, `Mapped` and `FindById` are what a driver
does later; `WindowFor` is the programming of the bridge in front.

**PciTask.** `pending` and `bits` are the state and the value of the task
notification; the four calls that touch them (`LoopWait`, `StateClear`,
`Discard`, `WaitEnd`) clear what the FreeRTOS calls with those arguments clear.
An interrupt of a trigger is `own` until the next test begins and one of the
`late` ones from then on; it may come at any time. `WaitEnd` may come without a
notification: that is the timeout, or the resumption after a suspension.
`mine` and `strays` count what arrived while a test was running, its own interrupt
and late ones of earlier tests; they and `disturbed` are history, which only the
property reads. The hardware between the processor and the device is external:
every bridge in front of the device passes an access down if its command
register has Memory Space and its window holds the address (`PassesDown`), and the
interrupt up if it is a bus master (`MayWrite`). Nothing in the code writes the
command register of a bridge, so it is as firmware left it.

**Rtos.** The command line runs when the PCI task waits or is suspended
(`CliMayRun`), the UART always. A character completes a command, so that
commands come at the rate of characters.

**Profiler.** One action per atomic access of `__cyg_profile_func_enter` and
`_exit`, of `prof_stop`, `prof_start` and of the walk in `prof_get_stats`. Levels of
priority interrupt each other in last-in first-out order (`Runs`). A timestamp
is reduced to whose exit wrote it last. `restarted` records that the mark of a
full pool was erased.

**Session, CommandTree, Settings, Shell.** Handlers are operators on one record,
as the code calls them one after another during a line; a line or a TAB is one
action, since nothing else touches this state. Words are strings taken from small sets;
what a word is the beginning of, its number, its hash and its capitals (`Capital`) are
constants: the code has each name in two spellings, prints capitals, and fills its
tables of hashes, which do not tell the case, with them. A
handler that reads the registry where it is not, or words the line does not
have, makes the session `wild`. `stray` records that a hidden command, which the
library finds in every menu, was typed where no menu shows it.

## 3. The runs

| run | configuration | what it shows | size |
|---|---|---|---|
| `fifo` | 4 slots, 3 byte values | refinement of `ByteQueue`, no race, a FIFO seen non-empty answers a byte | every fill level at every wrap position |
| `log_fits` | 8 words, records of 4 and 6 words, two writers of equal priority, 5 records, timestamps that look like a seal | whole, once, exclusive words, refinement of `LossyLog`, calls end | 301 thousand states, 1 minute |
| `log_overrun` | a task and an interrupt handler that overrun the reader, 1 retry | types, kept records whole and none twice, `log_flash` returns | 649 thousand states, 1 minute |
| `log_preempt`, `log_wrap`, `log_dirty` | as above | violations, see section 5 | |
| `event_loop` | FIFO of 2, SysTick event every second tick, 3 bytes, 2 tests, both kinds of board | accounting of bytes and tests, and that they are served | 39 thousand states |
| `rtos` | 10 topologies, 3 devices, functions and BARs, 2 bridges, 2 vectors; FIFO of 2, 3 characters | the scan and the allocation, the MSI test and its verdict, the command line beside it | 20 thousand states, 20 seconds |
| `profiler` | two tracked functions and one that shares a slot, 3 levels, 2 samples, 5 calls | chains, pool, reader, end of the reading | 317 thousand states, 25 seconds |
| `thermal` | levels 0 to 6, power 4000, mass 400 (the defaults) | interlocks, watchdog, isolated test, alarms and pauses end | 74 thousand states |
| `shell` | 5 test blocks, 3 domains, 4 entities, 4 levels, 39 setting lines, every menu line | menus, completion, settings, reports | 82 thousand states, 1 minute |
| `shell_sim_set` | as above | violation, see section 5 | |

**Why the bounds are enough.** The ring of 8 words with records of 4 and 6 words
has every case the code distinguishes: a full ring, a record that must be dropped
for a small and for a large one, one drop and two drops, a header that wraps and
a text that wraps, and with 5 records positions more than three laps from the
start. Words hold no content but whose they are, so longer texts add nothing.
Two writers and the reader are one more than any pair that can race for one
word; `log_fits` has equal priorities because a writer that is preempted by a
higher one finishes the race before it goes on. A FIFO of 4 slots shows all
relations of two indices. The thermal levels are one per threshold of the
default configuration; the watchdog (150 ms) is 9 ticks of model time against a
sensor latency (50 ms, the slowest that can be configured) of 3, so the ratio is
the tightest the code allows. `FailPeriod` of 9 regulations stands for 1024 and
is longer than a cool-down; that is an assumption (section 6).

The topologies of `MCRtos` have each case of the scan once: holes, several
functions, a device behind one and behind two bridges, an unconfigured one, headers of another
type, bridges opened by firmware and one that nobody opened, a full device table, a full bridge table, capability lists that are too
long and that never end, I/O, 32-bit and 64-bit BARs, an upper register that is not zero,
memory up to the last byte of 32 bits
and more than there is, one vector less than asked for. Three characters are
a start, a request and one more request, a suspension or an exit, which is
enough for every order of two tests. Two samples in the profiler's pool fill it
and chain them, with five calls of three levels, so that a call of the middle is
interrupted and interrupts; the pool is read, restarted and filled again. In the
shell `MaxSettings` = 2 is one line that changes and one that meets the change;
they are typed in one plain and one test menu (`Places`), where nothing waits
(`Quiet`), because the only things settings and menus share are the first start
and the scripted test, which are among the menu lines; the menu lines
themselves are unbounded. `PageSize` 80 makes a report of four cells take more
than one page.

**Fairness.** Liveness is claimed only under what the scheduling gives. The
timer ticks for ever, and a handler that has begun ends. The loop (`MainStep`) has strong
fairness because a step of main is disabled while a handler is in its
load-store window, which lasts a few instructions. Under FreeRTOS preemptive
priorities let the lowest task run whenever the others wait, and they wait for
most of every millisecond; so the command line step of the simulation has strong
fairness. In `Rtos` some task or other runs (`Work`): weak fairness of the whole, not
of each task, because the kernel does not rest while one is ready; the timeouts of
the waits end them, the interrupts come or do not. In the profiler a call that
began goes on, and the reader when no call is in its way. A call of the logger that has begun is carried through, and
`process_logs` is called in every round. Nobody is obliged to type, to log, or to
issue a command. The MSI is assumed to come in `event_loop` only, whose test has
no timeout.

Deadlock is checked in `fifo` and `thermal`, where the system never stops. The other runs switch it off: main may return, the command
line task may delete itself, a session ends with `quit` or is wild, and when
`MaxLogs` records were logged or `MaxCalls` calls made, all is quiet.

**Mutants.** Each property of a passing run is paired with a plausible bug in
the code: an operator, marked "Mutant", that replaces the action or helper
after it and makes TLC report that property. `PROJECT.json` lists the pairs. They show that the properties look at the code
and not at the shape of the model: a compare-and-swap turned into a store, a
reload forgotten, a missing clear of a notification, an acknowledgement left
out, a menu that does not put its commands back, a limit left out.

## 4. The proofs

All proofs are for every value of the constants that satisfies the named
assumptions of the module (`SizeAssumption`, `BoundAssumption`,
`LevelAssumption`, `RegistryAssumption` and so on; TLC evaluates each of them in the runs).

- `FifoProofs`. `FifoInv` strengthens the types by: an unfinished push still has
  room, an unfinished pop still has its byte, and what each has copied so far is
  what the array holds. None of this follows from a look at one side, because
  the other moves meanwhile; it is inductive (`InvCorrect`) since each side moves only its own
  index, and only towards less conflict. From it: `RaceFree`,
  `ReadyPopFindsByte`, `TypeCorrect`, and, with lemmas on how the mapped queue
  changes (`PublishAppends`, `ReleaseTakesOldest`), the refinement
  `FifoImplementsByteQueue`. The size need not be a power of two.
- `EventLoopProofs`. `LoopInv` adds to the two accounts that main reads only
  what it has seen to be there, that a new test is requested only after the
  last request was taken, and that a SysTick handler interrupted in its
  load-store window has not missed a request, because requests come only from
  main. `NoTestLost` and `NoCharLost` follow.
- `CliTaskProofs`. `CliInv` adds that a notification present during
  `stdin_ready` was given for a byte that nobody has read since: the wait of the
  loop has cleared the older ones. This is why the second wait may answer true
  without a look at the FIFO. `ReadsOnlyBytes` follows.
- `LogRingProofs`. `TypesAlways` holds without any hypothesis: no record is
  counted that was not placed, however far writers drop records under the
  reader. `OutWholeOnce` and `WordsExclusive` are about the ring while what is
  logged beside a `log_flash` fits it (`~Overrun`, one of the two choices of
  the constant; with the other they are false, see finding 1). `LogInv` orders
  the records by their reservations: they lie behind each other up to `head`,
  `tail` is at the beginning of one, a call under way began at or behind `tail`
  and still fits beside all that was logged since (`CallInv`). So a word of the
  array that two positions share is never in use at both (`Apart`), a sealed
  record keeps all its words (`RingInv`), and what the reader holds stays the
  oldest record (`ReadInv`). What is reserved is counted as the cardinality of
  a set of words (`WordsFor`), to which one more call adds its size.

  `RingImplementsLossyLog` is the refinement of `LossyLog`, also under `~Overrun`. The
  queue is not followed word by word: what is pending are the records behind the first
  `Passed` ones, which tail has passed, and what is delivered the first `Freed` of those
  that came out. `QueueInv` adds to `LogInv` what the abstract log has to know: no word up
  to `head` is left out between records (`Covered`), so that the words of the pending
  records are as many as `head - tail` (`UsedIs`, by a bijection); a call that is
  about to drop has no room (`Pressed`); only the last that came out may still be in the
  ring (`FreedLast`); and what tail has passed came out or was counted as dropped
  (`Counted`). Then a reservation is `Place`, a successful drop `GiveUpOldest`,
  `Advance` is `Deliver`, and every other step a stutter.

  `KeptAlwaysWhole` is about writers that do drop records under the reader, where
  `LogInv` fails: the plain stores of `tail` at `log_infra.c:446` and `498` can move it
  back. `LapInv` hardly speaks of `tail`. A position is `Alive` until its word is reserved
  once more; a word of the ring is that of the last living position (`LapContent`,
  `LapOwner`), and a seal sits on the first word of a living record, or on a word
  that the call now holding it is about to overwrite (`LapSeal`). The reader runs
  only when no writer is inside, so at its steps every seal it sees
  is that of a complete record. What it knows across its steps (`Knows`) is that, if `tail` is
  where it left it and the seal is there, what it has read is the record that is
  there (`Complete`); a preempting writer keeps this, because between `tail` and a ring
  further no word is reserved again before `tail` moves on. What came out is freed or overwritten
  at its beginning (`Gone`), so it cannot come out again. Its hypothesis is that no
  timestamp looks like a seal, or `~Overrun`; with neither the property is false (section 5).
- `ThermalProofs`. `SimInv` adds to the interlock how the pause, the stop and the
  GPIO test exclude each other: an acknowledged pause keeps the hardware task
  out of its tick, a stop never comes in the middle of a regulation, and the
  test goes on only when both tasks rest. `Interlock` and `TestAlone` (an action
  property) follow. `WatchInv` relates the watchdog's timer to the sensor
  period, in the registers and in the copy a test restores; with it
  `WatchdogFed` says that the watchdog never bites if `Latency + Lag < Reload`,
  50 ms and a scheduling delay against 150 ms. `Fan2Cools` bounds what
  the 16-bit sum can be: up to a heater power of 5949 the temperature does not
  rise while Fan 2 runs. Above, from 5958 on, the sum leaves its range only
  while both fans run and Fan 1 is healthy. Whether a cooldown of such a heater,
  which is short, can last until Fan 1 has recovered from a failure is a
  question of seconds that these levels do not decide.
- `ProfilerProofs`. The types of calls depend on where they are: an index taken
  is in the pool (`TypesAlways`). `ReadAlone` adds that a call past its look at
  the counter belongs to a level above all that wait, so that the command line,
  which is the lowest, can read only when there is none. `MarkedInv` is about
  runs in which no interrupted call has erased the mark of a full pool. It says
  what a chain is while calls are appending to it: its links and those that
  calls are about to write (`Edge`, `Root`), a tail that leads nowhere, and that
  any set closed under these links holds all samples of the function
  (`Chained`). The last part replaces an induction over the length of the chain:
  a walk that ends has met a closed set. `ChainsAlwaysExact`, `PoolAlwaysClean`
  and `ExitsOwn` follow.
- `PciProofs`. `VerdictSound`: the invariant says where an undisturbed test
  stands (`Undisturbed`): before its trigger no interrupt of its own and the
  count still the copy, at the wait either nothing has come or exactly its own. For
  every test, disturbed or not, it bounds what `count[0]` has grown by what has
  arrived (`Counted`), so that a pass means one arrival (`OneArrived`).
  `ScanAlwaysExact`: `ScanInv` says of the recursive scan that buses grow
  with the depth of the stack, that what a frame has passed is in the tables unless
  a limit was met, and that nothing is in them that is not behind a bridge; the
  reference, buses as a least fixed point, is met from both sides.
  `BarsAlwaysApart`: `AllocInv` says that each BAR placed lies between the
  base and `free_mmio`, aligned, in the register as in the table, apart from all
  others, and that vectors are handed out once. `TestAlwaysReaches`:
  `ReachInv` keeps the command register and the bridge's window of a device from its
  validation to the verdict, and the command register of the bridge as firmware
  left it, which is why `TestReaches` excepts a bridge that is closed. They assume of the hardware (`TopologiesAssumption`)
  that no two bridges lead to one bus and that a 32-bit register does
  not ask for 4 GB, and are otherwise for every set of functions.
- `ShellProofs`. One lemma per handler says what it keeps, then a line with the
  redrawing after wrong lines and the scripted test; three invariants, for any
  registry. `SessionInv` keeps screen, offered names and registry together
  (`ScreenAlwaysTrue`). `MenuInv` adds that, while no hidden command was typed
  where no menu shows it, messages are spoken and the commands enabled are those of the
  menu (`MenuAlwaysTrue`). `DeepInv` says that the menu behind `back` is above the one
  on the screen, whatever was typed (`BackLeadsOut`). `SettingsInRange`: what
  `show config sim current` shows is in range, because explicit values are checked,
  the computed ones clamped (`ClampInRange`, `MatrixInRange`), and what was not
  set shows its default.

The proofs changed the models in four places, towards the code. The scan relied on
each bus being behind one bridge and on sizes a register can answer: both are now
assumptions (`TopologiesAssumption`). `free_mmio` leaves the 32 bits at
exactly 2^32 too. An access to a device behind several bridges is routed through all of
them, not through the nearest only, and through their command registers (`Routed`). The buses of the reference scan are the least fixed point, not those up
to a depth.

Only model-checked, and why:

- liveness (`FlashEnds`, `CallsEnd` and the like): out of the prover's reach;
- `OfferedIsAccepted`, `LinesDoWhatTheySay` and `ShownTrue` beyond the ranges:
  folds over pages and lines, and recursive functions over words.

## 5. What the models found

1. `log_preempt`: the logger is documented as interrupt-safe. A reader preempted
   between its check of `tail` (`log_infra.c:469`) and its output prints a torn
   record when the preempting writers drop the record and seal another at the
   same place; the second look at the tag (483) cannot tell. `log_overrun` shows
   what does hold then.
2. `log_wrap`: for a record that starts in the last 8 bytes of the ring the
   first four bytes of the text are read behind the array (`log_infra.c:477`),
   while the writer stores them with the wrap-around (394).
3. `log_dirty`: `log_flash` clears `dirty` (504) without another look at `head`;
   a record sealed since its loop ended stays unprinted until the next log.
4. `shell_sim_set`: the loop over the 16-bit fields of `set sim phy` takes a fifth
   one (`cli_system.c:1396`), which is the ambient temperature, and sets a bit that
   no range check clears: `set sim phy 1 2 3 5 50` reports all five values out
   of range and answers "Sim config set".

The traces of the first three have between 25 and 49 states, that of the last
three; run the configuration to see one.

Besides, met while modelling. The models behave as the code does in each of these
cases, and the properties are stated so that they exclude just them.

- Log ring: a timestamp whose low byte is 0xAC is taken for a tag at
  `log_infra.c:344` and `441`; with overrunning writers that breaks
  `KeptWholeOnce`, so `LogOverrun.cfg` leaves such timestamps out.
- Simulation: passive cooling is rounded to zero (`freertos_sim.c:697-701`). A
  GPIO test cancels a pause the user had asked for. Before the first start
  `show config sim` shows a conductance of 8192, and the start computes 12000. An
  explicit mass or conductance is overwritten when later only ramp or power is
  set. The limit of the sensor latency for short ramps is not applied at start.
- PCI: `pcie_register_msi_vector` refuses a device only if vendor and device both
  differ (`x86-virt/pci.c:118`), so a device of which one matches takes a vector.
  A BAR that reads zero before sizing ends the sizing of all that follow. A BAR
  of 4 GB is capped to 0xFFFFFFFF, which is no mask. `free_mmio` is not checked
  against the end of memory. The upper register of a 64-bit BAR is never
  written. The window of a bridge is set to one device behind it, and only of the
  nearest bridge; the command register of a bridge is never written. The branch of
  `pci_alloc` that would (`pci_rc.c:285-290`) is dead, because its table holds
  endpoints only, and `pci_utils.c:223-277` enables the device alone: behind a
  bridge that firmware left closed the test cannot reach its device. At the limit of a table the scan leaves one bus, and goes on above.
- MSI test: a request that arrives during the wait ends it and is taken for the
  interrupt's notification, so that the test fails and the request is gone. A suspension
  during the wait is reported as a timeout. A late interrupt of an earlier test
  is counted for the next one, which passes on it if its own does not come in time.
- Profiler: when a call that took the last index is interrupted, the mark it
  stores can be erased by the counters of others, profiling runs on over the
  chains, and a chain may become a cycle on which the statistics hang
  (`restarted`). A nested call takes the exit of the outer one. Reading without a
  sample leaves the profiler stopped until the next reading.
- Menus: the completion names of a test menu stay in the menus that `system`,
  `sim` and `pci` open. Hidden commands answer in every menu: test numbers
  outside the test menus read the registry where there is none, and `dev` typed
  in the PCI menu leaves the PCI commands enabled behind `back`. The scripted test of the
  command line replaces the user's log levels by its own, and its result appears
  with a later line.
- `set` and `show`: `show domains`, `show entities` and `show levels` print capitals
  (`cli_system.c:513`, `526`, `537`), and the tables behind `set log` are filled with
  capitals (the comment at 83 has "CRITICAL" for an example), but `set_log_validate`
  compares with small letters (606, 611, 616): a name copied from the screen is refused.
  The entity "none" is offered and accepted by the check, and
  then unknown, because its name in the table is empty. `set sim` offers log
  names, and with a word that is neither phy nor temp reaches the handler
  (`cli_system.c:1361`), which reads a word that is not there. `set sim temp`
  takes its action from behind the table, so that temperatures cannot be set. A
  ramp of 256 or more is ignored without a word, as is a mass, conductance or power
  of 0. Abbreviations that completion
  accepts inside a line are refused when the line is run.

## 6. What is not modelled

- Formatting and colours, the filter macros of the logger, and the statistics
  that `show stats` prints: sequential text.
- The line editor of `cli_mini.c`, an alternative to the embedded CLI library
  that edits one line in one context.
- The hosted builds: the POSIX signal path of the simulation, `usleep` in the
  loop.
- Start-up code, interrupt controllers, timestamp counters: register programming
  without a protocol of its own. The accessors and the dump of the PCI database.
- Positions of the ring beyond 2^32.
- Temperature thresholds set by the user: the code has handlers for them that no
  command line reaches. Heater powers changed by `set sim` while the simulation runs: the
  `thermal` run has one heater from start to end. Heater and Fan 2 failures (nothing in the code sets
  their flags), and configurations in which gains and losses over a failure
  period of Fan 1 cancel, for which an alarm need not end.
- The command line beside the log ring and the simulation in one composition:
  their interfaces are the choices of commands in `ThermalSim` and the reader in
  `LogRing`; a product of all would only repeat them.
- Third-party code (`third_party/lib/embedded-cli`, FreeRTOS itself) beyond what
  the code of the repository relies on.

## 7. Order of work and what is left

Done, in this order: `Fifo` with its refinement and proofs, `LogRing` with its
refinement, `EventLoop`, `CliTask`, `ThermalSim` with their proofs; `PciScan`,
`PciTask` and their composition with the command line in `Rtos`; `Profiler`;
`Session`, `CommandTree`, `Settings` and `Shell`; then the proofs about each of
these and about the log ring.

Left, most useful first:

1. The rest of `ShownTrue`: the pages of a report.
2. The timestamp read across a counter overflow.
3. The line editor of `cli_mini.c`.
