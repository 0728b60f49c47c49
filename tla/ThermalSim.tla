----------------------------- MODULE ThermalSim -----------------------------
(***************************************************************************)
(* The thermal simulation of port/freertos_sim.c: the hardware task, which *)
(* advances the physics every millisecond, raises the alarm and counts the *)
(* watchdog down; the control task, which regulates the temperature through*)
(* the GPIO registers when the hardware notifies it; and the commands of   *)
(* the command line that start, stop, pause and resume them and run the    *)
(* GPIO test.  The drivers of gpio.c they call are part of the steps.      *)
(*                                                                         *)
(* The hardware task has the highest priority and the command line the     *)
(* lowest, so a hardware step is atomic and a command runs only while the  *)
(* control task waits.  Temperatures are levels: level n is the band       *)
(* between two neighbouring thresholds, and the temperature moves at most  *)
(* one level per tick, in the direction of the energy balance, which is    *)
(* computed in the code's 16-bit arithmetic.  The heater and Fan 2 never   *)
(* fail (nothing sets their failure flags).                                *)
(***************************************************************************)
EXTENDS Integers

CONSTANTS
    Top,               \* levels 0 (ambient) .. Top (the sensor's limit)
    Cool, Low, Target, FanOn, Alarm, Critical,   \* the level at which each threshold is reached
    Power,             \* heater_power, 1000 .. 8000
    Mass,              \* thermal_mass, 200 .. 1000
    Latency,           \* sensor_latency_ms (5 .. 50), in ticks
    Reload,            \* the watchdog's timeout (150), in ticks
    FailPeriod,        \* regulations between two changes of Fan 1's failure (1024)
    Lag,               \* bound: ticks until the control task has run
    Dwell              \* bound: ticks the temperature stays at a level with a balance

ASSUME LevelAssumption ==
    /\ Top \in Nat
    /\ {Cool, Low, Target, FanOn, Alarm, Critical} \subseteq 1 .. Top
    /\ Cool <= Low /\ Low < Target /\ Target <= FanOn /\ FanOn <= Alarm /\ Cool <= Critical
ASSUME TimeAssumption ==
    /\ Power \in Nat /\ 1000 <= Power /\ Power <= 8000
    /\ Mass \in Nat /\ 200 <= Mass /\ Mass <= 1000
    /\ Latency \in Nat \ {0} /\ Reload \in Nat /\ FailPeriod \in Nat \ {0}
    /\ Lag \in Nat /\ Dwell \in Nat

VARIABLES
    suspended,     \* SIM_SUSPENDED
    system_mode,   \* "NORMAL", "PAUSE" or "PAUSE_ACK"
    hw,            \* where the hardware task stands: "boot", "tick" or "paused"
    ctrl,          \* where the control task stands: "boot", "wait" or "regulate"
    cli,           \* where the command line stands: at its prompt, waiting in sim_pause
                   \* ("pausing", "to test"), or in the GPIO test ("save", "testing", "restore")
    notified,      \* the control task's notification
    late,          \* ticks since the control task was notified
    gpio,          \* the registers: out, in, alarm, sts, irq enable, wdt enable, timer
    backup,        \* the registers as the GPIO test saved them
    temp, still,   \* the temperature's level, and the ticks it has been there
    ms_counter, time_window,
    fan1_failed,
    reg,           \* the control status: critical, cooldown and heating
    raw            \* the sensor value the control task is working on

physics == <<temp, still, fan1_failed, ms_counter>>
tasks == <<suspended, system_mode, hw, ctrl, cli, notified, late>>
vars == <<tasks, gpio, backup, physics, time_window, reg, raw>>

Idle == [critical |-> FALSE, cooldown |-> FALSE, heating |-> FALSE]
Regs == [out : SUBSET {"heater", "fan1", "fan2"}, in : 0 .. Top, alarm : BOOLEAN,
         sts : BOOLEAN, irq : BOOLEAN, wdt : BOOLEAN, timer : 0 .. Reload]
NoRegs == [out |-> {}, in |-> 0, alarm |-> FALSE, sts |-> FALSE, irq |-> FALSE,
           wdt |-> FALSE, timer |-> 0]

\* All tasks have started and suspended themselves.
Init == /\ suspended = TRUE /\ system_mode = "NORMAL"
        /\ hw = "boot" /\ ctrl = "boot" /\ cli = "prompt"
        /\ notified = FALSE /\ late = 0
        /\ gpio = NoRegs /\ backup = NoRegs
        /\ temp = 0 /\ still = 0 /\ ms_counter = 0 /\ time_window = 0
        /\ fan1_failed = FALSE
        /\ reg = Idle /\ raw = 0

-----------------------------------------------------------------------------
(* The drivers of gpio.c: what they make of the registers                  *)

\* gpio_set_out_pin and gpio_clear_out_pin
Driven(pins, on, off) == (pins \cup on) \ off

\* gpio_is_alarm: the alarm's pin, or its latched status.
AlarmSeen(regs) == regs.alarm \/ regs.sts

\* gpio_clear_interrupt and gpio_configure_interrupt, of the alarm's pin
InterruptCleared(regs) == [regs EXCEPT !.sts = FALSE]
InterruptEnabled(regs) == [regs EXCEPT !.irq = TRUE]

\* gpio_init_controller, as far as nothing else sets it
Reset(regs) == [regs EXCEPT !.sts = FALSE, !.irq = FALSE, !.wdt = FALSE, !.timer = 0]

\* gpio_wdt_setup
WatchdogSet(regs) == [regs EXCEPT !.wdt = TRUE, !.timer = Reload]

-----------------------------------------------------------------------------
(* The hardware task                                                       *)

\* Assignment to an int16_t.
Int16(x) == ((x + 32768) % 65536) - 32768

\* Mutant: Fan 2 looks at Fan 1's failure.
CoolingPowerWrongFan(passive, failed) ==
    LET fan1 == IF "fan1" \in gpio.out /\ ~failed THEN (Power * 3) \div 2 ELSE 0
        fan2 == IF "fan2" \in gpio.out /\ ~failed THEN Power * 4 ELSE 0
    IN  Int16(Int16(fan1 + fan2) + passive)

\* Fan 1 is 1.5 times and Fan 2 is 4 times the heater; passive cooling comes on top.
CoolingPower(passive, failed) ==
    LET fan1 == IF "fan1" \in gpio.out /\ ~failed THEN (Power * 3) \div 2 ELSE 0
        fan2 == IF "fan2" \in gpio.out THEN Power * 4 ELSE 0
    IN  Int16(Int16(fan1 + fan2) + passive)

Balance(passive, failed) ==
    LET heat == IF "heater" \in gpio.out \/ failed THEN Power ELSE 0
    IN  Int16(heat - CoolingPower(passive, failed))

\* A balance below the thermal mass is no change: the division drops the fraction.
Direction(passive, failed) ==
    LET b == Balance(passive, failed)
    IN  IF b >= Mass /\ temp < Top THEN 1 ELSE IF b <= -Mass /\ temp > 0 THEN -1 ELSE 0

\* One tick of the physics: Fan 1's failure, then the temperature.  Passive cooling is
\* between 0 and 225000 / MIN_COND = 45.
Physics(ms) ==
    /\ fan1_failed' = (fan1_failed # (ms = Latency /\ time_window = FailPeriod))
    /\ \E passive \in {0, 45} :
          LET d == Direction(passive, fan1_failed')
          IN  \/ /\ d = 0 \/ still < Dwell
                 /\ temp' = temp
                 /\ still' = IF d = 0 THEN 0 ELSE still + 1
              \/ /\ d # 0
                 /\ temp' = temp + d
                 /\ still' = 0

\* Mutant: the acknowledgement is forgotten.
LoopTopNoAck == /\ hw' = IF system_mode = "NORMAL" THEN "tick" ELSE "paused"
                /\ UNCHANGED system_mode

\* Where the hardware task goes at the top of its loop.
LoopTop == /\ hw' = IF system_mode = "NORMAL" THEN "tick" ELSE "paused"
           /\ system_mode' = IF system_mode = "PAUSE" THEN "PAUSE_ACK" ELSE system_mode

\* The alarm is latched, and signalled, once; the watchdog counts down and falls back
\* to Fan 1 when nobody kicks it.
HwTick ==
    /\ hw = "tick" /\ ~suspended
    /\ ctrl = "regulate" \/ notified => late < Lag
    /\ LET ms == ms_counter + 1
           hot == temp' >= Alarm
           raise == hot /\ gpio.irq /\ ~gpio.sts
           sense == ~raise /\ ms >= Latency
           bite == gpio.wdt /\ gpio.timer = 0
       IN  /\ Physics(ms)
           /\ ms_counter' = IF sense \/ (raise /\ ms > Latency \div 2) THEN 0 ELSE ms
           /\ gpio' = [gpio EXCEPT !.in = temp',
                                   !.alarm = hot /\ (raise \/ @),
                                   !.sts = @ \/ raise,
                                   !.timer = IF gpio.wdt /\ @ > 0 THEN @ - 1 ELSE @,
                                   !.out = IF bite THEN {"fan1"} ELSE @]
           /\ notified' = (notified \/ raise \/ sense)
           /\ late' = IF ctrl = "regulate" \/ notified THEN late + 1 ELSE 0
    /\ LoopTop
    /\ UNCHANGED <<suspended, ctrl, cli, backup, time_window, reg, raw>>

\* The end of the 100 ms delay of a pause.
HwPaused ==
    /\ hw = "paused" /\ ~suspended
    /\ LoopTop
    /\ UNCHANGED <<suspended, ctrl, cli, notified, late, gpio, backup, physics, time_window,
                   reg, raw>>

-----------------------------------------------------------------------------
(* The control task                                                        *)

\* The notification is taken and the sensor is read.
Sample ==
    /\ ctrl = "wait" /\ notified /\ ~suspended
    /\ notified' = FALSE
    /\ ctrl' = "regulate"
    /\ raw' = gpio.in
    /\ time_window' = IF time_window = FailPeriod THEN 1 ELSE time_window + 1
    /\ UNCHANGED <<suspended, system_mode, hw, cli, late, gpio, backup, physics, reg>>

IsCritical == raw >= Critical \/ reg.critical
IsAlarm == AlarmSeen(gpio) \/ reg.cooldown

\* Mutant: the early return of the critical state skips the kick.
KickedUnlessCritical(regs) ==
    IF regs.wdt /\ ~IsCritical THEN [regs EXCEPT !.timer = Reload] ELSE regs

\* Every regulation ends with gpio_wdt_kick.
Kicked(regs) == IF regs.wdt THEN [regs EXCEPT !.timer = Reload] ELSE regs
Done(regs, status) ==
    /\ gpio' = Kicked(regs)
    /\ reg' = status
    /\ ctrl' = "wait" /\ late' = 0 /\ raw' = 0
    /\ UNCHANGED <<suspended, system_mode, hw, cli, notified, backup, physics, time_window>>

\* Mutant: the heater is left on.
EmergencyHeaterOn ==
    /\ ctrl = "regulate" /\ IsCritical /\ raw >= Cool
    /\ Done([gpio EXCEPT !.out = IF reg.critical THEN @ ELSE @ \cup {"fan2"}],
            [reg EXCEPT !.critical = TRUE])

\* Critical and not yet cool: Fan 2, no heater.
Emergency ==
    /\ ctrl = "regulate" /\ IsCritical /\ raw >= Cool
    /\ Done([gpio EXCEPT !.out = IF reg.critical THEN @ ELSE Driven(@, {"fan2"}, {"heater"})],
            [reg EXCEPT !.critical = TRUE])

\* The pins once the critical state is over.
Out == IF IsCritical THEN Driven(gpio.out, {}, {"fan2"}) ELSE gpio.out

\* Alarm and not yet cool: Fan 1, no heater.
Cooldown ==
    /\ ctrl = "regulate" /\ (IsCritical => raw < Cool) /\ IsAlarm /\ raw >= Cool
    /\ Done([gpio EXCEPT !.out = Driven(Out, IF fan1_failed THEN {} ELSE {"fan1"}, {"heater"})],
            [reg EXCEPT !.critical = FALSE, !.cooldown = TRUE])

\* The heater has a hysteresis of its own, and excludes Fan 1.
Heat == raw < Low \/ (raw < Target /\ reg.heating)
Pins == IF Heat THEN Driven(Out, {"heater"}, {"fan1"})
        ELSE IF raw >= FanOn /\ ~fan1_failed THEN Driven(Out, {"fan1"}, {"heater"})
        ELSE Driven(Out, {}, {"heater", "fan1"})

\* Mutant: the alarm is not acknowledged.
NormalNoAck ==
    /\ ctrl = "regulate" /\ (IsCritical => raw < Cool) /\ (IsAlarm => raw < Cool)
    /\ Done([gpio EXCEPT !.out = Pins],
            [critical |-> FALSE, cooldown |-> FALSE, heating |-> Heat])

\* Normal regulation, after a cooldown that ends here too: the alarm is acknowledged.
Normal ==
    /\ ctrl = "regulate" /\ (IsCritical => raw < Cool) /\ (IsAlarm => raw < Cool)
    /\ Done([gpio EXCEPT !.sts = @ /\ ~IsAlarm, !.out = Pins],
            [critical |-> FALSE, cooldown |-> FALSE, heating |-> Heat])

Regulate == Emergency \/ Cooldown \/ Normal

-----------------------------------------------------------------------------
(* The command line; it runs only while the control task waits.            *)

Prompt == cli = "prompt" /\ ctrl # "regulate" /\ (notified => suspended)
Initialised == WatchdogSet(InterruptCleared(InterruptEnabled(Reset(gpio))))

\* sim_start; the first time both tasks initialise.
SimStart ==
    /\ Prompt /\ suspended
    /\ suspended' = FALSE
    /\ IF ctrl = "boot"
       THEN ctrl' = "wait" /\ gpio' = Initialised /\ LoopTop
       ELSE UNCHANGED <<ctrl, gpio, hw, system_mode>>
    /\ UNCHANGED <<cli, notified, late, backup, physics, time_window, reg, raw>>

\* reset_sim_state: ambient temperature, no failure, no regulation.
ResetSimState ==
    /\ temp' = 0 /\ still' = 0 /\ fan1_failed' = FALSE
    /\ time_window' = 0 /\ reg' = Idle

SimSuspend ==
    /\ Prompt /\ ~suspended
    /\ suspended' = TRUE
    /\ ResetSimState
    /\ UNCHANGED <<system_mode, hw, ctrl, cli, notified, late, gpio, backup, ms_counter, raw>>

\* sim_pause, as a command and from the GPIO test.
SimPause ==
    /\ Prompt
    /\ \E next \in {"pausing", "to test"} :
          IF suspended
          THEN /\ cli' = IF next = "pausing" THEN "prompt" ELSE "save"
               /\ UNCHANGED system_mode
          ELSE cli' = next /\ system_mode' = "PAUSE"
    /\ UNCHANGED <<suspended, hw, ctrl, notified, late, gpio, backup, physics, time_window,
                   reg, raw>>

\* Mutant: the pause is not waited for.
PausedNoWait ==
    /\ cli \in {"pausing", "to test"} /\ ctrl = "wait" /\ ~notified
    /\ cli' = IF cli = "pausing" THEN "prompt" ELSE "save"
    /\ UNCHANGED <<suspended, system_mode, hw, ctrl, notified, late, gpio, backup, physics,
                   time_window, reg, raw>>

\* The wait for the acknowledgement ends.
Paused ==
    /\ cli \in {"pausing", "to test"} /\ ctrl = "wait" /\ ~notified
    /\ system_mode = "PAUSE_ACK"
    /\ cli' = IF cli = "pausing" THEN "prompt" ELSE "save"
    /\ UNCHANGED <<suspended, system_mode, hw, ctrl, notified, late, gpio, backup, physics,
                   time_window, reg, raw>>

\* test_gpio_init: the registers are saved,
TestSave ==
    /\ cli = "save" /\ ctrl # "regulate" /\ (notified => suspended)
    /\ backup' = gpio
    /\ cli' = "testing"
    /\ UNCHANGED <<suspended, system_mode, hw, ctrl, notified, late, gpio, physics, time_window,
                   reg, raw>>

\* reset by gpio_init_controller,
TestReset ==
    /\ cli = "testing" /\ ctrl # "regulate" /\ (notified => suspended)
    /\ gpio' = Reset(gpio)
    /\ cli' = "restore"
    /\ UNCHANGED <<suspended, system_mode, hw, ctrl, notified, late, backup, physics,
                   time_window, reg, raw>>

\* and restored; then sim_resume.
TestRestore ==
    /\ cli = "restore" /\ ctrl # "regulate" /\ (notified => suspended)
    /\ gpio' = backup /\ backup' = NoRegs
    /\ cli' = "prompt"
    /\ system_mode' = IF system_mode = "PAUSE_ACK" THEN "NORMAL" ELSE system_mode
    /\ UNCHANGED <<suspended, hw, ctrl, notified, late, physics, time_window, reg, raw>>

SimResume ==
    /\ Prompt /\ system_mode = "PAUSE_ACK"
    /\ system_mode' = "NORMAL"
    /\ UNCHANGED <<suspended, hw, ctrl, cli, notified, late, gpio, backup, physics, time_window,
                   reg, raw>>

-----------------------------------------------------------------------------
Command == SimStart \/ SimSuspend \/ SimPause \/ SimResume
CliStep == Paused \/ TestSave \/ TestReset \/ TestRestore
HwStep == HwTick \/ HwPaused
CtrlStep == Sample \/ Regulate
Next == HwStep \/ CtrlStep \/ CliStep \/ Command

(***************************************************************************)
(* The scheduler runs every task that is ready, also the lowest: the tasks *)
(* above it work for a fraction of each tick and then wait.  No command    *)
(* has to be typed.                                                        *)
(***************************************************************************)
Fairness == WF_vars(HwStep) /\ WF_vars(CtrlStep) /\ SF_vars(CliStep)

Spec == Init /\ [][Next]_vars
FairSpec == Spec /\ Fairness

-----------------------------------------------------------------------------
(***************************************************************************)
(* The types; the temperature stays within the sensor's limits and every   *)
(* timer value is one the registers can hold.                              *)
(***************************************************************************)
TaskTypes ==
    /\ suspended \in BOOLEAN
    /\ system_mode \in {"NORMAL", "PAUSE", "PAUSE_ACK"}
    /\ hw \in {"boot", "tick", "paused"} /\ ctrl \in {"boot", "wait", "regulate"}
    /\ cli \in {"prompt", "pausing", "to test", "save", "testing", "restore"}
    /\ notified \in BOOLEAN /\ late \in Nat

PlantTypes ==
    /\ gpio \in Regs /\ backup \in Regs
    /\ temp \in 0 .. Top /\ raw \in 0 .. Top /\ still \in Nat
    /\ ms_counter \in Nat /\ time_window \in 0 .. FailPeriod /\ fan1_failed \in BOOLEAN
    /\ reg \in [critical : BOOLEAN, cooldown : BOOLEAN, heating : BOOLEAN]

TypeOK == TaskTypes /\ PlantTypes

(***************************************************************************)
(* Between two regulations the heater is off in the critical and in the    *)
(* cooldown state, and it is never on together with Fan 1.                 *)
(***************************************************************************)
HeaterSafe == "heater" \in gpio.out => ~reg.critical /\ ~reg.cooldown /\ "fan1" \notin gpio.out

(***************************************************************************)
(* The watchdog never bites while the tasks are scheduled: the alarm's     *)
(* delay of the next sensor update, a pause, a stop and the GPIO test all  *)
(* leave it time for the next kick.                                        *)
(***************************************************************************)
WatchdogQuiet == gpio.wdt /\ hw = "tick" => gpio.timer > 0

(***************************************************************************)
(* While the GPIO test has the registers saved nobody else writes them, so *)
(* restoring the copy loses nothing.                                       *)
(***************************************************************************)
TestIsolated ==
    [][gpio' # gpio => TestReset \/ TestRestore \/ cli \notin {"testing", "restore"}]_vars

(***************************************************************************)
(* The inductive form of HeaterSafe and TestIsolated: an acknowledged      *)
(* pause keeps the hardware task out of its tick, a stop never comes in    *)
(* the middle of a regulation, the GPIO test goes on only when both tasks  *)
(* rest, and its copy has the outputs of the pins.                         *)
(***************************************************************************)
SimInv ==
    /\ TypeOK /\ HeaterSafe
    /\ system_mode = "PAUSE_ACK" => hw = "paused"
    /\ suspended => ctrl # "regulate"
    /\ cli \in {"save", "testing", "restore"} =>
          suspended \/ (system_mode = "PAUSE_ACK" /\ ctrl = "wait" /\ ~notified)
    /\ cli \in {"testing", "restore"} => backup.out = gpio.out

(***************************************************************************)
(* With Fan 2 running the temperature does not rise.                       *)
(***************************************************************************)
EmergencyCools == [][HwTick /\ "fan2" \in gpio.out => temp' <= temp]_vars

(***************************************************************************)
(* A latched alarm is acknowledged in the end, unless the simulation is    *)
(* stopped or paused: whatever Fan 1 does, the temperature gets below the  *)
(* cooldown threshold.                                                     *)
(***************************************************************************)
AlarmEnds == gpio.sts ~> ~gpio.sts \/ suspended \/ system_mode # "NORMAL"

(***************************************************************************)
(* sim_pause returns.                                                      *)
(***************************************************************************)
PauseReturns == cli \in {"pausing", "to test"} ~> cli \notin {"pausing", "to test"}
=============================================================================
