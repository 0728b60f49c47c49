---------------------------- MODULE ThermalProofs ---------------------------
(***************************************************************************)
(* ThermalSim proved for every configuration of thresholds, heater,        *)
(* latency and watchdog: the types, the heater's interlock, and the        *)
(* isolation of the GPIO test.                                             *)
(***************************************************************************)
EXTENDS ThermalSim, TLAPS

(***************************************************************************)
(* The temperature stays within the limits of the sensor, whatever the     *)
(* 16-bit arithmetic of the balance gives.                                 *)
(***************************************************************************)
LEMMA StaysInRange ==
    ASSUME temp \in 0 .. Top, still \in Nat, NEW ms \in Nat, Physics(ms)
    PROVE  temp' \in 0 .. Top /\ still' \in Nat /\ fan1_failed' \in BOOLEAN
  <1>1. PICK passive \in {0, 45} :
           LET d == Direction(passive, fan1_failed')
           IN  \/ (d = 0 \/ still < Dwell) /\ temp' = temp
                  /\ still' = (IF d = 0 THEN 0 ELSE still + 1)
               \/ d # 0 /\ temp' = temp + d /\ still' = 0
    BY DEF Physics
  <1> DEFINE d == Direction(passive, fan1_failed')
  <1>2. d \in {-1, 0, 1} /\ (d = 1 => temp < Top) /\ (d = -1 => temp > 0)
    BY DEF Direction
  <1>3. temp + d \in 0 .. Top
    BY <1>2, LevelAssumption
  <1>4. temp' \in 0 .. Top /\ still' \in Nat
    BY <1>1, <1>3
  <1>5. fan1_failed' \in BOOLEAN
    BY DEF Physics
  <1> QED BY <1>4, <1>5

(***************************************************************************)
(* The kick of the watchdog leaves the pins alone.                         *)
(***************************************************************************)
LEMMA KickedType ==
    ASSUME NEW regs \in Regs
    PROVE  Kicked(regs) \in Regs /\ Kicked(regs).out = regs.out
  BY TimeAssumption DEF Kicked, Regs

(***************************************************************************)
(* A regulation that leaves well-typed registers, and the heater off in    *)
(* the states that forbid it, preserves the inductive invariant.           *)
(***************************************************************************)
LEMMA DoneInv ==
    ASSUME SimInv, ctrl = "regulate", NEW regs \in Regs,
           NEW status \in [critical : BOOLEAN, cooldown : BOOLEAN, heating : BOOLEAN],
           Done(regs, status),
           "heater" \in regs.out => ~status.critical /\ ~status.cooldown /\ "fan1" \notin regs.out
    PROVE  SimInv'
  <1>1. gpio' \in Regs /\ gpio'.out = regs.out /\ reg' = status
    BY KickedType DEF Done
  <1>2. ctrl' = "wait" /\ late' = 0 /\ raw' = 0 /\ 0 \in 0 .. Top
    BY LevelAssumption DEF Done
  <1>3. UNCHANGED <<suspended, system_mode, hw, cli, notified, backup, temp, still,
                    fan1_failed, ms_counter, time_window>>
    BY DEF Done, physics
  <1>4. 0 \in Nat
    OBVIOUS
  <1>5. TypeOK'
    <2>1. TaskTypes'
      BY <1>1, <1>2, <1>3, <1>4, Zenon DEF SimInv, TypeOK, TaskTypes, PlantTypes
    <2>2. PlantTypes'
      BY <1>1, <1>2, <1>3, <1>4, Zenon DEF SimInv, TypeOK, TaskTypes, PlantTypes
    <2> QED BY <2>1, <2>2 DEF TypeOK
  <1>6. HeaterSafe'
    BY <1>1 DEF HeaterSafe
  <1>7. cli \notin {"save", "testing", "restore"}
    BY DEF SimInv
  <1> QED BY <1>2, <1>3, <1>5, <1>6, <1>7, Zenon DEF SimInv
(***************************************************************************)
(* The initial state satisfies the inductive invariant.                    *)
(***************************************************************************)
LEMMA InitInv == Init => SimInv
  <1> SUFFICES ASSUME Init PROVE SimInv
    OBVIOUS
  <1>1. NoRegs \in Regs /\ NoRegs.out = {}
    BY LevelAssumption, TimeAssumption DEF NoRegs, Regs
  <1>2. 0 \in 0 .. Top /\ 0 \in 0 .. FailPeriod /\ 0 \in Nat
    BY LevelAssumption, TimeAssumption
  <1>3. Idle \in [critical : BOOLEAN, cooldown : BOOLEAN, heating : BOOLEAN]
    BY DEF Idle
  <1>4. TypeOK
    <2>1. TaskTypes
      BY <1>1, <1>2, <1>3, Zenon DEF Init, TypeOK, TaskTypes, PlantTypes
    <2>2. PlantTypes
      BY <1>1, <1>2, <1>3, Zenon DEF Init, TypeOK, TaskTypes, PlantTypes
    <2> QED BY <2>1, <2>2 DEF TypeOK
  <1> QED BY <1>1, <1>4 DEF Init, SimInv, HeaterSafe

(***************************************************************************)
(* The registers after a tick of the hardware.                             *)
(***************************************************************************)
LEMMA TickRegs ==
    ASSUME SimInv, HwTick
    PROVE  /\ gpio' \in Regs /\ gpio'.out \in {gpio.out, {"fan1"}}
           /\ temp' \in 0 .. Top /\ still' \in Nat /\ fan1_failed' \in BOOLEAN
           /\ ms_counter' \in Nat /\ late' \in Nat /\ notified' \in BOOLEAN
  <1>0. /\ gpio \in Regs /\ temp \in 0 .. Top /\ still \in Nat
        /\ ms_counter \in Nat /\ late \in Nat /\ notified \in BOOLEAN
    BY Zenon DEF SimInv, TypeOK, TaskTypes, PlantTypes
  <1>1. Physics(ms_counter + 1)
    BY Zenon DEF HwTick
  <1>t. ms_counter + 1 \in Nat /\ late + 1 \in Nat /\ 0 \in Nat
    BY <1>0
  <1>2. temp' \in 0 .. Top /\ still' \in Nat /\ fan1_failed' \in BOOLEAN
    BY <1>0, <1>1, <1>t, StaysInRange
  <1>3. PICK a \in BOOLEAN, t \in BOOLEAN, n \in 0 .. Reload, o \in {gpio.out, {"fan1"}} :
           gpio' = [gpio EXCEPT !.in = temp', !.alarm = a, !.sts = t, !.timer = n, !.out = o]
    <2> DEFINE hot == temp' >= Alarm
               raise == hot /\ gpio.irq /\ ~gpio.sts
               timer == IF gpio.wdt /\ gpio.timer > 0 THEN gpio.timer - 1 ELSE gpio.timer
               out == IF gpio.wdt /\ gpio.timer = 0 THEN {"fan1"} ELSE gpio.out
    <2>1. (hot /\ (raise \/ gpio.alarm)) \in BOOLEAN /\ (gpio.sts \/ raise) \in BOOLEAN
      OBVIOUS
    <2>t. gpio.timer \in 0 .. Reload
      BY <1>0 DEF Regs
    <2>2. timer \in 0 .. Reload /\ out \in {gpio.out, {"fan1"}}
      BY <2>t, TimeAssumption
    <2> QED BY <2>1, <2>2, Zenon DEF HwTick
  <1>4. gpio' \in Regs /\ gpio'.out \in {gpio.out, {"fan1"}}
    BY <1>0, <1>2, <1>3 DEF Regs
  <1>5. ms_counter' \in Nat /\ late' \in Nat
    BY <1>0, <1>t, Zenon DEF HwTick
  <1>6. notified' \in BOOLEAN
    BY Zenon DEF HwTick
  <1> QED BY <1>2, <1>4, <1>5, <1>6

(***************************************************************************)
(* A tick preserves the inductive invariant.                               *)
(***************************************************************************)
LEMMA TickInv == SimInv /\ HwTick => SimInv'
  <1> SUFFICES ASSUME SimInv, HwTick PROVE SimInv'
    OBVIOUS
  <1>1. UNCHANGED <<suspended, ctrl, cli, backup, time_window, reg, raw>> /\ ~suspended
    BY DEF HwTick
  <1>2. hw = "tick" /\ LoopTop
    BY DEF HwTick
  <1>3. system_mode' \in {"NORMAL", "PAUSE", "PAUSE_ACK"} /\ hw' \in {"tick", "paused"}
        /\ (system_mode' = "PAUSE_ACK" => hw' = "paused")
    BY <1>2 DEF LoopTop, SimInv, TypeOK, TaskTypes, PlantTypes
  <1>4. TypeOK'
    <2>1. TaskTypes'
      BY <1>1, <1>3, TickRegs, Zenon DEF SimInv, TypeOK, TaskTypes, PlantTypes
    <2>2. PlantTypes'
      BY <1>1, <1>3, TickRegs, Zenon DEF SimInv, TypeOK, TaskTypes, PlantTypes
    <2> QED BY <2>1, <2>2 DEF TypeOK
  <1>5. HeaterSafe'
    BY <1>1, TickRegs DEF SimInv, HeaterSafe
  <1>6. cli \notin {"save", "testing", "restore"}
    BY <1>1, <1>2 DEF SimInv
  <1> QED BY <1>1, <1>3, <1>4, <1>5, <1>6, Zenon DEF SimInv

(***************************************************************************)
(* Writing the alarm's status and the pins gives well-typed registers.     *)
(***************************************************************************)
LEMMA DrivenRegs ==
    ASSUME NEW regs \in Regs, NEW sts \in BOOLEAN, NEW pins \in SUBSET {"heater", "fan1", "fan2"},
           NEW new, new = [regs EXCEPT !.sts = sts, !.out = pins]
    PROVE  new \in Regs /\ new.out = pins
  BY DEF Regs

(***************************************************************************)
(* Each of the three outcomes of a regulation preserves the invariant.     *)
(***************************************************************************)
LEMMA RegulateInv == SimInv /\ Regulate => SimInv'
  <1> SUFFICES ASSUME SimInv, Regulate PROVE SimInv'
    OBVIOUS
  <1> USE DEF SimInv, TypeOK, TaskTypes, PlantTypes, HeaterSafe, Regs
  <1>1. CASE Emergency
    <2> DEFINE regs == [gpio EXCEPT !.out = IF reg.critical THEN @
                                             ELSE Driven(@, {"fan2"}, {"heater"})]
               status == [reg EXCEPT !.critical = TRUE]
    <2>1. regs \in Regs /\ "heater" \notin regs.out
      BY DEF Driven
    <2>2. status \in [critical : BOOLEAN, cooldown : BOOLEAN, heating : BOOLEAN]
      OBVIOUS
    <2>3. ctrl = "regulate" /\ Done(regs, status)
      BY <1>1 DEF Emergency
    <2> QED BY <2>1, <2>2, <2>3, DoneInv
  <1>2. CASE Cooldown
    <2> DEFINE regs == [gpio EXCEPT !.out = Driven(Out, IF fan1_failed THEN {} ELSE {"fan1"}, {"heater"})]
               status == [reg EXCEPT !.critical = FALSE, !.cooldown = TRUE]
    <2>1. regs \in Regs /\ "heater" \notin regs.out
      BY DEF Out, Driven
    <2>2. status \in [critical : BOOLEAN, cooldown : BOOLEAN, heating : BOOLEAN]
      OBVIOUS
    <2>3. ctrl = "regulate" /\ Done(regs, status)
      BY <1>2 DEF Cooldown
    <2> QED BY <2>1, <2>2, <2>3, DoneInv
  <1>3. CASE Normal
    <2>1. gpio \in Regs /\ (gpio.sts /\ ~IsAlarm) \in BOOLEAN
      OBVIOUS
    <2>2. Pins \in SUBSET {"heater", "fan1", "fan2"} /\ ("heater" \in Pins => "fan1" \notin Pins)
      BY DEF Out, Pins, Driven
    <2>3. Heat \in BOOLEAN
      BY Zenon DEF Heat
    <2> HIDE DEF SimInv, TypeOK, TaskTypes, PlantTypes, HeaterSafe, Regs
    <2>4. PICK regs : regs = [gpio EXCEPT !.sts = @ /\ ~IsAlarm, !.out = Pins]
      OBVIOUS
    <2>5. regs \in Regs /\ regs.out = Pins
      <3>1. PICK sts : sts = (gpio.sts /\ ~IsAlarm)
        OBVIOUS
      <3>2. regs = [gpio EXCEPT !.sts = sts, !.out = Pins]
        BY <2>4, <3>1
      <3> QED BY <2>1, <2>2, <3>1, <3>2, DrivenRegs
    <2>6. PICK status : status = [critical |-> FALSE, cooldown |-> FALSE, heating |-> Heat]
      OBVIOUS
    <2>7. status \in [critical : BOOLEAN, cooldown : BOOLEAN, heating : BOOLEAN]
          /\ ~status.critical /\ ~status.cooldown
      BY <2>3, <2>6
    <2>8. ctrl = "regulate" /\ Done(regs, status)
      BY <1>3, <2>4, <2>6, Zenon DEF Normal
    <2> QED BY <2>2, <2>5, <2>7, <2>8, DoneInv
  <1> QED BY <1>1, <1>2, <1>3 DEF Regulate

(***************************************************************************)
(* Switching the alarm's interrupt and the watchdog on or off leaves the   *)
(* pins alone.                                                             *)
(***************************************************************************)
LEMMA SwitchedRegs ==
    ASSUME NEW regs \in Regs, NEW on \in BOOLEAN, NEW n \in 0 .. Reload,
           NEW new, new = [regs EXCEPT !.sts = FALSE, !.irq = on, !.wdt = on, !.timer = n]
    PROVE  new \in Regs /\ new.out = regs.out
  BY DEF Regs

(***************************************************************************)
(* So does each command and each step of the GPIO test.                    *)
(***************************************************************************)
LEMMA CommandInv == SimInv /\ (Command \/ CliStep) => SimInv'
  <1> SUFFICES ASSUME SimInv, Command \/ CliStep PROVE SimInv'
    OBVIOUS
  <1> USE DEF SimInv, physics
  <1>1. CASE SimStart
    <2>1. gpio' \in Regs /\ gpio'.out = gpio.out
      <3>1. gpio \in Regs
        BY Zenon DEF TypeOK, TaskTypes, PlantTypes
      <3>2. Reload \in 0 .. Reload
        BY TimeAssumption
      <3>3. gpio' \in {gpio, Initialised}
        BY <1>1 DEF SimStart
      <3>4. Initialised = [gpio EXCEPT !.sts = FALSE, !.irq = TRUE, !.wdt = TRUE, !.timer = Reload]
        BY <3>1 DEF Initialised, Reset, InterruptEnabled, InterruptCleared, WatchdogSet, Regs
      <3> QED BY <3>1, <3>2, <3>3, <3>4, SwitchedRegs, Zenon
    <2>2. TypeOK'
      <3>1. TaskTypes'
        BY <1>1, <2>1, Zenon DEF SimStart, LoopTop, TypeOK, TaskTypes, PlantTypes
      <3>2. PlantTypes'
        BY <1>1, <2>1, Zenon DEF SimStart, LoopTop, TypeOK, TaskTypes, PlantTypes
      <3> QED BY <3>1, <3>2 DEF TypeOK
    <2>3. HeaterSafe'
      BY <1>1, <2>1 DEF SimStart, HeaterSafe
    <2>4. (system_mode' = "PAUSE_ACK" => hw' = "paused") /\ ctrl' # "regulate"
      BY <1>1 DEF SimStart, Prompt, LoopTop
    <2> QED BY <1>1, <2>2, <2>3, <2>4 DEF SimStart, Prompt
  <1>2. CASE SimSuspend
    <2>1. 0 \in 0 .. Top /\ 0 \in 0 .. FailPeriod /\ 0 \in Nat
      BY LevelAssumption, TimeAssumption
    <2>2. Idle \in [critical : BOOLEAN, cooldown : BOOLEAN, heating : BOOLEAN]
      BY DEF Idle
    <2>3. TypeOK'
      <3>1. TaskTypes'
        BY <1>2, <2>1, <2>2, Zenon DEF SimSuspend, ResetSimState, TypeOK, TaskTypes, PlantTypes
      <3>2. PlantTypes'
        BY <1>2, <2>1, <2>2, Zenon DEF SimSuspend, ResetSimState, TypeOK, TaskTypes, PlantTypes
      <3> QED BY <3>1, <3>2 DEF TypeOK
    <2>4. HeaterSafe'
      BY <1>2 DEF SimSuspend, ResetSimState, HeaterSafe, Idle
    <2> QED BY <1>2, <2>3, <2>4 DEF SimSuspend, ResetSimState, Prompt
  <1>3. CASE SimPause
    <2>1. TypeOK'
      <3>1. TaskTypes'
        BY <1>3, Zenon DEF SimPause, TypeOK, TaskTypes, PlantTypes
      <3>2. PlantTypes'
        BY <1>3, Zenon DEF SimPause, TypeOK, TaskTypes, PlantTypes
      <3> QED BY <3>1, <3>2 DEF TypeOK
    <2>2. HeaterSafe'
      BY <1>3 DEF SimPause, HeaterSafe
    <2>3. cli' \in {"save", "testing", "restore"} => suspended
      BY <1>3 DEF SimPause
    <2> QED BY <1>3, <2>1, <2>2, <2>3 DEF SimPause
  <1>4. CASE SimResume
    <2>1. TypeOK'
      <3>1. TaskTypes'
        BY <1>4, Zenon DEF SimResume, TypeOK, TaskTypes, PlantTypes
      <3>2. PlantTypes'
        BY <1>4, Zenon DEF SimResume, TypeOK, TaskTypes, PlantTypes
      <3> QED BY <3>1, <3>2 DEF TypeOK
    <2> QED BY <1>4, <2>1 DEF SimResume, HeaterSafe, Prompt
  <1>5. CASE Paused
    <2>1. TypeOK'
      <3>1. TaskTypes'
        BY <1>5, Zenon DEF Paused, TypeOK, TaskTypes, PlantTypes
      <3>2. PlantTypes'
        BY <1>5, Zenon DEF Paused, TypeOK, TaskTypes, PlantTypes
      <3> QED BY <3>1, <3>2 DEF TypeOK
    <2> QED BY <1>5, <2>1 DEF Paused, HeaterSafe
  <1>6. CASE TestSave
    <2>1. TypeOK'
      <3>1. TaskTypes'
        BY <1>6, Zenon DEF TestSave, TypeOK, TaskTypes, PlantTypes
      <3>2. PlantTypes'
        BY <1>6, Zenon DEF TestSave, TypeOK, TaskTypes, PlantTypes
      <3> QED BY <3>1, <3>2 DEF TypeOK
    <2> QED BY <1>6, <2>1 DEF TestSave, HeaterSafe
  <1>7. CASE TestReset
    <2>1. gpio' \in Regs /\ gpio'.out = gpio.out
      <3>1. gpio \in Regs
        BY Zenon DEF TypeOK, TaskTypes, PlantTypes
      <3>2. 0 \in 0 .. Reload
        BY TimeAssumption
      <3>3. gpio' = [gpio EXCEPT !.sts = FALSE, !.irq = FALSE, !.wdt = FALSE, !.timer = 0]
        BY <1>7 DEF TestReset, Reset
      <3> QED BY <3>1, <3>2, <3>3, SwitchedRegs, Zenon
    <2>2. TypeOK'
      <3>1. TaskTypes'
        BY <1>7, <2>1, Zenon DEF TestReset, TypeOK, TaskTypes, PlantTypes
      <3>2. PlantTypes'
        BY <1>7, <2>1, Zenon DEF TestReset, TypeOK, TaskTypes, PlantTypes
      <3> QED BY <3>1, <3>2 DEF TypeOK
    <2> QED BY <1>7, <2>1, <2>2 DEF TestReset, HeaterSafe
  <1>8. CASE TestRestore
    <2>1. NoRegs \in Regs
      BY LevelAssumption, TimeAssumption DEF NoRegs, Regs
    <2>2. TypeOK'
      <3>1. TaskTypes'
        BY <1>8, <2>1, Zenon DEF TestRestore, TypeOK, TaskTypes, PlantTypes
      <3>2. PlantTypes'
        BY <1>8, <2>1, Zenon DEF TestRestore, TypeOK, TaskTypes, PlantTypes
      <3> QED BY <3>1, <3>2 DEF TypeOK
    <2>3. HeaterSafe'
      BY <1>8 DEF TestRestore, HeaterSafe
    <2> QED BY <1>8, <2>2, <2>3 DEF TestRestore
  <1> QED BY <1>1, <1>2, <1>3, <1>4, <1>5, <1>6, <1>7, <1>8 DEF Command, CliStep

(***************************************************************************)
(* Every step preserves the inductive invariant.                           *)
(***************************************************************************)
LEMMA StepInv == SimInv /\ [Next]_vars => SimInv'
  <1> SUFFICES ASSUME SimInv, [Next]_vars PROVE SimInv'
    OBVIOUS
  <1>1. CASE HwPaused
    <2>1. LoopTop /\ hw = "paused" /\ ~suspended
      BY <1>1 DEF HwPaused
    <2>2. system_mode' \in {"NORMAL", "PAUSE", "PAUSE_ACK"} /\ hw' \in {"tick", "paused"}
          /\ (system_mode' = "PAUSE_ACK" => hw' = "paused")
          /\ (system_mode = "PAUSE_ACK" => system_mode' = "PAUSE_ACK")
      BY <2>1 DEF LoopTop, SimInv, TypeOK, TaskTypes, PlantTypes
    <2>3. TypeOK'
      <3>1. TaskTypes'
        BY <1>1, <2>2, Zenon DEF HwPaused, SimInv, TypeOK, TaskTypes, PlantTypes, physics
      <3>2. PlantTypes'
        BY <1>1, <2>2, Zenon DEF HwPaused, SimInv, TypeOK, TaskTypes, PlantTypes, physics
      <3> QED BY <3>1, <3>2 DEF TypeOK
    <2> QED BY <1>1, <2>1, <2>2, <2>3 DEF HwPaused, SimInv, HeaterSafe
  <1>2. CASE Sample
    <2>1. raw' \in 0 .. Top
      BY <1>2 DEF Sample, SimInv, TypeOK, TaskTypes, PlantTypes, Regs
    <2>2. time_window' \in 0 .. FailPeriod
      <3>1. time_window \in 0 .. FailPeriod
        BY Zenon DEF SimInv, TypeOK, TaskTypes, PlantTypes
      <3>2. time_window' = IF time_window = FailPeriod THEN 1 ELSE time_window + 1
        BY <1>2 DEF Sample
      <3> QED BY <3>1, <3>2, TimeAssumption
    <2>3. TypeOK'
      <3>1. TaskTypes'
        BY <1>2, <2>1, <2>2, Zenon DEF Sample, SimInv, TypeOK, TaskTypes, PlantTypes, physics
      <3>2. PlantTypes'
        BY <1>2, <2>1, <2>2, Zenon DEF Sample, SimInv, TypeOK, TaskTypes, PlantTypes, physics
      <3> QED BY <3>1, <3>2 DEF TypeOK
    <2>4. HeaterSafe'
      BY <1>2 DEF Sample, SimInv, HeaterSafe
    <2> QED BY <1>2, <2>3, <2>4 DEF Sample, SimInv
  <1>3. CASE UNCHANGED vars
    <2>1. TypeOK'
      <3>1. TaskTypes'
        BY <1>3, Zenon DEF vars, tasks, physics, SimInv, TypeOK, TaskTypes, PlantTypes
      <3>2. PlantTypes'
        BY <1>3, Zenon DEF vars, tasks, physics, SimInv, TypeOK, TaskTypes, PlantTypes
      <3> QED BY <3>1, <3>2 DEF TypeOK
    <2> QED BY <1>3, <2>1 DEF vars, tasks, physics, SimInv, HeaterSafe
  <1> QED
    BY <1>1, <1>2, <1>3, TickInv, RegulateInv, CommandInv DEF Next, HwStep, CtrlStep

(***************************************************************************)
(* The inductive invariant, and with it the types, for every configuration.*)
(***************************************************************************)
THEOREM Inductive == Spec => []SimInv
  BY InitInv, StepInv, PTL DEF Spec

(***************************************************************************)
(* The heater is never on in the critical state, in the cooldown state, or *)
(* together with Fan 1.                                                    *)
(***************************************************************************)
THEOREM Interlock == Spec => []HeaterSafe
  <1>1. SimInv => HeaterSafe
    BY DEF SimInv
  <1> QED BY <1>1, Inductive, PTL

(***************************************************************************)
(* While the GPIO test has the registers saved, only the test changes them.*)
(***************************************************************************)
THEOREM TestAlone == Spec => TestIsolated
  <1>1. ASSUME SimInv, [Next]_vars
        PROVE  [gpio' # gpio => TestReset \/ TestRestore
                                \/ cli \notin {"testing", "restore"}]_vars
    <2> SUFFICES ASSUME cli \in {"testing", "restore"}, gpio' # gpio
                 PROVE  TestReset \/ TestRestore
      OBVIOUS
    <2>1. suspended \/ (hw = "paused" /\ ctrl # "regulate")
      BY <1>1 DEF SimInv
    <2>2. ~HwTick /\ ~Regulate
      BY <1>1, <2>1 DEF HwTick, Regulate, Emergency, Cooldown, Normal, SimInv
    <2>3. ~HwPaused /\ ~Sample /\ ~Paused /\ ~TestSave
      BY DEF HwPaused, Sample, Paused, TestSave
    <2>4. ~Command
      BY DEF Command, SimStart, SimSuspend, SimPause, SimResume, Prompt
    <2>5. ~UNCHANGED vars
      BY DEF vars
    <2> QED BY <1>1, <2>2, <2>3, <2>4, <2>5 DEF Next, HwStep, CtrlStep, CliStep
  <1> QED BY <1>1, Inductive, PTL DEF Spec, TestIsolated

-----------------------------------------------------------------------------
(* The watchdog                                                            *)

(***************************************************************************)
(* What the registers owe the last kick.  While the control task waits the *)
(* watchdog has counted no further than the milliseconds towards the next  *)
(* sensor update; from its notification on, at most one latency and the    *)
(* ticks that it is late.                                                  *)
(***************************************************************************)
Timed(regs) ==
    regs.wdt => IF ctrl = "regulate" \/ notified
                THEN regs.timer + Latency + late >= Reload
                ELSE regs.timer + ms_counter >= Reload

WatchInv ==
    /\ ms_counter < Latency /\ late <= Lag
    /\ Timed(gpio)
    /\ cli \in {"testing", "restore"} => Timed(backup)

\* What the arithmetic of WatchInv is about.
LEMMA WatchTypes ==
    ASSUME SimInv
    PROVE  /\ ms_counter \in Nat /\ late \in Nat /\ Latency \in Nat \ {0} /\ Lag \in Nat
           /\ Reload \in Nat /\ gpio.timer \in Nat /\ backup.timer \in Nat
           /\ gpio.timer <= Reload /\ gpio \in Regs
  <1>1. gpio \in Regs /\ backup \in Regs /\ ms_counter \in Nat /\ late \in Nat
    BY Zenon DEF SimInv, TypeOK, TaskTypes, PlantTypes
  <1> QED BY <1>1, TimeAssumption DEF Regs

\* A step that leaves counters, registers and the control task alone.
LEMMA WatchFrame ==
    ASSUME WatchInv, UNCHANGED <<ms_counter, late, ctrl, notified, gpio, backup>>,
           cli' \in {"testing", "restore"} => cli \in {"testing", "restore"}
    PROVE  WatchInv'
  BY DEF WatchInv, Timed

\* The alarm and the sensor update both notify, so the counter is only reset with a notification.
LEMMA TickWatch ==
    ASSUME SimInv, WatchInv, HwTick, Latency + Lag < Reload
    PROVE  WatchInv'
  <1> DEFINE ms == ms_counter + 1
             raise == temp' >= Alarm /\ gpio.irq /\ ~gpio.sts
             sense == ~raise /\ ms >= Latency
             busy == ctrl = "regulate" \/ notified
             reset == sense \/ (raise /\ ms > Latency \div 2)
  <1>1. /\ ms_counter' = IF reset THEN 0 ELSE ms
        /\ notified' = (notified \/ raise \/ sense)
        /\ late' = IF busy THEN late + 1 ELSE 0
        /\ busy => late < Lag
        /\ ctrl' = ctrl /\ cli' = cli
    BY DEF HwTick
  <1>2. gpio'.wdt = gpio.wdt
        /\ gpio'.timer = IF gpio.wdt /\ gpio.timer > 0 THEN gpio.timer - 1 ELSE gpio.timer
    <2> DEFINE n == IF gpio.wdt /\ gpio.timer > 0 THEN gpio.timer - 1 ELSE gpio.timer
    <2>1. PICK a, t, o :
             gpio' = [gpio EXCEPT !.in = temp', !.alarm = a, !.sts = t, !.timer = n, !.out = o]
      BY Zenon DEF HwTick
    <2> HIDE DEF n
    <2>2. gpio'.wdt = gpio.wdt /\ gpio'.timer = n
      BY <2>1, WatchTypes DEF Regs
    <2> QED BY <2>2 DEF n
  <1>3. ms_counter' < Latency /\ late' <= Lag
    <2>1. ~reset => ms < Latency
      BY WatchTypes
    <2> QED BY <1>1, <2>1, WatchTypes DEF WatchInv
  <1>4. Timed(gpio)'
    <2> SUFFICES ASSUME gpio.wdt
                 PROVE  IF ctrl = "regulate" \/ notified'
                        THEN gpio'.timer + Latency + late' >= Reload
                        ELSE gpio'.timer + ms_counter' >= Reload
      BY <1>1, <1>2 DEF Timed
    <2>1. CASE busy
      <3>1. gpio.timer + Latency + late >= Reload
        BY <2>1 DEF WatchInv, Timed
      <3>2. gpio'.timer = gpio.timer - 1 /\ late' = late + 1
        BY <1>1, <1>2, <2>1, <3>1, WatchTypes
      <3>3. ctrl = "regulate" \/ notified'
        BY <1>1, <2>1
      <3>4. gpio'.timer + Latency + late' >= Reload
        BY <3>1, <3>2, WatchTypes
      <3> QED BY <3>3, <3>4
    <2>2. CASE ~busy
      <3>1. gpio.timer + ms_counter >= Reload
        BY <2>2 DEF WatchInv, Timed
      <3>2. gpio'.timer = gpio.timer - 1 /\ late' = 0
        BY <1>1, <1>2, <2>2, <3>1, WatchTypes DEF WatchInv
      <3>3. CASE notified'
        BY <3>1, <3>2, <3>3, WatchTypes DEF WatchInv
      <3>4. CASE ~notified'
        <4>1. ms_counter' = ms /\ ctrl # "regulate"
          BY <1>1, <2>2, <3>4
        <4> QED BY <3>1, <3>2, <3>4, <4>1, WatchTypes
      <3> QED BY <3>3, <3>4
    <2> QED BY <2>1, <2>2
  <1>5. cli' \notin {"testing", "restore"}
    BY <1>1 DEF HwTick, SimInv
  <1> QED BY <1>3, <1>4, <1>5 DEF WatchInv

\* A regulation kicks the watchdog, in each of its three outcomes.
LEMMA RegulateWatch ==
    ASSUME SimInv, WatchInv, Regulate
    PROVE  WatchInv'
  <1>1. PICK regs, status : regs \in Regs /\ Done(regs, status)
    <2>1. CASE Emergency
      <3>1. [gpio EXCEPT !.out = IF reg.critical THEN @ ELSE Driven(@, {"fan2"}, {"heater"})] \in Regs
        BY WatchTypes DEF Regs, Driven
      <3> QED BY <2>1, <3>1 DEF Emergency
    <2>2. CASE Cooldown
      <3>1. [gpio EXCEPT !.out = Driven(Out, IF fan1_failed THEN {} ELSE {"fan1"}, {"heater"})] \in Regs
        BY WatchTypes DEF Out, Regs, Driven
      <3> QED BY <2>2, <3>1 DEF Cooldown
    <2>3. CASE Normal
      <3>1. PICK sts \in BOOLEAN : sts = (gpio.sts /\ ~IsAlarm)
        OBVIOUS
      <3>2. Pins \in SUBSET {"heater", "fan1", "fan2"}
        BY WatchTypes DEF Out, Pins, Regs, Driven
      <3>3. [gpio EXCEPT !.sts = sts, !.out = Pins] \in Regs
        BY <3>2, WatchTypes, DrivenRegs
      <3> QED BY <2>3, <3>1, <3>3, Zenon DEF Normal
    <2> QED BY <2>1, <2>2, <2>3 DEF Regulate
  <1>2. gpio'.wdt => gpio'.timer = Reload
    BY <1>1 DEF Done, Kicked, Regs
  <1>3. cli' = cli /\ ms_counter' = ms_counter /\ late' = 0 /\ cli \notin {"testing", "restore"}
    <2>1. cli \notin {"testing", "restore"}
      BY DEF SimInv, Regulate, Emergency, Cooldown, Normal
    <2> QED BY <1>1, <2>1 DEF Done, physics
  <1> QED BY <1>2, <1>3, WatchTypes DEF WatchInv, Timed

\* So do the commands and the GPIO test, whose copy of the registers stays as good as they were.
LEMMA CommandWatch ==
    ASSUME SimInv, WatchInv, Command \/ CliStep
    PROVE  WatchInv'
  <1>1. CASE SimStart
    <2>1. cli' = cli /\ cli = "prompt" /\ ms_counter' = ms_counter /\ late' = late
          /\ notified' = notified
      BY <1>1 DEF SimStart, Prompt, physics
    <2>2. CASE ctrl = "boot"
      <3>1. gpio'.wdt => gpio'.timer = Reload
        BY <1>1, <2>2, WatchTypes DEF SimStart, Initialised, Reset, InterruptEnabled, InterruptCleared,
                                        WatchdogSet, Regs
      <3> QED BY <2>1, <3>1, WatchTypes DEF WatchInv, Timed
    <2>3. CASE ctrl # "boot"
      BY <1>1, <2>1, <2>3 DEF SimStart, WatchInv, Timed
    <2> QED BY <2>2, <2>3
  <1>2. CASE SimSuspend \/ SimPause \/ SimResume \/ Paused
    BY <1>2, WatchFrame DEF SimSuspend, ResetSimState, SimPause, SimResume, Paused, physics, Prompt
  <1>3. CASE TestSave
    BY <1>3 DEF TestSave, WatchInv, Timed, physics
  <1>4. CASE TestReset
    <2>1. ~gpio'.wdt
      BY <1>4, WatchTypes DEF TestReset, Reset, Regs
    <2> QED BY <1>4, <2>1 DEF TestReset, WatchInv, Timed, physics
  <1>5. CASE TestRestore
    BY <1>5 DEF TestRestore, WatchInv, Timed, physics
  <1> QED BY <1>1, <1>2, <1>3, <1>4, <1>5 DEF Command, CliStep

LEMMA StepWatch ==
    ASSUME SimInv, WatchInv, [Next]_vars, Latency + Lag < Reload
    PROVE  WatchInv'
  <1>1. CASE HwPaused
    BY <1>1, WatchFrame DEF HwPaused, physics
  <1>2. CASE Sample
    <2>1. cli \notin {"testing", "restore"}
      BY <1>2 DEF Sample, SimInv
    <2> QED BY <1>2, <2>1 DEF Sample, WatchInv, Timed, physics
  <1>3. CASE UNCHANGED vars
    BY <1>3, WatchFrame DEF vars, tasks, physics
  <1> QED
    BY <1>1, <1>2, <1>3, TickWatch, RegulateWatch, CommandWatch DEF Next, HwStep, CtrlStep

(***************************************************************************)
(* The watchdog's fallback of the hardware task never comes while the      *)
(* control task answers its notification within Lag ticks, if a latency of *)
(* the sensor and Lag together are shorter than the timeout (in the code   *)
(* 50 ms at most of 150 ms): neither the alarm's delay of the next sensor  *)
(* update nor pause, stop and GPIO test add to the time between two kicks. *)
(***************************************************************************)
THEOREM WatchdogFed ==
    ASSUME Latency + Lag < Reload
    PROVE  Spec => []WatchdogQuiet
  <1>1. Init => WatchInv
    BY TimeAssumption DEF Init, WatchInv, Timed, NoRegs
  <1>2. SimInv /\ WatchInv /\ [Next]_vars => WatchInv'
    BY StepWatch
  <1>3. SimInv /\ WatchInv => WatchdogQuiet
    BY WatchTypes DEF WatchInv, Timed, WatchdogQuiet
  <1> QED BY <1>1, <1>2, <1>3, Inductive, PTL DEF Spec

-----------------------------------------------------------------------------
(* The 16-bit arithmetic of the cooling power                              *)

\* An assignment to an int16_t loses nothing of a number that fits.
LEMMA Int16Fits == ASSUME NEW x \in Int, 0 <= x + 32768, x <= 32767 PROVE Int16(x) = x
  <1>1. x + 32768 >= 0 /\ x + 32768 < 65536
    OBVIOUS
  <1>2. (x + 32768) % 65536 = x + 32768
    BY <1>1
  <1> QED BY <1>2 DEF Int16

(***************************************************************************)
(* Both fans of a heater of up to 5949 cool by less than 2^15, so the sum  *)
(* in cooling_power is exact, and Fan 2 outweighs the heater.              *)
(***************************************************************************)
LEMMA Fan2Outweighs ==
    ASSUME SimInv, Power <= 5949, "fan2" \in gpio.out, NEW passive \in {0, 45}, NEW failed \in BOOLEAN
    PROVE  Direction(passive, failed) \in {-1, 0}
  <1> DEFINE fan1 == IF "fan1" \in gpio.out /\ ~failed THEN (Power * 3) \div 2 ELSE 0
             fan2 == Power * 4
             heat == IF "heater" \in gpio.out \/ failed THEN Power ELSE 0
  <1>1. Power \in Nat /\ Power > 0 /\ Mass \in Nat /\ Mass > 0
    BY TimeAssumption
  <1>2. /\ fan1 \in Nat /\ fan2 \in Nat /\ heat \in Nat /\ passive \in Nat
        /\ fan1 <= 8923 /\ fan2 <= 23796 /\ heat <= 5949 /\ heat <= Power /\ passive <= 45
    <2>0. Power * 3 \in Nat /\ Power * 3 <= 17847
      BY <1>1
    <2>1. (Power * 3) \div 2 \in Nat /\ (Power * 3) \div 2 <= 8923
      BY <2>0
    <2>2. fan1 \in Nat /\ fan1 <= 8923
      BY <2>1
    <2>3. fan2 \in Nat /\ fan2 <= 23796
      BY <1>1
    <2>4. heat \in Nat /\ heat <= 5949 /\ heat <= Power
      BY <1>1
    <2> QED BY <2>2, <2>3, <2>4
  <1>3. CoolingPower(passive, failed) = Int16(Int16(fan1 + fan2) + passive)
    BY DEF CoolingPower
  <1>4. Balance(passive, failed) = Int16(heat - CoolingPower(passive, failed))
    BY DEF Balance
  <1>5. fan2 = 4 * Power
    BY <1>1
  <1> HIDE DEF fan1, fan2, heat
  <1>6. CoolingPower(passive, failed) = fan1 + fan2 + passive
    <2>1. Int16(fan1 + fan2) = fan1 + fan2
      BY <1>2, Int16Fits
    <2>2. Int16(fan1 + fan2 + passive) = fan1 + fan2 + passive
      BY <1>2, Int16Fits
    <2> QED BY <1>3, <2>1, <2>2
  <1>7. Balance(passive, failed) = heat - (fan1 + fan2 + passive)
    <2>1. heat - (fan1 + fan2 + passive) \in Int
          /\ 0 <= heat - (fan1 + fan2 + passive) + 32768 /\ heat - (fan1 + fan2 + passive) <= 32767
      BY <1>2
    <2>2. Int16(heat - (fan1 + fan2 + passive)) = heat - (fan1 + fan2 + passive)
      BY <2>1, Int16Fits
    <2> QED BY <1>4, <1>6, <2>2
  <1>8. Balance(passive, failed) \in Int /\ Balance(passive, failed) < 0
    BY <1>1, <1>2, <1>5, <1>7
  <1> QED BY <1>1, <1>8 DEF Direction

LEMMA TickPhysics ==
    ASSUME SimInv, HwTick
    PROVE  temp \in 0 .. Top /\ Physics(ms_counter + 1)
  <1>1. temp \in 0 .. Top
    BY Zenon DEF SimInv, TypeOK, TaskTypes, PlantTypes
  <1>2. Physics(ms_counter + 1)
    BY Zenon DEF HwTick
  <1> QED BY <1>1, <1>2

LEMMA Fan2Tick ==
    ASSUME SimInv, HwTick, Power <= 5949, "fan2" \in gpio.out
    PROVE  temp' <= temp
  <1>1. PICK passive \in {0, 45} :
           \/ temp' = temp
           \/ temp' = temp + Direction(passive, fan1_failed')
    BY TickPhysics DEF Physics
  <1>2. Direction(passive, fan1_failed') \in {-1, 0}
    BY TickRegs, Fan2Outweighs
  <1> QED BY <1>1, <1>2, TickPhysics, LevelAssumption

(***************************************************************************)
(* With Fan 2 running the temperature does not rise, for every heater of   *)
(* up to 5949.  (The command line accepts up to 8000, where it does.)      *)
(***************************************************************************)
THEOREM Fan2Cools ==
    ASSUME Power <= 5949
    PROVE  Spec => EmergencyCools
  <1>1. ASSUME SimInv, [Next]_vars
        PROVE  [HwTick /\ "fan2" \in gpio.out => temp' <= temp]_vars
    BY <1>1, Fan2Tick
  <1> QED BY <1>1, Inductive, PTL DEF Spec, EmergencyCools
=============================================================================
