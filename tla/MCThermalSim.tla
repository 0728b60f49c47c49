---------------------------- MODULE MCThermalSim ----------------------------
(***************************************************************************)
(* ThermalSim with the thresholds of the default configuration, one level  *)
(* apart, and the default heater and thermal mass.                         *)
(***************************************************************************)
EXTENDS ThermalSim
=============================================================================
