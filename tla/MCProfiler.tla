----------------------------- MODULE MCProfiler -----------------------------
(***************************************************************************)
(* Profiler with the two tracked functions of the source, and one more     *)
(* whose slot is that of a tracked one.  log_dispatch is called at every   *)
(* level, log_flash by the command line alone.                             *)
(***************************************************************************)
EXTENDS Profiler, TLC

MCTracked == {"log_dispatch", "log_flash"}
MCCalls == << {"log_dispatch", "log_flash"}, {"log_dispatch", "other"}, {"log_dispatch"} >>
\* The first seed is not perfect.
MCHash == [seed \in {0, 1} |-> IF seed = 0
             THEN ("log_dispatch" :> 2) @@ ("log_flash" :> 2) @@ ("other" :> 0)
             ELSE ("log_dispatch" :> 0) @@ ("log_flash" :> 3) @@ ("other" :> 3)]
=============================================================================
