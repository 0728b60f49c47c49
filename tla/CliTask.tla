------------------------------- MODULE CliTask ------------------------------
(***************************************************************************)
(* The command line task of the FreeRTOS build on bare metal               *)
(* (vCLITask in port/freertos_main.c, cli_run in cli_main.c, stdin_ready   *)
(* and signal_data_ready in port/arm/cortex-m/common.c), driven by the     *)
(* UART interrupt handler.  The task waits for its notification twice in a *)
(* round, in its loop and in stdin_ready; a notification taken in          *)
(* stdin_ready is believed to mean that the FIFO holds a character.        *)
(*                                                                         *)
(* The input FIFO is the ByteQueue that Fifo implements; the notification  *)
(* count matters only as zero or not, since both waits clear it.           *)
(***************************************************************************)
EXTENDS Integers, Sequences

CONSTANTS Bytes, EOF, Capacity,   \* the input FIFO
          Exit,                   \* the character that completes an exit command
          MaxChars                \* bound: the characters typed

ASSUME CliAssumption == /\ Capacity \in Nat \ {0} /\ MaxChars \in Nat
                        /\ Exit \in Bytes /\ EOF \notin Bytes

VARIABLES queue, pushed, popped,  \* the input FIFO
          notified,               \* the task's notification count is not zero
          at,                     \* where the task stands
          keep_running,
          typed, served           \* history: characters stored, and served

fifo == <<queue, pushed, popped>>
vars == <<fifo, notified, at, keep_running, typed, served>>

Q == INSTANCE ByteQueue

Init == /\ Q!Init
        /\ notified = FALSE
        /\ at = "loop"
        /\ keep_running = TRUE
        /\ typed = 0 /\ served = 0

\* The UART handler: the notification is given even if the FIFO was full.
UartIrq(c) ==
    /\ typed < MaxChars
    /\ \/ Q!Put(c) /\ typed' = typed + 1
       \/ Q!Reject /\ UNCHANGED typed
    /\ notified' = TRUE
    /\ UNCHANGED <<at, keep_running, served>>

\* Mutant: the wait of the loop leaves the notification.
LoopTakeKeeps ==
    /\ at = "loop" /\ keep_running
    /\ at' = "ready"
    /\ UNCHANGED <<fifo, notified, keep_running, typed, served>>

\* Mutant: the wait of the loop has no timeout.
LoopTakeForever ==
    /\ at = "loop" /\ keep_running
    /\ notified
    /\ notified' = FALSE
    /\ at' = "ready"
    /\ UNCHANGED <<fifo, keep_running, typed, served>>

\* ulTaskNotifyTake(pdTRUE, 20 ms) of the loop: a notification or the timeout.
LoopTake ==
    /\ at = "loop" /\ keep_running
    /\ notified' = FALSE
    /\ at' = "ready"
    /\ UNCHANGED <<fifo, keep_running, typed, served>>

Leave ==
    /\ at = "loop" /\ ~keep_running
    /\ at' = "deleted"
    /\ UNCHANGED <<fifo, notified, keep_running, typed, served>>

\* stdin_ready looks at the FIFO.
StdinReady ==
    /\ at = "ready"
    /\ at' = IF queue # <<>> THEN "getchar" ELSE "wait"
    /\ UNCHANGED <<fifo, notified, keep_running, typed, served>>

\* stdin_ready waits for a notification; on the timeout cli_run returns true.
StdinWait ==
    /\ at = "wait"
    /\ notified' = FALSE
    /\ at' = IF notified THEN "getchar" ELSE "loop"
    /\ keep_running' = IF notified THEN keep_running ELSE TRUE
    /\ UNCHANGED <<fifo, typed, served>>

\* The rest of cli_run: one character.
GetChar ==
    /\ at = "getchar"
    /\ Q!Get \/ Q!FindEmpty
    /\ served' = served + 1
    /\ keep_running' = (popped' # Exit)
    /\ at' = "loop"
    /\ UNCHANGED <<notified, typed>>

TaskStep == LoopTake \/ Leave \/ StdinReady \/ StdinWait \/ GetChar
Next == (\E c \in Bytes : UartIrq(c)) \/ TaskStep

Spec == Init /\ [][Next]_vars
\* The lowest priority task gets the processor, and its waits time out.
FairSpec == Spec /\ WF_vars(TaskStep)

(***************************************************************************)
(* getchar is called only on a FIFO that holds a character: a stale        *)
(* notification never makes stdin_ready answer true for nothing, which     *)
(* would feed EOF to the command line as if it had been typed.             *)
(***************************************************************************)
NeverReadsEmpty == at = "getchar" => queue # <<>>

(***************************************************************************)
(* The inductive form: a notification the task may still take, in or after *)
(* its look at the FIFO, was given for a character that nobody has read    *)
(* since, because the wait of the loop cleared the older ones.             *)
(***************************************************************************)
CliInv ==
    /\ queue \in Seq(Bytes) /\ notified \in BOOLEAN
    /\ at \in {"loop", "ready", "wait", "getchar", "deleted"}
    /\ notified /\ at \in {"ready", "wait"} => queue # <<>>
    /\ NeverReadsEmpty

(***************************************************************************)
(* Every character stored is served, unless the session ends.              *)
(***************************************************************************)
EveryCharServed == \A n \in 1 .. MaxChars : typed >= n ~> served >= n \/ ~keep_running
=============================================================================
