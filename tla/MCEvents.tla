------------------------------ MODULE MCEvents -----------------------------
(***************************************************************************)
(* Events for TLC.  One goroutine of the buzzer control may be between the *)
(* test of the buzzer id and its use, while main and the engine are too.   *)
(***************************************************************************)
EXTENDS Events

CONSTANTS g1

MCGoroutines == {g1}

\* The handlers of peripherals differ in the event they raise and in nothing
\* else, and so do the two reports of the updater: the tamper, whose event
\* the buzzer control listens to, the buzzer and one update stand for all.
MCStm32Sends == {m \in Handled : m.kind \in {"tamper", "buzzer"}}
MCReports    == {m \in Updates : m.kind = "stm32Update" /\ m.message = "updated"}

=============================================================================
