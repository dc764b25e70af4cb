--------------------------- MODULE MCCommunicator ---------------------------
(***************************************************************************)
(* Communicator for TLC: two callers, two opcodes of which the STM32 may   *)
(* request one that is registered and one that is not.                     *)
(***************************************************************************)
EXTENDS Communicator

CONSTANTS c1, c2, Temperature, BuzzerDisable, OsVersion

MCClients == {c1, c2}
MCCommands == {Temperature, BuzzerDisable, OsVersion}

Call(type, command, data, timeout) ==
    [messageType |-> type, command |-> command, data |-> data, messageTimeout |-> timeout]

\* peripherals: GetTemperature (10 s), the buzzer switched off (3 s), and
\* SetOsVersion with a version text too long for a frame (10 s).
MCCalls ==
    {Call(MSG_TYPE_GET, Temperature, Empty, 2),
     Call(MSG_TYPE_SET, BuzzerDisable, Empty, 1),
     Call(MSG_TYPE_SET, OsVersion, Long, 2)}

\* The calls whose frame fits.
MCCallsThatFit == {call \in MCCalls : call.data # Long}

\* The STM32 reports the buzzer (registered by peripherals.Setup) and asks
\* for something nothing is registered for.
MCPeerCalls ==
    {[messageType |-> MSG_TYPE_SET, command |-> BuzzerDisable],
     [messageType |-> MSG_TYPE_GET, command |-> Temperature]}

MCRegistrations == <<<<MSG_TYPE_SET, BuzzerDisable>>>>

ClientSymmetry == Permutations(MCClients)

=============================================================================
