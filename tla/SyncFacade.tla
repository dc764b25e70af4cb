----------------------------- MODULE SyncFacade -----------------------------
(***************************************************************************)
(* What the synchronous facade promises the goroutine that calls it (spec  *)
(* 4.8, with the send pump of 4.7 and the sweep of 4.6 behind it): a       *)
(* request is queued, then written to the line, and only a request that    *)
(* was written is answered, once, by the STM32 or by its own timeout. A    *)
(* request that does not encode or whose write fails is dropped, and what  *)
(* the spec says of its caller is nothing: it is left waiting.             *)
(***************************************************************************)
EXTENDS Naturals

CONSTANTS
    Callers,            \* the goroutines that call request()
    Payloads,           \* what the STM32 answers with
    Empty,              \* the payload of a TIMEOUT
    NoReply,            \* nothing came out of the private channel yet
    RESP, ERROR, TIMEOUT

VARIABLES
    phase,      \* of each caller: "idle", or its request "queued", "awaiting" or "dropped"
    calls,      \* the requests each caller has made
    reply       \* what came out of each caller's private channel

facadeVars == <<phase, calls, reply>>

ThisCall(c) == [client |-> c, call |-> calls[c]]

Init ==
    /\ phase = [c \in Callers |-> "idle"]
    /\ calls = [c \in Callers |-> 0]
    /\ reply = [c \in Callers |-> NoReply]

Move(c, from, to) ==
    /\ phase[c] = from
    /\ phase' = [phase EXCEPT ![c] = to]

\* request(): a new private channel, the message enqueued, the caller blocked.
Request(c) ==
    /\ Move(c, "idle", "queued")
    /\ calls' = [calls EXCEPT ![c] = @ + 1]
    /\ reply' = [reply EXCEPT ![c] = NoReply]

\* request() of a disabled supervisor: an error at once, nothing enqueued.
Refuse(c) ==
    /\ phase[c] = "idle"
    /\ calls' = [calls EXCEPT ![c] = @ + 1]
    /\ UNCHANGED <<phase, reply>>

\* The send pump wrote the request: it is in the awaiting-response set.
Write(c) == Move(c, "queued", "awaiting") /\ UNCHANGED <<calls, reply>>

\* The send pump dropped the request: encode or write failed.
Drop(c) == Move(c, "queued", "dropped") /\ UNCHANGED <<calls, reply>>

\* The continuation fires with an answer of the STM32 to this very request.
Respond(c) ==
    /\ Move(c, "awaiting", "idle")
    /\ \E type \in {RESP, ERROR}, payload \in Payloads :
           reply' = [reply EXCEPT ![c] =
                        [messageType |-> type, message |-> payload, re |-> ThisCall(c)]]
    /\ UNCHANGED calls

\* The continuation fires from the sweep: TIMEOUT and an empty payload.
TimeOut(c) ==
    /\ Move(c, "awaiting", "idle")
    /\ reply' = [reply EXCEPT ![c] =
                    [messageType |-> TIMEOUT, message |-> Empty, re |-> ThisCall(c)]]
    /\ UNCHANGED calls

Next ==
    \E c \in Callers :
        Request(c) \/ Refuse(c) \/ Write(c) \/ Drop(c) \/ Respond(c) \/ TimeOut(c)

Spec == Init /\ [][Next]_facadeVars

=============================================================================
