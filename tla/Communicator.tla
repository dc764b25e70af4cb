---------------------------- MODULE Communicator ----------------------------
(***************************************************************************)
(* The serial request/response engine of src/charles_communicator: the     *)
(* goroutine running Start(), the three lists it shares with its callers,  *)
(* the goroutines blocked in SendMessage(), the STM32 at the other end of  *)
(* the line and the firmware updater that takes the port away for a flash. *)
(*                                                                         *)
(* A frame is one element of a sequence: what the byte-level framing and   *)
(* the codec do to it is the subject of the modules Framing and Codec.     *)
(* Time is counted in read timeouts (500 ms, InitCC): it passes when the   *)
(* engine's Read returns empty-handed and when the engine sleeps, and a    *)
(* message carries its age, now - messageCreationTime, not a clock value.  *)
(* Calls of collaborators on the handler are atomic steps here, though the *)
(* code takes no lock for them. What a caller of SendMessage may rely on   *)
(* is the module SyncFacade, which this one is shown to implement.         *)
(***************************************************************************)
EXTENDS Integers, Sequences, FiniteSets, SequencesExt

CONSTANTS
    Clients,        \* goroutines that call SendMessage: API handlers, scheduler jobs, listeners, main
    Commands,       \* the opcodes told apart
    Calls,          \* the SendMessage calls the collaborators make: type, command, payload, timeout
    PeerCalls,      \* the requests the STM32 makes: type, command
    AnswerPayloads, \* the payloads the STM32 answers with
    Empty, Text, Long,  \* payloads: "", one that fits a frame, one that makes the frame exceed BUFFER_SIZE
    Garbage,        \* a frame body decodeCharlesMessage rejects
    NoChan,         \* a nil reqFunc: nobody waits for the answer
    NoReply,        \* nothing received on the response channel yet
    NoMessage,      \* the pump holds no message
    Timeouts,       \* the messageTimeout values callers pass, in read timeouts
    ReplyTimeout,   \* messageTimeout of RESP and ERROR messages (5000 ms)
    CooldownTicks,  \* the 2 s pause before a reopen, in read timeouts
    IdModulus,      \* 2^16: msgIdControl and messageId are uint16
    PeerIds,        \* message ids the STM32 gives its own requests
    Registrations,  \* the <<messageType, command>> pairs peripherals.Setup registers, in order
    SupervisorModes,\* the values initializer.IsSupervisorEnable() may have
    OpenMayFail,    \* whether serial.OpenPort can fail
    LineCapacity,   \* frames the line holds unread
    MaxCalls,       \* SendMessage calls per client
    MaxPeerFrames,  \* frames the STM32 sends
    MaxReadErrors,  \* Read calls that fail on an open port
    MaxWriteErrors, \* Write calls that fail on an open port
    MaxFlashes      \* STM32 firmware updates

MSG_TYPE_GET     == 0
MSG_TYPE_SET     == 1
MSG_TYPE_RESP    == 2
MSG_TYPE_ERROR   == 3
MSG_TYPE_TIMEOUT == 4

RequestTypes == {MSG_TYPE_GET, MSG_TYPE_SET}
ReplyTypes   == {MSG_TYPE_RESP, MSG_TYPE_ERROR}
Payloads     == {Empty, Text, Long}

ASSUME /\ IsFiniteSet(Clients) /\ IsFiniteSet(Commands)
       /\ Timeouts \subseteq Nat \ {0} /\ Timeouts # {}
       /\ ReplyTimeout \in Nat /\ CooldownTicks \in Nat \ {0}
       /\ IdModulus \in Nat \ {0}
       /\ PeerIds \subseteq 0..(IdModulus - 1)
       /\ Calls \subseteq [messageType : RequestTypes, command : Commands,
                            data : Payloads, messageTimeout : Timeouts]
       /\ PeerCalls \subseteq [messageType : RequestTypes, command : Commands]
       /\ AnswerPayloads \subseteq {Empty, Text}
       /\ Registrations \in Seq(RequestTypes \X Commands)
       /\ SupervisorModes \subseteq BOOLEAN /\ SupervisorModes # {}
       /\ OpenMayFail \in BOOLEAN
       /\ {LineCapacity, MaxCalls, MaxPeerFrames, MaxReadErrors,
           MaxWriteErrors, MaxFlashes} \subseteq Nat

VARIABLES
    supervisorEnabled,        \* initializer.IsSupervisorEnable()
    enginePc,                 \* where the goroutine running Start() is
    outgoing,                 \* sendMessageIfExists: the message taken from the list, or NoMessage
    ValidPort,                \* CCHandler.ValidPort
    portOpen,                 \* whether CCHandler.port is an open descriptor
    msgIdControl,             \* CCHandler.msgIdControl
    messagesToSendList,       \* CCHandler.messagesToSendList
    messagesWaitingResponse,  \* CCHandler.messagesWaitingResponse
    respFunctionsList,        \* CCHandler.respFunctionsList
    clientPc,                 \* per client: "idle" or "blocked" on its response channel
    clientCalls,              \* per client: SendMessage calls made; the current call is the last
    clientReply,              \* per client: what its last call got from the channel, or refused
    fromPeer,                 \* frames the STM32 wrote that the engine has not read
    peerSeen,                 \* requests the STM32 has received
    flasherPc,                \* UpdaterStm32Callback: "idle" or "flashing"
    used,                     \* how much of each Max* bound is used up
    dropped                   \* history: channels of messages the engine dropped

engineVars == <<enginePc, outgoing>>
portVars   == <<ValidPort, portOpen>>
listVars   == <<messagesToSendList, messagesWaitingResponse>>
clientVars == <<clientPc, clientCalls, clientReply>>
peerVars   == <<fromPeer, peerSeen>>
vars == <<supervisorEnabled, engineVars, portVars, msgIdControl, listVars,
          respFunctionsList, clientVars, peerVars, flasherPc, used, dropped>>

-----------------------------------------------------------------------------
(* Messages *)

AgeCap == Max(Timeouts) + 1   \* ages past every timeout are not told apart

Chans == [client : Clients, call : 1..MaxCalls]

\* CharlesMessage. age is now - messageCreationTime.
Messages ==
    [messageId : 0..(IdModulus - 1), messageType : 0..4, command : Commands,
     data : Payloads, messageTimeout : Timeouts \cup {ReplyTimeout},
     age : 0..AgeCap, chan : Chans \cup {NoChan}]

\* What decodeCharlesMessage makes of a frame body; re is history: the call
\* whose request the STM32 is answering.
Frames ==
    [messageId : 0..(IdModulus - 1), messageType : 0..4, command : Commands,
     data : Payloads \ {Long}, re : Chans \cup {NoChan}]

NewMessage(id, type, command, data, timeout, ch) ==
    [messageId |-> id, messageType |-> type, command |-> command, data |-> data,
     messageTimeout |-> timeout, age |-> 0, chan |-> ch]

Older(m, dt) == [m EXCEPT !.age = Min({@ + dt, AgeCap})]

\* dt read timeouts pass: every message kept anywhere grows older.
Elapse(dt) ==
    /\ messagesToSendList' =
           [i \in DOMAIN messagesToSendList |-> Older(messagesToSendList[i], dt)]
    /\ messagesWaitingResponse' =
           [i \in DOMAIN messagesWaitingResponse |->
               Older(messagesWaitingResponse[i], dt)]
    /\ outgoing' = IF outgoing = NoMessage THEN NoMessage ELSE Older(outgoing, dt)


-----------------------------------------------------------------------------
(* The message store and the identity allocator *)

\* The elements of a list for which the assertion e.Value.(CharlesMessage)
\* holds. Both lists are filled by PushBack of a *CharlesMessage, and a
\* pointer never has the value type: the assertion holds for none.
AssertedByValue(list) == {m \in ToSet(list) : FALSE}

listAllUsedMessageIds ==
    {m.messageId : m \in AssertedByValue(messagesToSendList)
                         \cup AssertedByValue(messagesWaitingResponse)}

\* The loop of requestMessageId, in uint16 arithmetic.
RECURSIVE NextFreeId(_, _, _)
NextFreeId(control, lastMessageId, usedMessageIds) ==
    LET pretendedMessageId == (2 * control + 1) % IdModulus
        advanced == (control + 1) % IdModulus
    IN  IF pretendedMessageId \notin usedMessageIds
            THEN [ok |-> TRUE, messageId |-> pretendedMessageId, control |-> advanced]
        ELSE IF lastMessageId = pretendedMessageId
            THEN [ok |-> FALSE, messageId |-> 0, control |-> advanced]
        ELSE NextFreeId(advanced, lastMessageId, usedMessageIds)

\* requestMessageId without the h.msgIdControl++ of its loop.
requestMessageIdKeepsControl ==
    [NextFreeId(msgIdControl, msgIdControl, listAllUsedMessageIds)
        EXCEPT !.control = msgIdControl]

requestMessageId == NextFreeId(msgIdControl, msgIdControl, listAllUsedMessageIds)

registerMessage(message) ==
    messagesToSendList' = Append(messagesToSendList, message)

\* An answer built without its messageTimeout, which Go then leaves 0.
ReplyMessageNoTimeout(token, type, data) ==
    NewMessage(token.messageId, type, token.command, data, 0, NoChan)

\* SendRespMessage and SendErrorMessage: the answer copies id and command of
\* the request it answers (the token) and has no continuation.
ReplyMessage(token, type, data) ==
    NewMessage(token.messageId, type, token.command, data, ReplyTimeout, NoChan)

\* peripherals.Setup, one RegisterFunctionToRcvMsg at a time.
RegisterFunctionToRcvMsg ==
    /\ Len(respFunctionsList) < Len(Registrations)
    /\ respFunctionsList' =
           Append(respFunctionsList, Registrations[Len(respFunctionsList) + 1])
    /\ UNCHANGED <<supervisorEnabled, engineVars, portVars, msgIdControl, listVars,
                   clientVars, peerVars, flasherPc, used, dropped>>

-----------------------------------------------------------------------------
(* The synchronous facade *)

CurrentCall(c) == [client |-> c, call |-> clientCalls[c]]

\* The goroutine that made the channel ch is receiving from it.
Receiving(ch) == clientPc[ch.client] = "blocked" /\ CurrentCall(ch.client) = ch

\* respSetGet: the send on an unbuffered channel, which takes place when the
\* caller is receiving and lets it return.
respSetGet(ch, type, data, re) ==
    /\ Receiving(ch)
    /\ clientReply' = [clientReply EXCEPT ![ch.client] =
                           [messageType |-> type, message |-> data, re |-> re]]
    /\ clientPc' = [clientPc EXCEPT ![ch.client] = "idle"]
    /\ UNCHANGED clientCalls

\* message.reqFunc(...) behind its nil check.
CallReqFunc(message, type, data, re) ==
    IF message.chan = NoChan
        THEN UNCHANGED clientVars
        ELSE respSetGet(message.chan, type, data, re)

\* SendMessage up to the receive from the channel. A GET is sent without the
\* caller's payload. The error of SendGetMessage and SendSetMessage is not
\* looked at: the caller waits whether or not a message was registered.
SendMessage(c, call) ==
    /\ supervisorEnabled
    /\ clientPc[c] = "idle"
    /\ clientCalls[c] < MaxCalls
    /\ LET allocated == requestMessageId
           payload   == IF call.messageType = MSG_TYPE_GET THEN Empty ELSE call.data
           message   == NewMessage(allocated.messageId, call.messageType, call.command,
                                   payload, call.messageTimeout,
                                   [client |-> c, call |-> clientCalls[c] + 1])
       IN  /\ msgIdControl' = allocated.control
           /\ IF allocated.ok
                  THEN registerMessage(message)
                  ELSE UNCHANGED messagesToSendList
    /\ clientPc' = [clientPc EXCEPT ![c] = "blocked"]
    /\ clientCalls' = [clientCalls EXCEPT ![c] = @ + 1]
    /\ clientReply' = [clientReply EXCEPT ![c] = NoReply]
    /\ UNCHANGED <<supervisorEnabled, engineVars, portVars, messagesWaitingResponse,
                   respFunctionsList, peerVars, flasherPc, used, dropped>>

\* SendMessage with the supervisor disabled: an error, at once.
SendMessageDisabled(c) ==
    /\ ~supervisorEnabled
    /\ clientCalls[c] < MaxCalls
    /\ clientCalls' = [clientCalls EXCEPT ![c] = @ + 1]
    /\ UNCHANGED <<supervisorEnabled, engineVars, portVars, msgIdControl, listVars,
                   respFunctionsList, clientPc, clientReply, peerVars, flasherPc,
                   used, dropped>>

\* What SendMessage returns for what came out of the channel.
returnStringDataAndError(response) ==
    IF response.messageType = MSG_TYPE_ERROR THEN [data |-> Empty, err |-> "peer"]
    ELSE IF response.message = Empty THEN [data |-> Empty, err |-> "timeout"]
    ELSE [data |-> response.message, err |-> "none"]

-----------------------------------------------------------------------------
(* The transport *)

\* ClosePort: Flush discards what the line holds unread.
ClosePort ==
    /\ ValidPort' = FALSE
    /\ portOpen' = FALSE
    /\ fromPeer' = <<>>

\* OpenPort that stores the port and does not set ValidPort.
OpenPortLeavesInvalid(opened) ==
    IF opened THEN portOpen' = TRUE /\ UNCHANGED ValidPort
              ELSE UNCHANGED portVars

\* OpenPort: on an error ValidPort is left as it is.
OpenPort(opened) ==
    IF opened THEN ValidPort' = TRUE /\ portOpen' = TRUE
              ELSE UNCHANGED portVars

OpenOutcomes == IF OpenMayFail THEN BOOLEAN ELSE {TRUE}

Spend(bound) == used' = [used EXCEPT ![bound] = @ + 1]


-----------------------------------------------------------------------------
(* The protocol engine: Start() *)

\* Start: with the supervisor disabled the goroutine returns at once.
EngineStart ==
    /\ enginePc = "start"
    /\ enginePc' = IF supervisorEnabled THEN "poll" ELSE "returned"
    /\ UNCHANGED <<supervisorEnabled, outgoing, portVars, msgIdControl, listVars,
                   respFunctionsList, clientVars, peerVars, flasherPc, used, dropped>>

\* The inner loop of Start found the port valid: Read is the next call.
EnginePollPort ==
    /\ enginePc = "poll"
    /\ ValidPort
    /\ enginePc' = "read"
    /\ UNCHANGED <<supervisorEnabled, outgoing, portVars, msgIdControl, listVars,
                   respFunctionsList, clientVars, peerVars, flasherPc, used, dropped>>

\* The inner loop of Start found the port invalid and slept 500 ms.
EnginePollSleep ==
    /\ enginePc = "poll"
    /\ ~ValidPort
    /\ Elapse(1)
    /\ UNCHANGED <<supervisorEnabled, enginePc, portVars, msgIdControl,
                   respFunctionsList, clientVars, peerVars, flasherPc, used, dropped>>

\* Read failed: the descriptor was closed after ValidPort was tested, or the
\* hardware reported an error.
EngineReadError ==
    /\ enginePc = "read"
    /\ \/ ~portOpen /\ UNCHANGED used
       \/ portOpen /\ used.read < MaxReadErrors /\ Spend("read")
    /\ enginePc' = "close"
    /\ UNCHANGED <<supervisorEnabled, outgoing, portVars, msgIdControl, listVars,
                   respFunctionsList, clientVars, peerVars, flasherPc, dropped>>

\* The error branch of Start, first half: ClosePort.
EngineClosePort ==
    /\ enginePc = "close"
    /\ ClosePort
    /\ enginePc' = "cooldown"
    /\ UNCHANGED <<supervisorEnabled, outgoing, msgIdControl, listVars,
                   respFunctionsList, clientVars, peerSeen, flasherPc, used, dropped>>

\* The error branch of Start, second half: the 2 s sleep and the one OpenPort,
\* whose result is not looked at.
EngineReopen ==
    /\ enginePc = "cooldown"
    /\ Elapse(CooldownTicks)
    /\ \E opened \in OpenOutcomes : OpenPort(opened)
    /\ enginePc' = "poll"
    /\ UNCHANGED <<supervisorEnabled, msgIdControl, respFunctionsList, clientVars,
                   peerVars, flasherPc, used, dropped>>

\* Read returned no byte: the read timeout has passed, an idle tick begins.
EngineReadIdle ==
    /\ enginePc = "read"
    /\ fromPeer = <<>>
    /\ Elapse(1)
    /\ enginePc' = "sweep"
    /\ UNCHANGED <<supervisorEnabled, portVars, msgIdControl, respFunctionsList,
                   clientVars, peerVars, flasherPc, used, dropped>>

\* The engine has read the bytes of one frame up to its ']': processMessage
\* runs on it, and the outer loop of Start begins again.
TakeFrame ==
    /\ enginePc = "read"
    /\ portOpen
    /\ fromPeer # <<>>
    /\ fromPeer' = Tail(fromPeer)
    /\ enginePc' = "poll"

\* decodeCharlesMessage gives a message and processMessage has a case for it.
Dispatched(frame, types) == frame # Garbage /\ frame.messageType \in types

\* processMessage: the frame does not decode, or its type has no case.
EngineDropFrame ==
    /\ TakeFrame
    /\ ~Dispatched(Head(fromPeer), RequestTypes \cup ReplyTypes)
    /\ UNCHANGED <<supervisorEnabled, outgoing, portVars, msgIdControl, listVars,
                   respFunctionsList, clientVars, peerSeen, flasherPc, used, dropped>>

\* callRespFunc: a function is registered for the request's type and command.
\* Each registered function (peripherals/events.go) answers RESP "OK".
callRespFunc(message) ==
    \E i \in DOMAIN respFunctionsList :
        respFunctionsList[i] = <<message.messageType, message.command>>

\* processMessage, GET and SET: the registered function answers, or the
\* engine answers ERROR "unsupported command".
EngineServeRequest ==
    /\ TakeFrame
    /\ Dispatched(Head(fromPeer), RequestTypes)
    /\ LET message == Head(fromPeer)
       IN  registerMessage(ReplyMessage(message,
               IF callRespFunc(message) THEN MSG_TYPE_RESP ELSE MSG_TYPE_ERROR, Text))
    /\ UNCHANGED <<supervisorEnabled, outgoing, portVars, msgIdControl,
                   messagesWaitingResponse, respFunctionsList, clientVars, peerSeen,
                   flasherPc, used, dropped>>

\* An answer taken to be for the entry that has its command.
AnswersToCommand(message, messageWaiting) == message.command = messageWaiting.command

\* callWaitingRespFunc tells by the id alone whom an answer is for.
AnswersTo(message, messageWaiting) == message.messageId = messageWaiting.messageId

\* callWaitingRespFunc handing on the payload of the entry (messageWaiting)
\* where it hands on the payload of the answer (message).
callWaitingRespFuncHandsOnRequest(message) ==
    LET i == SelectInSeq(messagesWaitingResponse, LAMBDA w : AnswersTo(message, w))
    IN  IF i = 0
            THEN UNCHANGED <<messagesWaitingResponse, clientVars>>
            ELSE /\ CallReqFunc(messagesWaitingResponse[i], message.messageType,
                                messagesWaitingResponse[i].data, message.re)
                 /\ messagesWaitingResponse' = RemoveAt(messagesWaitingResponse, i)

\* callWaitingRespFunc: the first entry the answer is for gets it and is removed.
callWaitingRespFunc(message) ==
    LET i == SelectInSeq(messagesWaitingResponse, LAMBDA w : AnswersTo(message, w))
    IN  IF i = 0
            THEN UNCHANGED <<messagesWaitingResponse, clientVars>>
            ELSE /\ CallReqFunc(messagesWaitingResponse[i], message.messageType,
                                message.data, message.re)
                 /\ messagesWaitingResponse' = RemoveAt(messagesWaitingResponse, i)

\* processMessage, RESP and ERROR.
EngineMatchReply ==
    /\ TakeFrame
    /\ Dispatched(Head(fromPeer), ReplyTypes)
    /\ callWaitingRespFunc(Head(fromPeer))
    /\ UNCHANGED <<supervisorEnabled, outgoing, portVars, msgIdControl,
                   messagesToSendList, respFunctionsList, peerSeen, flasherPc,
                   used, dropped>>

\* The subtraction of checkWaitingTimeouts the other way round.
ExpiredOperandsSwapped(message) == (0 - message.age) > message.messageTimeout

\* checkWaitingTimeouts: (actualTime - messageCreationTime) > messageTimeout
Expired(message) == message.age > message.messageTimeout

\* checkWaitingTimeouts as written, but the entry stays in the list.
checkWaitingTimeoutsKeepsEntry ==
    LET i == SelectInSeq(messagesWaitingResponse, Expired)
    IN  IF i = 0
            THEN UNCHANGED <<messagesWaitingResponse, clientVars>>
            ELSE /\ CallReqFunc(messagesWaitingResponse[i], MSG_TYPE_TIMEOUT, Empty,
                                messagesWaitingResponse[i].chan)
                 /\ UNCHANGED messagesWaitingResponse

\* checkWaitingTimeouts. Remove(e) clears e's links, so the e.Next() of the
\* loop is nil after the first removal: the first expired entry is timed out
\* and the loop is over.
checkWaitingTimeouts ==
    LET i == SelectInSeq(messagesWaitingResponse, Expired)
    IN  IF i = 0
            THEN UNCHANGED <<messagesWaitingResponse, clientVars>>
            ELSE /\ CallReqFunc(messagesWaitingResponse[i], MSG_TYPE_TIMEOUT, Empty,
                                messagesWaitingResponse[i].chan)
                 /\ messagesWaitingResponse' = RemoveAt(messagesWaitingResponse, i)

\* The idle tick, first half.
EngineSweep ==
    /\ enginePc = "sweep"
    /\ checkWaitingTimeouts
    /\ enginePc' = "pump"
    /\ UNCHANGED <<supervisorEnabled, outgoing, portVars, msgIdControl,
                   messagesToSendList, respFunctionsList, peerVars, flasherPc,
                   used, dropped>>


getMessageToSend == Last(messagesToSendList)

\* message.messageCreationTime = time.Now().UnixMilli()
Stamped(message) == [message EXCEPT !.age = 0]

\* encodeCharlesMessage succeeds: the frame fits BUFFER_SIZE.
Encodes(message) == message.data # Long

Drop(message) == dropped' = dropped \cup ({message.chan} \ {NoChan})

\* sendMessageIfExists on an empty list.
EnginePumpNothing ==
    /\ enginePc = "pump"
    /\ messagesToSendList = <<>>
    /\ enginePc' = "poll"
    /\ UNCHANGED <<supervisorEnabled, outgoing, portVars, msgIdControl, listVars,
                   respFunctionsList, clientVars, peerVars, flasherPc, used, dropped>>

\* sendMessageIfExists up to the write loop: the last message of the list is
\* taken out, stamped and encoded; one that does not encode is logged and gone.
EnginePumpTake ==
    /\ enginePc = "pump"
    /\ messagesToSendList # <<>>
    /\ messagesToSendList' = Front(messagesToSendList)
    /\ LET message == Stamped(getMessageToSend)
       IN  \/ /\ Encodes(message)
              /\ outgoing' = message
              /\ enginePc' = "write"
              /\ UNCHANGED dropped
           \/ /\ ~Encodes(message)
              /\ Drop(message)
              /\ enginePc' = "poll"
              /\ UNCHANGED outgoing
    /\ UNCHANGED <<supervisorEnabled, portVars, msgIdControl, messagesWaitingResponse,
                   respFunctionsList, clientVars, peerVars, flasherPc, used>>

\* The write loop found the port valid: Write is the next call.
EngineWritePort ==
    /\ enginePc = "write"
    /\ ValidPort
    /\ enginePc' = "writing"
    /\ UNCHANGED <<supervisorEnabled, outgoing, portVars, msgIdControl, listVars,
                   respFunctionsList, clientVars, peerVars, flasherPc, used, dropped>>

\* The write loop found the port invalid and slept 500 ms.
EngineWriteSleep ==
    /\ enginePc = "write"
    /\ ~ValidPort
    /\ Elapse(1)
    /\ UNCHANGED <<supervisorEnabled, enginePc, portVars, msgIdControl,
                   respFunctionsList, clientVars, peerVars, flasherPc, used, dropped>>

\* Write succeeded: the STM32 has the frame, and a GET or SET now waits for
\* its answer at the back of messagesWaitingResponse.
EngineWritten ==
    /\ enginePc = "writing"
    /\ portOpen
    /\ IF outgoing.messageType \in RequestTypes
           THEN /\ messagesWaitingResponse' = Append(messagesWaitingResponse, outgoing)
                /\ peerSeen' = peerSeen \cup
                       {[messageId |-> outgoing.messageId, command |-> outgoing.command,
                         chan |-> outgoing.chan]}
           ELSE UNCHANGED <<messagesWaitingResponse, peerSeen>>
    /\ outgoing' = NoMessage
    /\ enginePc' = "poll"
    /\ UNCHANGED <<supervisorEnabled, portVars, msgIdControl, messagesToSendList,
                   respFunctionsList, clientVars, fromPeer, flasherPc, used, dropped>>

\* Write failed: the descriptor was closed after ValidPort was tested, or the
\* hardware reported an error. The message is logged and gone.
EngineWriteError ==
    /\ enginePc = "writing"
    /\ \/ ~portOpen /\ UNCHANGED used
       \/ portOpen /\ used.write < MaxWriteErrors /\ Spend("write")
    /\ Drop(outgoing)
    /\ outgoing' = NoMessage
    /\ enginePc' = "poll"
    /\ UNCHANGED <<supervisorEnabled, portVars, msgIdControl, listVars,
                   respFunctionsList, clientVars, peerVars, flasherPc>>

Engine ==
    \/ EngineStart \/ EnginePollPort \/ EnginePollSleep
    \/ EngineReadError \/ EngineClosePort \/ EngineReopen
    \/ EngineReadIdle \/ EngineDropFrame \/ EngineServeRequest \/ EngineMatchReply
    \/ EngineSweep \/ EnginePumpNothing \/ EnginePumpTake
    \/ EngineWritePort \/ EngineWriteSleep \/ EngineWritten \/ EngineWriteError


-----------------------------------------------------------------------------
(* The collaborators' goroutines *)

Client ==
    \/ \E c \in Clients, call \in Calls : SendMessage(c, call)
    \/ \E c \in Clients : SendMessageDisabled(c)

\* UpdaterStm32Callback up to updateDevice: the port is taken from the engine.
FlashBegin ==
    /\ flasherPc = "idle"
    /\ used.flash < MaxFlashes
    /\ Spend("flash")
    /\ ClosePort
    /\ flasherPc' = "flashing"
    /\ UNCHANGED <<supervisorEnabled, engineVars, msgIdControl, listVars,
                   respFunctionsList, clientVars, peerSeen, dropped>>

\* UpdaterStm32Callback after updateDevice, whatever became of the flash: the
\* port is given back by OpenPort, whose result is not looked at.
FlashEnd ==
    /\ flasherPc = "flashing"
    /\ \E opened \in OpenOutcomes : OpenPort(opened)
    /\ flasherPc' = "idle"
    /\ UNCHANGED <<supervisorEnabled, engineVars, msgIdControl, listVars,
                   respFunctionsList, clientVars, peerVars, used, dropped>>

-----------------------------------------------------------------------------
(* The STM32 *)

\* The STM32 writes a frame. One written while the port is closed is lost.
PeerSends(frame) ==
    /\ used.peer < MaxPeerFrames
    /\ Len(fromPeer) < LineCapacity
    /\ Spend("peer")
    /\ fromPeer' = IF portOpen THEN Append(fromPeer, frame) ELSE fromPeer
    /\ UNCHANGED <<supervisorEnabled, engineVars, portVars, msgIdControl, listVars,
                   respFunctionsList, clientVars, peerSeen, flasherPc, dropped>>

\* An answer to a request the STM32 has received; it may answer twice.
PeerAnswers ==
    \E request \in peerSeen, type \in ReplyTypes, data \in AnswerPayloads :
        PeerSends([messageId |-> request.messageId, messageType |-> type,
                   command |-> request.command, data |-> data, re |-> request.chan])

\* A request of the STM32's own: watchdog, tamper, buzzer, power source.
PeerRequests ==
    \E id \in PeerIds, call \in PeerCalls :
        PeerSends([messageId |-> id, messageType |-> call.messageType,
                   command |-> call.command, data |-> Text, re |-> NoChan])

\* Bytes that frame but do not decode, or a frame of a type never sent.
PeerNoise ==
    \/ PeerSends(Garbage)
    \/ \E id \in PeerIds, call \in PeerCalls :
           PeerSends([messageId |-> id, messageType |-> MSG_TYPE_TIMEOUT,
                      command |-> call.command, data |-> Empty, re |-> NoChan])

Peer == PeerAnswers \/ PeerRequests \/ PeerNoise

-----------------------------------------------------------------------------
(* The specification *)

Bounds == {"read", "write", "flash", "peer"}

\* main after InitCC, whose OpenPort succeeded, and before `go Start()`.
Init ==
    /\ supervisorEnabled \in SupervisorModes
    /\ enginePc = "start"
    /\ outgoing = NoMessage
    /\ ValidPort = TRUE
    /\ portOpen = TRUE
    /\ msgIdControl = 0
    /\ messagesToSendList = <<>>
    /\ messagesWaitingResponse = <<>>
    /\ respFunctionsList = <<>>
    /\ clientPc = [c \in Clients |-> "idle"]
    /\ clientCalls = [c \in Clients |-> 0]
    /\ clientReply = [c \in Clients |-> NoReply]
    /\ fromPeer = <<>>
    /\ peerSeen = {}
    /\ flasherPc = "idle"
    /\ used = [b \in Bounds |-> 0]
    /\ dropped = {}

\* With the supervisor disabled nothing is left to do once Start has
\* returned: the process idles in main.
Idle == enginePc = "returned" /\ UNCHANGED vars

Next ==
    \/ Engine
    \/ Client
    \/ RegisterFunctionToRcvMsg
    \/ FlashBegin \/ FlashEnd
    \/ Peer
    \/ Idle

Spec == Init /\ [][Next]_vars

\* The engine's goroutine is scheduled whenever it can run, and a flash,
\* once begun, comes to its end.
Fairness == WF_vars(Engine) /\ WF_vars(FlashEnd)

FairSpec == Spec /\ Fairness


-----------------------------------------------------------------------------
(* Properties *)

\* Every variable holds a value of the kind the Go declarations give it.
TypeOK ==
    /\ supervisorEnabled \in BOOLEAN
    /\ enginePc \in {"start", "returned", "poll", "read", "close", "cooldown",
                     "sweep", "pump", "write", "writing"}
    /\ outgoing \in Messages \cup {NoMessage}
    /\ ValidPort \in BOOLEAN /\ portOpen \in BOOLEAN
    /\ msgIdControl \in 0..(IdModulus - 1)
    /\ messagesToSendList \in Seq(Messages)
    /\ messagesWaitingResponse \in Seq(Messages)
    /\ respFunctionsList \in Seq(RequestTypes \X Commands)
    /\ clientPc \in [Clients -> {"idle", "blocked"}]
    /\ clientCalls \in [Clients -> 0..MaxCalls]
    /\ clientReply \in [Clients -> {NoReply} \cup
           [messageType : 0..4, message : Payloads, re : Chans \cup {NoChan}]]
    /\ fromPeer \in Seq(Frames \cup {Garbage})
    /\ peerSeen \subseteq [messageId : 0..(IdModulus - 1), command : Commands,
                           chan : Chans \cup {NoChan}]
    /\ flasherPc \in {"idle", "flashing"}
    /\ used \in [Bounds -> Nat]
    /\ dropped \subseteq Chans

\* The messages the handler holds, wherever they are.
Held ==
    [list \in {"toSend", "pump", "waiting"} |->
        CASE list = "toSend"  -> messagesToSendList
          [] list = "pump"    -> IF outgoing = NoMessage THEN <<>> ELSE <<outgoing>>
          [] list = "waiting" -> messagesWaitingResponse]

HeldRequests ==
    {m \in UNION {ToSet(Held[list]) : list \in DOMAIN Held} :
        m.messageType \in RequestTypes}

\* The number of places that account for the call behind the channel ch: its
\* message in a list or in the pump's hands, or the record of its loss.
Holders(ch) ==
    LET In(list) == Len(SelectSeq(list, LAMBDA m : m.chan = ch))
    IN  In(Held.toSend) + In(Held.pump) + In(Held.waiting)
            + (IF ch \in dropped THEN 1 ELSE 0)

\* A goroutine blocked in SendMessage (the receive of line 371) is accounted
\* for exactly once, by its message in messagesToSendList, in the pump or in
\* messagesWaitingResponse, or by its message having been dropped; and no
\* message is kept whose caller has returned, on whose reqFunc the engine
\* (checkWaitingTimeouts, callWaitingRespFunc) would then block for ever.
EveryCallAccounted ==
    \A ch \in Chans : Holders(ch) = IF Receiving(ch) THEN 1 ELSE 0

\* What SendMessage returns was made for this very call: a RESP or ERROR the
\* STM32 sent in answer to this call's request, or this call's own timeout
\* (callWaitingRespFunc matches by messageId alone, requestMessageId is what
\* keeps the ids of different calls apart).
AnswerIsForTheCall ==
    \A c \in Clients :
        clientReply[c] # NoReply => clientReply[c].re = CurrentCall(c)

\* Spec 8, "never issues the same id twice while both are in flight": the
\* requests held in messagesToSendList, the pump and messagesWaitingResponse
\* have pairwise distinct messageIds (requestMessageId).
InFlightIdsDistinct ==
    \A m, n \in HeldRequests : m.messageId = n.messageId => m.chan = n.chan

InWaiting(c) ==
    \E m \in ToSet(messagesWaitingResponse) : m.chan = CurrentCall(c)

InToSend(c) ==
    \E m \in ToSet(messagesToSendList) : m.chan = CurrentCall(c)

\* A request written to the port is resolved: the caller of SendMessage gets
\* the answer or, the STM32 staying silent, the TIMEOUT of
\* checkWaitingTimeouts, one removal per idle tick notwithstanding.
WaitingResolves ==
    \A c \in Clients : InWaiting(c) ~> clientPc[c] = "idle"

\* A registered message leaves messagesToSendList: the pump takes it, through
\* reconnects (EngineReopen) and firmware flashes (FlashEnd) that make it wait
\* for ValidPort.
QueuedIsTaken ==
    \A c \in Clients : InToSend(c) ~> ~InToSend(c)

\* The refinement mapping: a blocked caller's request is awaiting once it
\* is in messagesWaitingResponse, dropped once sendMessageIfExists gave it
\* up, and queued in between (in messagesToSendList or the pump's hands).
Facade ==
    INSTANCE SyncFacade WITH
        Callers <- Clients,
        Payloads <- AnswerPayloads,
        RESP <- MSG_TYPE_RESP, ERROR <- MSG_TYPE_ERROR, TIMEOUT <- MSG_TYPE_TIMEOUT,
        phase <- [c \in Clients |->
                     CASE clientPc[c] = "idle"       -> "idle"
                       [] InWaiting(c)               -> "awaiting"
                       [] CurrentCall(c) \in dropped -> "dropped"
                       [] OTHER                      -> "queued"],
        calls <- clientCalls,
        reply <- clientReply

\* SendMessage, the pump, callWaitingRespFunc and checkWaitingTimeouts
\* together implement the synchronous facade of spec 4.8: a caller gets an
\* answer only for a request of its own that sendMessageIfExists has written,
\* the answer carries what the STM32 sent and a TIMEOUT carries nothing, and
\* a request is never answered twice nor goes back from
\* messagesWaitingResponse to the queue.
ImplementsFacade == Facade!Spec

\* Spec 4.8, "callers always wait for either a real response or a timeout":
\* every call of SendMessage returns.
RequestReturns ==
    \A c \in Clients : clientPc[c] = "blocked" ~> clientPc[c] = "idle"

\* Spec 6, "exclusive access during a firmware flash": between the ClosePort
\* and the OpenPort of UpdaterStm32Callback the handler has no open port, so
\* the engine neither reads what the STM32's loader says nor writes to it.
FlashHasThePort == flasherPc = "flashing" => ~portOpen

=============================================================================
