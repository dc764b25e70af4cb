------------------------------- MODULE Events ------------------------------
(***************************************************************************)
(* The events of the program: event_control (the register of listeners),   *)
(* the event ids that peripherals and updater create on first use, the     *)
(* handlers of peripherals that turn a message of the STM32 into an event, *)
(* the buzzer control that listens to the tamper, and the listeners of     *)
(* monitor that publish.                                                   *)
(*                                                                         *)
(* Three threads raise events and register listeners: main (Setup, then    *)
(* Monitor), the engine of the communicator (the handlers) and the router  *)
(* of the MQTT client (the updater).  Every listener runs in a goroutine   *)
(* of its own.  Neither the ids nor the register are guarded by a lock;    *)
(* only the counter of CreateEventId is.  The test of an id, then, when     *)
(* there is none, its creation and store, and then the read of the         *)
(* package's variable for the use, are steps of their own.  The creation   *)
(* and the store are one step: ids are only ever compared, so that which   *)
(* of two threads' ids ends up in the variable is decided by the order of  *)
(* these steps as it is by the order of the stores.                        *)
(***************************************************************************)
EXTENDS Naturals, Sequences, FiniteSets, Bags, Functions

CONSTANTS
    Goroutines,   \* the goroutines of activateBuzzerByTamper that may run at once
    MaxPending,   \* listeners started and not yet run
    Stm32Sends,   \* the messages of the STM32 that arrive, among Handled
    Reports,      \* the reports of the updater that are made, among Updates
    NoJob, NoValue

VARIABLES
    eventIdCounter,           \* event_control.eventIdCounter
    eventIds,                 \* eventTamperId, ..., stm32UpdateEventId
    eventFunctionsRegister,   \* event_control.eventFunctionsRegister
    mainPc,                   \* the statement of Main that main is to run
    job,                      \* per thread, the registration or the call it is in
    spawned,                  \* the bag of listeners started and not yet run,
                              \* of those whose run changes the state
    published,                \* the status of the buzzer published last
    stm32Said                 \* the buzzer commands the STM32 acknowledged or reported

vars == <<eventIdCounter, eventIds, eventFunctionsRegister, mainPc, job, spawned,
          published, stm32Said>>

Kinds   == {"tamper", "watchdog", "buzzer", "powerSource", "stm32Update", "hlk7628Update"}
Threads == {"main", "engine", "router"} \cup Goroutines

\* The listeners and the event each is registered for.
ListensTo ==
    [activateBuzzerByTamper |-> "tamper", sendTamperEvent |-> "tamper",
     sendPowerSourceEvent |-> "powerSource", sendBuzzerEvent |-> "buzzer",
     sendUpdateSTM32Event |-> "stm32Update", sendUpdateHLK7628Event |-> "hlk7628Update"]

\* What main does to events, in the order of main.go: Setup gives the engine
\* its handlers and registers the buzzer control, Connect lets the broker
\* deliver, Monitor registers its five listeners.
Main ==
    <<"Setup", "activateBuzzerByTamper", "Connect", "sendTamperEvent",
      "sendPowerSourceEvent", "sendBuzzerEvent", "sendUpdateSTM32Event",
      "sendUpdateHLK7628Event">>

Done(statement) == \E i \in 1..(mainPc - 1) : Main[i] = statement

\* The messages of the STM32 that peripherals has a handler for.
Handled ==
    [kind : {"tamper"}, messageType : {"SET"}, command : {"TAMPER_EVENT"},
     message : {"Open", "Close", "other"}]
    \cup {[kind |-> "watchdog", messageType |-> "GET", command |-> "WATCHDOG", message |-> ""],
          [kind |-> "buzzer", messageType |-> "SET", command |-> "BUZZER_DISABLE", message |-> ""],
          [kind |-> "powerSource", messageType |-> "SET", command |-> "POWER_SOURCE",
           message |-> "other"]}

\* callSTM32Events and callHLK7628Events.
Updates ==
    [kind : {"stm32Update", "hlk7628Update"}, messageType : {"0"}, command : {"0"},
     message : {"updating", "update fail", "updated"}]

ASSUME Stm32Sends \subseteq Handled /\ Reports \subseteq Updates

\* Who asks for the id of which event: main for the events it registers
\* listeners for, the engine and the router for the events they raise, the
\* goroutines of the buzzer control for the event of the buzzer.  Each may
\* find no id once and create one, and there are no more ids than that.
Askers ==
    {<<"main", ListensTo[l]>> : l \in DOMAIN ListensTo}
    \cup {<<"engine", m.kind>> : m \in Stm32Sends}
    \cup {<<"router", m.kind>> : m \in Reports}
    \cup (Goroutines \X {"buzzer"})
MaxIds == Cardinality(Askers)

NoEvent == [kind |-> "none", messageType |-> "0", command |-> "0", message |-> ""]

Job(kind, do, listener, event) ==
    [kind |-> kind, do |-> do, listener |-> listener, event |-> event,
     step |-> "create"]

-----------------------------------------------------------------------------
Init ==
    /\ eventIdCounter = 0
    /\ eventIds = [kind \in Kinds |-> 0]
    /\ eventFunctionsRegister = [id \in 1..MaxIds |-> <<>>]
    /\ mainPc = 1
    /\ job = [t \in Threads |-> NoJob]
    /\ spawned = EmptyBag
    /\ published = NoValue
    /\ stm32Said = {}

RegisterToReceiveEvent(id, listener) ==
    /\ eventFunctionsRegister' = [eventFunctionsRegister EXCEPT ![id] = Append(@, listener)]
    /\ UNCHANGED spawned

\* The listeners whose run changes the state: the buzzer control, which sends
\* a command and raises an event, and the one that publishes the status of
\* the buzzer.  The others publish the message of the event as it is.
Stateful == {"activateBuzzerByTamper", "sendBuzzerEvent"}

\* The goroutines that CallRegisteredEventFunctions starts for an event, one
\* for each listener in the register.
Started(id, event) ==
    LET listeners == eventFunctionsRegister[id]
        Times(l)  == Cardinality({i \in DOMAIN listeners : listeners[i] = l})
    IN  [invocation \in {[listener |-> l, event |-> event] : l \in Range(listeners) \cap Stateful}
            |-> Times(invocation.listener)]

CallRegisteredEventFunctions(id, event) ==
    /\ spawned' = spawned (+) Started(id, event)
    /\ UNCHANGED eventFunctionsRegister

\* What a thread does with the id it got.
Apply(j, id) ==
    \/ j.do = "register" /\ RegisterToReceiveEvent(id, j.listener)
    \/ j.do = "call" /\ CallRegisteredEventFunctions(id, j.event)

CreatedNever(kind) == FALSE

\* The test of Get...EventId.
Created(kind) == eventIds[kind] # 0

\* A thread asks for the id of an event.  Get...EventId finds it, and the
\* thread does with it what it came for; or finds none, and the thread goes
\* on to create one.
GetEventId(t, j) ==
    /\ job[t] = NoJob
    /\ \/ Created(j.kind) /\ Apply(j, eventIds[j.kind]) /\ UNCHANGED job
       \/ /\ ~Created(j.kind)
          /\ job' = [job EXCEPT ![t] = j]
          /\ UNCHANGED <<eventFunctionsRegister, spawned>>
    /\ UNCHANGED <<eventIdCounter, eventIds>>

CreateEventIdLosesUpdate == IF eventIdCounter = 0 THEN 1 ELSE eventIdCounter

\* CreateEventId, under its mutex.
CreateEventId == eventIdCounter + 1

In(t, step) == job[t] # NoJob /\ job[t].step = step

\* Get...EventId, having found no id, has CreateEventId make one and stores
\* it: the id of a thread that came first is written over.
StoreEventId(t) ==
    /\ In(t, "create")
    /\ eventIdCounter' = CreateEventId
    /\ eventIds' = [eventIds EXCEPT ![job[t].kind] = eventIdCounter']
    /\ job' = [job EXCEPT ![t].step = "apply"]
    /\ UNCHANGED <<eventFunctionsRegister, mainPc, spawned, published, stm32Said>>

\* Get...EventId returns the variable as it is now, which may hold the id
\* of another thread, and the thread does with it what it came for.
WithStoredId(t) ==
    /\ In(t, "apply")
    /\ Apply(job[t], eventIds[job[t].kind])
    /\ job' = [job EXCEPT ![t] = NoJob]
    /\ UNCHANGED <<eventIdCounter, eventIds, mainPc, published, stm32Said>>

-----------------------------------------------------------------------------
\* main runs its next statement: a marker, or the registration of a listener,
\* which begins with the id of its event.
MainStep ==
    /\ mainPc <= Len(Main)
    /\ mainPc' = mainPc + 1
    /\ IF Main[mainPc] \in DOMAIN ListensTo
         THEN GetEventId("main", Job(ListensTo[Main[mainPc]], "register", Main[mainPc], NoEvent))
         ELSE job["main"] = NoJob
              /\ UNCHANGED <<eventIdCounter, eventIds, eventFunctionsRegister, job, spawned>>
    /\ UNCHANGED <<published, stm32Said>>

\* respGetWatchdog, respSetTamperEvent, respBuzzerEvent, respPowerSourceEvent:
\* the engine answers "OK" and raises the event.
Handler(m) ==
    /\ Done("Setup")
    /\ BagCardinality(spawned) < MaxPending
    /\ GetEventId("engine", Job(m.kind, "call", "none", m))
    /\ stm32Said' = IF m.kind = "buzzer" THEN stm32Said \cup {m.command} ELSE stm32Said
    /\ UNCHANGED <<mainPc, published>>

\* The updater, in a callback of the MQTT client, reports its progress.
UpdaterEvent(m) ==
    /\ Done("Connect")
    /\ GetEventId("router", Job(m.kind, "call", "none", m))
    /\ UNCHANGED <<mainPc, published, stm32Said>>

\* The command activateBuzzerByTamper sends for a message of the tamper.
BuzzerCommand == [Open |-> "BUZZER_ENABLE", Close |-> "BUZZER_DISABLE"]

\* The goroutine of activateBuzzerByTamper runs with a message that is
\* neither "Open" nor "Close": it does nothing.
activateBuzzerByNeither(invocation) ==
    /\ invocation.listener = "activateBuzzerByTamper"
    /\ invocation.event.message \notin DOMAIN BuzzerCommand
    /\ spawned' = spawned (-) SetToBag({invocation})
    /\ UNCHANGED <<eventIdCounter, eventIds, eventFunctionsRegister, mainPc, job, published,
                   stm32Said>>

\* activateBuzzerByTamper sends the command for "Open" or "Close", has the
\* answer of the STM32 or the timeout, and raises the buzzer event with it.
\* The event is raised when the goroutine has taken itself off the bag.
activateBuzzerByTamper(invocation, g, answered) ==
    /\ invocation.listener = "activateBuzzerByTamper"
    /\ invocation.event.message \in DOMAIN BuzzerCommand
    /\ LET command == BuzzerCommand[invocation.event.message]
           raised  == [kind |-> "buzzer", command |-> command, message |-> "",
                       messageType |-> IF answered THEN "RESP" ELSE "ERROR"]
           rest    == spawned (-) SetToBag({invocation})
       IN  /\ stm32Said' = IF answered THEN stm32Said \cup {command} ELSE stm32Said
           /\ job[g] = NoJob
           /\ \/ /\ Created("buzzer")
                 /\ spawned' = rest (+) Started(eventIds["buzzer"], raised)
                 /\ UNCHANGED job
              \/ /\ ~Created("buzzer")
                 /\ job' = [job EXCEPT ![g] = Job("buzzer", "call", "none", raised)]
                 /\ spawned' = rest
    /\ UNCHANGED <<eventIdCounter, eventIds, eventFunctionsRegister, mainPc, published>>

sendBuzzerEventAnyType(event) ==
    IF event.command = "BUZZER_ENABLE" THEN "active" ELSE "inactive"

\* sendBuzzerEvent: the status it publishes for an event of the buzzer,
\* whose command is BUZZER_ENABLE or BUZZER_DISABLE.
sendBuzzerEvent(event) ==
    IF event.command = "BUZZER_ENABLE"
    THEN IF event.messageType = "RESP" THEN "active" ELSE "activation error"
    ELSE IF event.messageType \in {"RESP", "SET"} THEN "inactive" ELSE "deactivation error"

\* The listener of monitor for the buzzer runs and publishes.
publishMetric(invocation) ==
    /\ invocation.listener = "sendBuzzerEvent"
    /\ spawned' = spawned (-) SetToBag({invocation})
    /\ published' = sendBuzzerEvent(invocation.event)
    /\ UNCHANGED <<eventIdCounter, eventIds, eventFunctionsRegister, mainPc, job, stm32Said>>

Next ==
    \/ MainStep
    \/ \E m \in Stm32Sends : Handler(m)
    \/ \E m \in Reports : UpdaterEvent(m)
    \/ \E t \in Threads : StoreEventId(t) \/ WithStoredId(t)
    \/ \E invocation \in BagToSet(spawned) : activateBuzzerByNeither(invocation)
    \/ \E invocation \in BagToSet(spawned), g \in Goroutines, answered \in BOOLEAN :
           activateBuzzerByTamper(invocation, g, answered)
    \/ \E invocation \in BagToSet(spawned) : publishMetric(invocation)

Spec == Init /\ [][Next]_vars

-----------------------------------------------------------------------------
Events == Handled \cup Updates \cup
          [kind : {"buzzer"}, messageType : {"RESP", "ERROR"},
           command : {"BUZZER_ENABLE", "BUZZER_DISABLE"}, message : {""}]

Jobs == [kind : Kinds, do : {"register", "call"}, listener : DOMAIN ListensTo \cup {"none"},
         event : Events \cup {NoEvent}, step : {"create", "apply"}]

\* The type invariant.  The counter of ids stays within what the threads can
\* create: a thread creates an id for an event only when it has found none,
\* and from then on it finds one (the test of Get...EventId).
TypeOK ==
    /\ eventIdCounter \in 0..MaxIds
    /\ eventIds \in [Kinds -> 0..MaxIds]
    /\ eventFunctionsRegister \in [1..MaxIds -> Seq(DOMAIN ListensTo)]
    /\ mainPc \in 1..(Len(Main) + 1)
    /\ job \in [Threads -> Jobs \cup {NoJob}]
    /\ IsABag(spawned)
    /\ BagToSet(spawned) \subseteq [listener : Stateful, event : Events]
    /\ published \in {NoValue, "active", "activation error", "inactive", "deactivation error"}
    /\ stm32Said \subseteq {"BUZZER_ENABLE", "BUZZER_DISABLE"}

\* CallRegisteredEventFunctions only ever starts a listener for an event of
\* the kind it registered for: the listeners under the id of an event are
\* listeners of that event, and so are the goroutines started.  The ids are
\* created on first use by threads that do not wait for each other
\* (Get...EventId has no lock), so an event may get two ids and a thread
\* may use the id another created; the mutex of CreateEventId is what keeps
\* an id from standing for two events.
NoCrossDelivery ==
    /\ \A kind \in Kinds :
           eventIds[kind] # 0 =>
               \A listener \in Range(eventFunctionsRegister[eventIds[kind]]) :
                   ListensTo[listener] = kind
    /\ \A invocation \in BagToSet(spawned) :
           ListensTo[invocation.listener] = invocation.event.kind

\* The buzzer status published last is one the STM32 vouched for: "active"
\* only if it answered a BUZZER_ENABLE, "inactive" only if it answered or
\* reported a BUZZER_DISABLE.  A command that timed out is published as an
\* error (activateBuzzerByTamper lines 15-17 and 25-27, sendBuzzerEvent).
BuzzerStatusVouchedFor ==
    /\ published = "active" => "BUZZER_ENABLE" \in stm32Said
    /\ published = "inactive" => "BUZZER_DISABLE" \in stm32Said

=============================================================================
