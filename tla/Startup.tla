------------------------------- MODULE Startup ------------------------------
(***************************************************************************)
(* The start of the process, main/main.go, and the goroutines it leaves    *)
(* behind.  main loads the configuration (initializer), opens the serial   *)
(* port and starts the protocol engine (charles_communicator), starts the  *)
(* HTTP API (api), sets up the peripherals, the MQTT client                *)
(* (mqtt_connector), the updater and SocketXP, sends the OS version and    *)
(* the serial number to the STM32 (peripherals), subscribes and connects,  *)
(* and hands over to the monitor, which schedules the periodic metrics     *)
(* (monitor, scheduler).  By then requests of the API, callbacks of the    *)
(* MQTT client and jobs of the scheduler run beside it.                    *)
(*                                                                         *)
(* What a statement does inside another component is in that component's   *)
(* module (Communicator, Updater, SocketXp, Events).  Here a call of the   *)
(* STM32 is one step with its answer, or the step in which the engine      *)
(* drops the request, and only what the order of start-up                  *)
(* depends on is kept: which pointers are set, whether the port can be     *)
(* used, what the EEPROM was told, what is subscribed and scheduled.  What  *)
(* is read from the board is a function of HostInfo on the board as the    *)
(* call finds it, which may be another board at the next call.             *)
(***************************************************************************)
EXTENDS HostInfo, FiniteSets

CONSTANTS
    ConfigFiles,     \* what -config may name: files, NoFile, Unreadable
    NoFile,          \* no -config argument
    Unreadable,      \* a file goIni.Load rejects
    Boards,          \* the board as a call may find it
    RouteBoards,     \* the routes and links GetPriorityRoute is checked on
    MaxData,         \* the longest device id EncryptAES256ECB is checked on
    OpenMayFail,     \* whether OpenPort after a flash may fail
    MaxDeliveries    \* announcements of an STM32 firmware by the broker

VARIABLES
    mainPc,          \* the statement of main that is next, as index in Program
    process,         \* "running", or how the process ended
    mainBlocked,     \* main waits in SendMessage for a request that was dropped
    ini,             \* initializer.ini
    port,            \* CCHandler.port and ValidPort: "nil", "open", "closed"
    ready,           \* what main has brought up: the engine, and the packages
                     \* whose pointer (CCHandler, Handler, client...) is set
    eeprom,          \* the STM32's EEPROM: write protection, serial number
    serialResult,    \* what SetSerialNumber returns
    apiPc,           \* api.Start: "no", "starting", "listening", "returned"
    apiResponse,     \* how the last request of the API ended
    subscriptions,   \* mqtt_connector.subscriptions
    connection,      \* the MQTT client: "none", "connected", "lost"
    subscribing,     \* whether an OnConnect has still to run SubscribeAll
    routes,          \* the topics the client hands to a callback
    routerPc,        \* the MQTT router: "idle" or "flashing"
    deliveries,      \* how many announcements the broker has delivered
    jobs,            \* the functions the scheduler has a job for
    published        \* the metrics published so far

mainVars   == <<mainPc, process, mainBlocked>>
eepromVars == <<eeprom, serialResult>>
apiVars    == <<apiPc, apiResponse>>
mqttVars   == <<subscriptions, connection, subscribing, routes, routerPc, deliveries>>

monitorVars == <<jobs, published>>

vars == <<mainVars, ini, port, ready, eepromVars, apiVars, mqttVars, monitorVars>>

-----------------------------------------------------------------------------
(* initializer *)

\* A key of the file: a boolean, or absent or not a boolean.
Raw == {"true", "false", "invalid"}

\* The LABEL of the file: none, or the name the device goes by.
Labels == {"", "bench"}

Files == [SUPERVISOR : Raw, MQTT : Raw, STM32 : Raw, HLK7628 : Raw, LABEL : Labels]

Config == [supervisor : BOOLEAN, mqtt : BOOLEAN, stm32 : BOOLEAN, hlk7628 : BOOLEAN,
           label : Labels]

\* The ini of a process that has not loaded anything: Go's zero values.
ZeroConfig ==
    [supervisor |-> FALSE, mqtt |-> FALSE, stm32 |-> FALSE, hlk7628 |-> FALSE,
     label |-> ""]

initializeDefaultConfig ==
    [supervisor |-> TRUE, mqtt |-> TRUE, stm32 |-> TRUE, hlk7628 |-> TRUE,
     label |-> ""]

\* getBoolValue: the key's value, or the default with an error that is logged.
getBoolValue(raw, defaultValue) ==
    IF raw \in {"true", "false"} THEN raw = "true" ELSE defaultValue

\* loadSupervisorConfig, loadDeviceConfig, loadMqttConfig, loadUpdaterConfig.
loadConfig(file) ==
    [supervisor |-> getBoolValue(file.SUPERVISOR, TRUE),
     mqtt       |-> getBoolValue(file.MQTT, TRUE),
     stm32      |-> getBoolValue(file.STM32, TRUE),
     hlk7628    |-> getBoolValue(file.HLK7628, TRUE),
     label      |-> file.LABEL]

-----------------------------------------------------------------------------
(* main *)

\* main with the connection to the broker made before the updater and
\* SocketXP are initialised.
ProgramConnectsEarly ==
    <<"LoadConfig", "GetDeviceId", "InitCC", "Start", "ApiStart", "Setup", "Banner",
      "InitMQTTClient", "RegisterSocketXp", "RegisterHlk7628", "RegisterStm32",
      "Connect", "InitUpdater", "InitSocketXP", "SetOsVersion",
      "DisableWriteProtection", "WriteSerialNumber", "EnableWriteProtection",
      "MonitorListeners", "MonitorPublish", "InitScheduler", "ScheduleSocketXp",
      "ScheduleSystem", "SchedulePeripherals">>

\* The statements of main, and of Monitor which it calls last, in their order.
Program ==
    <<"LoadConfig", "GetDeviceId", "InitCC", "Start", "ApiStart", "Setup", "Banner",
      "InitMQTTClient", "InitUpdater", "InitSocketXP", "SetOsVersion",
      "DisableWriteProtection", "WriteSerialNumber", "EnableWriteProtection",
      "RegisterSocketXp", "RegisterHlk7628", "RegisterStm32", "Connect",
      "MonitorListeners", "MonitorPublish", "InitScheduler", "ScheduleSocketXp",
      "ScheduleSystem", "SchedulePeripherals">>

\* The end of Monitor, one statement too far.
WaitingPastTheEnd == Len(Program) + 2

\* main in wg.Wait.
Waiting == Len(Program) + 1

Index(statement) == CHOOSE i \in DOMAIN Program : Program[i] = statement

Running == process = "running"

At(statement) ==
    /\ Running
    /\ ~mainBlocked
    /\ mainPc \in DOMAIN Program
    /\ Program[mainPc] = statement

Proceed == mainPc' = mainPc + 1 /\ UNCHANGED <<process, mainBlocked>>

\* The process ends: Logger.Fatal, or a panic nothing recovers.
Die(how) == process' = how /\ UNCHANGED <<mainPc, mainBlocked>>

-----------------------------------------------------------------------------
(* The STM32 as its callers see it *)

\* What comes out of SendMessage's channel: a RESP with a payload, a RESP
\* with an empty one, an ERROR, or the TIMEOUT of the sweep.
Results == {"data", "empty", "error", "timeout"}

\* returnStringDataAndError: an empty payload is an error like a timeout.
returnStringDataAndError(result) == result = "data"

\* The engine that answers whether or not the port can be used.
ServedWhenStarted == "engine" \in ready

\* The engine writes a request and reads its answer only while the port is
\* valid; with an invalid port it sleeps and does not sweep either.
Served == "engine" \in ready /\ port = "open"

\* SendMessage returns result: at once with an error when the supervisor is
\* disabled, and else when the engine has had the answer or the timeout.
SendMessage(result) ==
    IF ini.supervisor THEN Served ELSE result = "error"

\* sendMessageIfExists drops the request of a SendMessage: it does not
\* encode, or its write fails, as it does when a flash closes the port
\* between the test of ValidPort and the write.  Nothing is sent on the
\* channel the caller receives from any more.
Dropped == ini.supervisor /\ Served

\* Whether the STM32 carried the command out: it did when it answers with a
\* RESP, it did not when it answers ERROR or was never asked, and with a
\* timeout either is possible (the answer was late or lost).
Executes(result, effect) ==
    /\ result \in {"data", "empty"} => effect
    /\ (result = "error" \/ ~ini.supervisor) => ~effect

\* The functions behind the routes of the API and the jobs of the scheduler:
\* those of peripherals, IsConnected, and those that read the system
\* (device_info, network_info).
Functions == {"peripheral", "socketxp", "system"}

\* The functions of device_info and network_info behind the routes of the
\* API and the jobs of the scheduler, with what each returns on a board.
System(board) ==
    [GetDeviceId             |-> GetDeviceId(ini.label, board),
     GetOSVersion            |-> GetOSVersion(board),
     GetPriorityRoute        |-> GetPriorityRoute(board),
     GetModemInterfaceStatus |-> GetModemInterfaceStatus(board),
     GetWiredInterfaceStatus |-> GetWiredInterfaceStatus(board)]

\* function returns result: a function of peripherals is a SendMessage,
\* IsConnected wants socketxp.Handler, a function of the system returns what
\* the board has, and nothing but a SendMessage times out.
Returns(function, result) ==
    /\ function = "peripheral" => SendMessage(result)
    /\ function = "socketxp" /\ "socketxp" \notin ready => result = "error"
    /\ function # "peripheral" => result \in {"data", "error"}
    /\ function = "system" =>
           \E board \in Boards : \E f \in DOMAIN System(board) :
               (result = "error") <=> (System(board)[f] = Error)

-----------------------------------------------------------------------------
Init ==
    /\ mainPc = 1
    /\ process = "running"
    /\ mainBlocked = FALSE
    /\ ini = ZeroConfig
    /\ port = "nil"
    /\ ready = {}
    /\ eeprom = [protected |-> TRUE, serial |-> FALSE]
    /\ serialResult = "none"
    /\ apiPc = "no"
    /\ apiResponse = "none"
    /\ subscriptions = {}
    /\ connection = "none"
    /\ subscribing = FALSE
    /\ routes = {}
    /\ routerPc = "idle"
    /\ deliveries = 0
    /\ jobs = {}
    /\ published = {}

\* LoadConfig: defaults without a file, Fatalln on a file that does not load.
LoadConfig(file) ==
    /\ At("LoadConfig")
    /\ \/ file = Unreadable /\ Die("fatal") /\ UNCHANGED ini
       \/ file = NoFile /\ ini' = initializeDefaultConfig /\ Proceed
       \/ file \in Files /\ ini' = loadConfig(file) /\ Proceed
    /\ UNCHANGED <<port, ready, eepromVars, apiVars, mqttVars, monitorVars>>

\* main.go 31-35: without a device id the process ends.
MainGetDeviceId(board) ==
    /\ At("GetDeviceId")
    /\ IF GetDeviceId(ini.label, board) # Error THEN Proceed ELSE Die("fatal")
    /\ UNCHANGED <<ini, port, ready, eepromVars, apiVars, mqttVars, monitorVars>>

\* InitCC: OpenPort's result is not looked at; after a failure the handler
\* has no port.
InitCC(opened) ==
    /\ At("InitCC")
    /\ port' = IF opened THEN "open" ELSE "nil"
    /\ Proceed
    /\ UNCHANGED <<ini, ready, eepromVars, apiVars, mqttVars, monitorVars>>

\* A statement that brings one thing up and changes nothing else start-up
\* depends on: go CCHandler.Start(), peripherals.Setup (CCHandler),
\* InitSocketXP (Handler), and the head of Monitor, which takes the client
\* and registers its five listeners.
Sets(statement, what) ==
    /\ At(statement)
    /\ ready' = ready \cup {what}
    /\ Proceed
    /\ UNCHANGED <<ini, port, eepromVars, apiVars, mqttVars, monitorVars>>

\* go api.Start()
GoApiStart ==
    /\ At("ApiStart")
    /\ apiPc' = "starting"
    /\ Proceed
    /\ UNCHANGED <<ini, port, ready, eepromVars, apiResponse, mqttVars, monitorVars>>

\* A statement of main that is a call of the STM32 whose answer is only logged:
\* Banner (GetFirmwareVersion) and SetOsVersion.
Calls(statement, result) ==
    /\ At(statement)
    /\ SendMessage(result)
    /\ Proceed
    /\ UNCHANGED <<ini, port, ready, eepromVars, apiVars, mqttVars, monitorVars>>

\* InitMQTTClient: GetDeviceId at most three times, on the board as the last
\* of them finds it, a panic after the third failure, and else the client
\* with OnConnect = SubscribeAll.
InitMQTTClient(board) ==
    /\ At("InitMQTTClient")
    /\ IF GetDeviceId(ini.label, board) # Error
           THEN ready' = ready \cup {"mqtt"} /\ Proceed
           ELSE Die("no device id") /\ UNCHANGED ready
    /\ UNCHANGED <<ini, port, eepromVars, apiVars, mqttVars, monitorVars>>

\* InitUpdater: the Handler and its topics; then the OS version, without which
\* it returns, and the firmware version, asked of the STM32.
InitUpdater(board, result) ==
    /\ At("InitUpdater")
    /\ GetOSVersion(board) # Error => SendMessage(result)
    /\ ready' = ready \cup {"updater"}
    /\ Proceed
    /\ UNCHANGED <<ini, port, eepromVars, apiVars, mqttVars, monitorVars>>

\* The statements of main that call SendMessage: utils.Banner, InitUpdater,
\* SetOsVersion, the three calls of SetSerialNumber, and Monitor.
CallsOfMain ==
    {"Banner", "InitUpdater", "SetOsVersion", "DisableWriteProtection",
     "WriteSerialNumber", "EnableWriteProtection", "MonitorPublish"}

\* The engine drops the request main waits for: main stays in the receive of
\* SendMessage (line 371) for ever, and the goroutines it started go on.
MainRequestDropped ==
    /\ \E statement \in CallsOfMain : At(statement)
    /\ At("InitUpdater") => \E board \in Boards : GetOSVersion(board) # Error
    /\ Dropped
    /\ mainBlocked' = TRUE
    /\ UNCHANGED <<mainPc, process, ini, port, ready, eepromVars, apiVars, mqttVars,
                   monitorVars>>

\* The engine's Read fails, on the line or because a flash closed the port
\* under it: ClosePort, 2 s, and OpenPort, whose result is not looked at
\* (Start, lines 74 to 78).  With a port that is not valid the engine sleeps
\* and does not read.
EngineReopensPort(opened) ==
    /\ Running
    /\ ini.supervisor
    /\ "engine" \in ready
    /\ port = "open" \/ (port = "closed" /\ routerPc = "flashing")
    /\ port' = IF opened THEN "open" ELSE "closed"
    /\ UNCHANGED <<mainVars, ini, ready, eepromVars, apiVars, mqttVars, monitorVars>>

-----------------------------------------------------------------------------
(* peripherals.SetSerialNumber *)

\* A call of SetSerialNumber: the STM32 does what it is told when it carries
\* the command out.
Tells(statement, result, effect) ==
    /\ At(statement)
    /\ SendMessage(result)
    /\ Executes(result, effect)
    /\ UNCHANGED <<process, mainBlocked, ini, port, ready, apiVars, mqttVars, monitorVars>>

\* SetSerialNumber returns.
Return == mainPc' = Index("EnableWriteProtection") + 1

\* setEepromDisableWriteProtection; on an error SetSerialNumber returns.
DisableWriteProtection(result, effect) ==
    /\ Tells("DisableWriteProtection", result, effect)
    /\ eeprom' = [eeprom EXCEPT !.protected = @ /\ ~effect]
    /\ IF returnStringDataAndError(result)
           THEN mainPc' = mainPc + 1 /\ UNCHANGED serialResult
           ELSE Return /\ serialResult' = "unable to disable write protection"

\* SetSerialNumber that returns when the serial number is refused.
WriteSerialNumberReturnsOnError(result, effect) ==
    /\ Tells("WriteSerialNumber", result, effect)
    /\ eeprom' = [eeprom EXCEPT !.serial = @ \/ effect]
    /\ IF returnStringDataAndError(result)
           THEN mainPc' = mainPc + 1 /\ serialResult' = "written"
           ELSE Return /\ serialResult' = "error"

\* The SET of the serial number; data and erro are kept for the return.
WriteSerialNumber(result, effect) ==
    /\ Tells("WriteSerialNumber", result, effect)
    /\ eeprom' = [eeprom EXCEPT !.serial = @ \/ effect]
    /\ serialResult' = IF returnStringDataAndError(result) THEN "written" ELSE "error"
    /\ mainPc' = mainPc + 1

\* setEepromEnableWriteProtection, and SetSerialNumber's return.
EnableWriteProtection(result, effect) ==
    /\ Tells("EnableWriteProtection", result, effect)
    /\ eeprom' = [eeprom EXCEPT !.protected = @ \/ effect]
    /\ serialResult' = IF returnStringDataAndError(result) THEN serialResult
                       ELSE "unable to enable write protection"
    /\ Return

-----------------------------------------------------------------------------
(* mqtt_connector *)

Topics == {"socketxp", "hlk7628", "stm32"}

\* The package whose Handler the callback of a topic reads.
HandlerOf == [socketxp |-> "socketxp", hlk7628 |-> "updater", stm32 |-> "updater"]

\* main.go 61 to 63: the topic each statement registers.
Registers ==
    [RegisterSocketXp |-> "socketxp", RegisterHlk7628 |-> "hlk7628",
     RegisterStm32 |-> "stm32"]

\* RegisterSubscription that makes the map anew.
RegisterSubscriptionAnew(statement) ==
    /\ At(statement)
    /\ subscriptions' = {Registers[statement]}
    /\ Proceed
    /\ UNCHANGED <<ini, port, ready, eepromVars, apiVars, connection, subscribing,
                   routes, routerPc, deliveries, monitorVars>>

RegisterSubscription(statement) ==
    /\ At(statement)
    /\ subscriptions' = subscriptions \cup {Registers[statement]}
    /\ Proceed
    /\ UNCHANGED <<ini, port, ready, eepromVars, apiVars, connection, subscribing,
                   routes, routerPc, deliveries, monitorVars>>

\* The client has a connection and starts OnConnect.
Connected ==
    /\ connection' = "connected"
    /\ subscribing' = TRUE
    /\ UNCHANGED <<ini, port, ready, eepromVars, apiVars, subscriptions, routes,
                   routerPc, deliveries, monitorVars>>

\* Connect that does not leave its loop.
ConnectWithoutBreak == At("Connect") /\ Connected /\ UNCHANGED mainVars

\* Connect: the attempt that succeeds ends the loop; one that fails is made
\* again after 5 s and changes nothing, so it is no step.
Connect == At("Connect") /\ Connected /\ Proceed

\* SetAutoReconnect(true): the client connects again and calls OnConnect.
Reconnect == Running /\ connection = "lost" /\ Connected /\ UNCHANGED mainVars

\* The connection breaks (OnConnectionLost logs it).
ConnectionLost ==
    /\ Running
    /\ connection = "connected"
    /\ connection' = "lost"
    /\ UNCHANGED <<mainVars, ini, port, ready, eepromVars, apiVars, subscriptions,
                   subscribing, routes, routerPc, deliveries, monitorVars>>

\* SubscribeAll, on the goroutine of OnConnect: a Subscribe and a Wait for
\* every topic of the map.  Without a connection the tokens have an error,
\* which is not looked at.  The loop is one step: the connection is taken to
\* last, or to be lost, for all of its topics.
SubscribeAll ==
    /\ Running
    /\ subscribing
    /\ subscribing' = FALSE
    /\ routes' = IF connection = "connected" THEN routes \cup subscriptions ELSE routes
    /\ UNCHANGED <<mainVars, ini, port, ready, eepromVars, apiVars, subscriptions,
                   connection, routerPc, deliveries, monitorVars>>

\* UpdaterStm32Callback for a version that differs from the recorded one:
\* ClosePort, which calls Flush on the port and panics when there is none.
UpdaterStm32Callback ==
    /\ Running
    /\ connection = "connected"
    /\ "stm32" \in routes
    /\ routerPc = "idle"
    /\ deliveries < MaxDeliveries
    /\ deliveries' = deliveries + 1
    /\ IF port = "nil"
           THEN Die("nil port") /\ UNCHANGED <<port, routerPc>>
           ELSE port' = "closed" /\ routerPc' = "flashing" /\ UNCHANGED mainVars
    /\ UNCHANGED <<ini, ready, eepromVars, apiVars, subscriptions, connection,
                   subscribing, routes, monitorVars>>

OpenOutcomes == IF OpenMayFail THEN BOOLEAN ELSE {TRUE}

\* updateDevice has returned: OpenPort, whose result is not looked at.
OpenPortAfterFlash(opened) ==
    /\ Running
    /\ routerPc = "flashing"
    /\ routerPc' = "idle"
    /\ port' = IF opened THEN "open" ELSE "closed"
    /\ UNCHANGED <<mainVars, ini, ready, eepromVars, apiVars, subscriptions,
                   connection, subscribing, routes, deliveries, monitorVars>>

-----------------------------------------------------------------------------
(* monitor and scheduler *)

\* Monitor publishes the versions before it schedules anything: that of the
\* program, which is a constant, and that of the firmware if the STM32 tells.
MonitorPublish(result) ==
    /\ At("MonitorPublish")
    /\ SendMessage(result)
    /\ published' = published \cup {"system"} \cup
                        {f \in {"peripheral"} : returnStringDataAndError(result)}
    /\ Proceed
    /\ UNCHANGED <<ini, port, ready, eepromVars, apiVars, mqttVars, jobs>>

\* InitScheduler; when it fails Monitor returns and nothing is scheduled.
InitScheduler(created) ==
    /\ At("InitScheduler")
    /\ IF created THEN ready' = ready \cup {"scheduler"} /\ Proceed
                  ELSE mainPc' = Waiting /\ UNCHANGED <<process, mainBlocked, ready>>
    /\ UNCHANGED <<ini, port, eepromVars, apiVars, mqttVars, monitorVars>>

\* The function each group of RegisterFunctionToSchedule in Monitor schedules.
Schedules ==
    [ScheduleSocketXp |-> "socketxp", ScheduleSystem |-> "system",
     SchedulePeripherals |-> "peripheral"]

\* RegisterFunctionToSchedule: a job every five minutes for a function
\* called with as many parameters as it has, if there is a scheduler and
\* NewJob makes one.  Monitor does not look at what it returns.
RegisterFunctionToSchedule(statement, created) ==
    /\ At(statement)
    /\ jobs' = IF "scheduler" \in ready /\ created
               THEN jobs \cup {Schedules[statement]} ELSE jobs
    /\ Proceed
    /\ UNCHANGED <<ini, port, ready, eepromVars, apiVars, mqttVars, published>>

\* A job runs, on a goroutine of its own: publishMetricFromFunction, which
\* publishes the metric when its function returns no error.  A job whose
\* request the engine drops waits for ever and publishes nothing, which
\* changes no variable.
Job(function, result) ==
    /\ Running
    /\ "scheduler" \in ready
    /\ function \in jobs
    /\ Returns(function, result)
    /\ published' = IF returnStringDataAndError(result)
                        THEN published \cup {function} ELSE published
    /\ UNCHANGED <<mainVars, ini, port, ready, eepromVars, apiVars, mqttVars, jobs>>

-----------------------------------------------------------------------------
(* api *)

\* api.Start: returns when API_PORT is empty or no port number, or when
\* ListenAndServe fails.
ApiStart(listens) ==
    /\ Running
    /\ apiPc = "starting"
    /\ apiPc' = IF listens THEN "listening" ELSE "returned"
    /\ UNCHANGED <<mainVars, ini, port, ready, eepromVars, apiResponse, mqttVars,
                   monitorVars>>

\* A function of peripherals called before Setup has set CCHandler: with the
\* supervisor enabled SendMessage reads the handler's fields.
NilCCHandler(function) ==
    function = "peripheral" /\ ini.supervisor /\ "peripherals" \notin ready

\* handleGenericRequest: the handler's data, or status 500 with its error. A
\* panic of the handler is recovered by net/http, which drops the connection;
\* a handler whose request the engine drops never answers.
handleGenericRequest(function, result) ==
    /\ Running
    /\ apiPc = "listening"
    /\ \/ NilCCHandler(function) /\ apiResponse' = "aborted"
       \/ /\ ~NilCCHandler(function)
          /\ Returns(function, result)
          /\ apiResponse' = IF returnStringDataAndError(result) THEN "200" ELSE "500"
       \/ /\ ~NilCCHandler(function)
          /\ function = "peripheral"
          /\ Dropped
          /\ apiResponse' = "none"
    /\ UNCHANGED <<mainVars, ini, port, ready, eepromVars, apiPc, mqttVars, monitorVars>>

-----------------------------------------------------------------------------
Main ==
    \/ \E file \in ConfigFiles : LoadConfig(file)
    \/ \E board \in Boards : MainGetDeviceId(board) \/ InitMQTTClient(board)
    \/ \E opened \in BOOLEAN : InitCC(opened)
    \/ Sets("Start", "engine")
    \/ GoApiStart
    \/ Sets("Setup", "peripherals")
    \/ Sets("InitSocketXP", "socketxp")
    \/ Sets("MonitorListeners", "monitor")
    \/ \E result \in Results :
           \/ Calls("Banner", result)
           \/ Calls("SetOsVersion", result)
           \/ MonitorPublish(result)
    \/ \E board \in Boards, result \in Results : InitUpdater(board, result)
    \/ \E result \in Results, effect \in BOOLEAN :
           \/ DisableWriteProtection(result, effect)
           \/ WriteSerialNumber(result, effect)
           \/ EnableWriteProtection(result, effect)
    \/ \E statement \in DOMAIN Registers : RegisterSubscription(statement)
    \/ Connect
    \/ \E created \in BOOLEAN : InitScheduler(created)
    \/ \E statement \in DOMAIN Schedules, created \in BOOLEAN :
           RegisterFunctionToSchedule(statement, created)

\* The engine of the communicator, as far as start-up depends on it.
Engine ==
    \/ MainRequestDropped
    \/ \E opened \in OpenOutcomes : EngineReopensPort(opened)

MqttClient ==
    \/ SubscribeAll
    \/ ConnectionLost
    \/ Reconnect
    \/ UpdaterStm32Callback
    \/ \E opened \in OpenOutcomes : OpenPortAfterFlash(opened)

Others ==
    \/ \E listens \in BOOLEAN : ApiStart(listens)
    \/ \E function \in Functions, result \in Results :
           \/ handleGenericRequest(function, result)
           \/ Job(function, result)

Next == Main \/ Engine \/ MqttClient \/ Others

Spec == Init /\ [][Next]_vars

\* What the liveness of start-up assumes: main runs, the engine has the
\* STM32's answer or the timeout for every call it does not drop while the
\* port is valid, the broker is reached in the end, and a flash ends.  The
\* first two are the scheduling of Go and the sweep of the engine; the last
\* two are assumptions about the broker and the flashing script, which the
\* code does not guarantee.
FairSpec ==
    /\ Spec
    /\ WF_vars(Main)
    /\ WF_vars(\E opened \in OpenOutcomes : OpenPortAfterFlash(opened))

-----------------------------------------------------------------------------
\* The type invariant.
TypeOK ==
    /\ mainPc \in 1..(Len(Program) + 1)
    /\ process \in {"running", "fatal", "no device id", "nil port"}
    /\ mainBlocked \in BOOLEAN
    /\ ini \in Config
    /\ port \in {"nil", "open", "closed"}
    /\ ready \subseteq {"engine", "peripherals", "mqtt", "updater", "socketxp",
                        "monitor", "scheduler"}
    /\ eeprom \in [protected : BOOLEAN, serial : BOOLEAN]
    /\ serialResult \in {"none", "written", "error", "unable to disable write protection",
                         "unable to enable write protection"}
    /\ apiPc \in {"no", "starting", "listening", "returned"}
    /\ apiResponse \in {"none", "200", "500", "aborted"}
    /\ subscriptions \subseteq Topics
    /\ connection \in {"none", "connected", "lost"}
    /\ subscribing \in BOOLEAN
    /\ routes \subseteq Topics
    /\ routerPc \in {"idle", "flashing"}
    /\ deliveries \in 0..MaxDeliveries
    /\ jobs \subseteq Functions
    /\ published \subseteq Functions

\* A callback of the MQTT client reads the Handler of its package
\* (UpdaterStm32Callback, UpdaterHlk7628Callback, UpdateCredentialsCallback),
\* and main reads it for the topic (main.go 61 to 63): no topic is registered
\* or routed before InitUpdater, InitSocketXP and InitMQTTClient have run,
\* whatever the broker and the other goroutines do in between.
CallbacksFindHandlers ==
    \A topic \in subscriptions \cup routes :
        {"mqtt", HandlerOf[topic]} \subseteq ready

\* ClosePort dereferences CCHandler.port, which InitCC leaves nil when the
\* port does not open (charles_communicator.go 36 and 29). With the
\* supervisor enabled no callback gets that far: main waits in its first
\* SendMessage (utils.Banner) for an engine that waits for a valid port, and
\* never connects to the broker.
NilPortOnlyUnsupervised ==
    process = "nil port" => ~ini.supervisor

\* SetSerialNumber (stm32_info.go 20 to 32) switches the write protection of
\* the EEPROM off and on around the write. When it has returned, an EEPROM
\* left writable is one it reported (the STM32 switched the protection off
\* and its answer was late, lost or empty, or the protection could not be
\* switched on again), and a serial number reported written is written and
\* protected.
WritableEepromIsReported ==
    mainPc > Index("EnableWriteProtection") =>
        /\ ~eeprom.protected =>
               serialResult \in {"unable to disable write protection",
                                 "unable to enable write protection"}
        /\ serialResult = "written" => eeprom.serial /\ eeprom.protected

\* When the client is connected and SubscribeAll has gone through the map,
\* every topic has its callback, also after the connection was lost while
\* SubscribeAll ran: main registers the three topics before Connect, and
\* OnConnect subscribes again on every reconnect (mqtt_connector.go 67 to 70
\* and 92 to 98).
SubscribedWhenSettled ==
    connection = "connected" /\ ~subscribing => routes = Topics

\* The only thing that holds main for ever, in a process whose port opened
\* or whose supervisor is disabled, is a request the engine dropped
\* (sendMessageIfExists, lines 297 to 319): otherwise main gets to its end
\* (the metrics scheduled, or Monitor returned for want of a scheduler) or
\* the process ends.  A flash that closes the port under a call of main, the
\* engine that opens it again in the middle of the flash, and a connection
\* lost while main is in Connect (mqtt_connector.go 76 to 86) only delay
\* it, provided the flash ends with a port that opens and the broker is
\* reached in the end.
StartupCompletes ==
    (mainPc = Index("Start") /\ (port = "open" \/ ~ini.supervisor))
        ~> (mainPc = Waiting \/ ~Running \/ mainBlocked)

\* The interface published as the connection in use (monitor.go, the job of
\* GetPriorityRoute) is that of the default route with the least metric, the
\* first among equals: no metric from 0 on is taken for the -1 that stands
\* for "none yet" in the loop of GetPriorityRoute (network_info.go 20 to 27),
\* and the route left at its zero value asks for interface 0, which no board
\* has.
\* The fact is one about the function and not about the state, and is
\* checked where main begins.
PriorityRouteIsLeast ==
    mainPc = 1 =>
        \A board \in RouteBoards : GetPriorityRoute(board) = LeastDefaultRoute(board)

\* The password InitMQTTClient shows the broker is the device id encrypted
\* (mqtt_connector.go 41): whoever decrypts it and takes the padding off has
\* the device id again whatever its length, a multiple of the block size
\* included (EncryptAES256ECB, utils.go 42 to 47).  Checked where main begins.
PaddingComesOff ==
    mainPc = 1 =>
        \A n \in 0..MaxData :
            LET data == [i \in 1..n |-> 0]
            IN  Unpads(Plain(EncryptAES256ECB(32, data)), data)

=============================================================================
