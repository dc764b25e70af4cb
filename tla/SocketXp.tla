------------------------------ MODULE SocketXp -----------------------------
(***************************************************************************)
(* The provisioning of the SocketXP tunnel, socketxp/socketxp.go.  The     *)
(* broker sends the device's credentials; UpdateCredentialsCallback        *)
(* compares them with the two files the tunnel service reads (config.json, *)
(* derived from the device name, and device.key), rewrites both if either  *)
(* differs and restarts the service.  Every step can fail, and the broker  *)
(* delivers the credentials again on every reconnect.                      *)
(*                                                                         *)
(* IsConnected runs on another goroutine (a request of the HTTP API, or    *)
(* the scheduler's job every five minutes): it reads the same two files,   *)
(* asks for the state of the service, reads device.key again and calls the *)
(* tunnel's address under the name it read, while the callback may be      *)
(* rewriting the files and restarting the service between any two of its   *)
(* steps.                                                                  *)
(***************************************************************************)
EXTENDS Naturals

CONSTANTS
    Names,      \* device names
    Secrets,    \* what else is in a device key (id, key, group)
    None,       \* a file that is missing or does not parse: the zero value
    Stopped     \* the service when it does not run

VARIABLES
    socketPc,      \* "idle", "workdir", "config", "key", "restart"
    receivedKey,   \* the credentials of the last message that decoded
    configFile,    \* the device name config.json is written for
    keyFile,       \* the contents of device.key
    service,       \* the files the running service has read
    outcome,       \* how the last callback ended
    Handler,       \* whether InitSocketXP has set the package's Handler
    checkPc,       \* IsConnected: "idle", "key", "service", "ping", "head"
    autoPingURL,   \* the device name in the address checkSocketXpConnectivity calls
    answer         \* what the last IsConnected returned

callbackVars == <<socketPc, receivedKey, outcome>>
fileVars     == <<configFile, keyFile, service>>
checkVars    == <<checkPc, autoPingURL, answer>>

vars == <<callbackVars, fileVars, Handler, checkVars>>

\* deviceKey, with the fields the comparison tells apart.
DeviceKeys == [DeviceName : Names, DeviceKey : Secrets]

Outcomes == {"none", "undecodable", "unchanged", "files failed", "restart failed", "updated"}

\* The strings of IsConnected; all but "connected" come with an error.
Answers == {"none", "monitoring error", "not provisioned", "stopped", "not working",
            "connected"}

\* What client.Head can come back with.
Responses == {"error", "2xx", "other"}

createConfigJsonWholeKey(key) == key

\* createConfigJson: the configuration is a function of the device name.
createConfigJson(key) == key.DeviceName

\* What the service reads when it starts.
Files == [config |-> configFile, key |-> keyFile]

-----------------------------------------------------------------------------
\* The process starts: the device is not provisioned, or is and its service
\* runs. The HTTP API is started before InitSocketXP (main.go 43 and 51).
Init ==
    /\ socketPc = "idle"
    /\ receivedKey = None
    /\ \E key \in DeviceKeys \cup {None} :
        /\ keyFile = key
        /\ configFile = IF key = None THEN None ELSE createConfigJson(key)
    /\ service = Files
    /\ outcome = "none"
    /\ Handler = FALSE
    /\ checkPc = "idle"
    /\ autoPingURL = None
    /\ answer = "none"

InitSocketXP ==
    /\ ~Handler
    /\ Handler' = TRUE
    /\ UNCHANGED <<callbackVars, fileVars, checkVars>>

\* The callback is subscribed after InitSocketXP (main.go 61) and runs on the
\* MQTT router, one message at a time.
Delivered == Handler /\ socketPc = "idle"

\* decodeMessage fails: the payload is no JSON or lacks a field.
Undecodable ==
    /\ Delivered
    /\ outcome' = "undecodable"
    /\ UNCHANGED <<socketPc, receivedKey, fileVars, Handler, checkVars>>

\* The comparison of the callback: both files as the message would have them.
\* A file that cannot be loaded compares as the zero value.
UpToDate(key) == configFile = createConfigJson(key) /\ keyFile = key

\* UpdateCredentialsCallback finds the files as the message would have them.
Unchanged(key) ==
    /\ Delivered
    /\ UpToDate(key)
    /\ receivedKey' = key
    /\ outcome' = "unchanged"
    /\ UNCHANGED <<socketPc, fileVars, Handler, checkVars>>

\* UpdateCredentialsCallback finds a difference and goes on to write.
UpdateCredentialsCallback(key) ==
    /\ Delivered
    /\ ~UpToDate(key)
    /\ receivedKey' = key
    /\ outcome' = "none"
    /\ socketPc' = "workdir"
    /\ UNCHANGED <<fileVars, Handler, checkVars>>

ThenGoesOn(step, ok, next) ==
    /\ socketPc = step
    /\ socketPc' = next
    /\ UNCHANGED outcome

\* A step of updateCredentialsFiles: on success the next one follows, on
\* failure the callback returns.
Then(step, ok, next) ==
    /\ socketPc = step
    /\ socketPc' = IF ok THEN next ELSE "idle"
    /\ outcome' = IF ok THEN outcome ELSE "files failed"

createWorkDir(ok) ==
    /\ Then("workdir", ok, "config")
    /\ UNCHANGED <<receivedKey, fileVars, Handler, checkVars>>

\* os.WriteFile writes the file, or fails and leaves it as it was or cut.
createConfigJsonFile(ok, left) ==
    /\ Then("config", ok, "key")
    /\ left \in {configFile, None}
    /\ configFile' = IF ok THEN createConfigJson(receivedKey) ELSE left
    /\ UNCHANGED <<receivedKey, keyFile, service, Handler, checkVars>>

createDeviceKeyFile(ok, left) ==
    /\ Then("key", ok, "restart")
    /\ left \in {keyFile, None}
    /\ keyFile' = IF ok THEN receivedKey ELSE left
    /\ UNCHANGED <<receivedKey, configFile, service, Handler, checkVars>>

\* restartSocketXp: the service starts anew and reads the files, or the
\* command fails and the service is as it was or does not run.
restartSocketXp(ok, left) ==
    /\ socketPc = "restart"
    /\ socketPc' = "idle"
    /\ left \in {service, Stopped}
    /\ service' = IF ok THEN Files ELSE left
    /\ outcome' = IF ok THEN "updated" ELSE "restart failed"
    /\ UNCHANGED <<receivedKey, configFile, keyFile, Handler, checkVars>>

-----------------------------------------------------------------------------
(* IsConnected *)

\* IsConnected returns value and error at once.
Answer(value) ==
    /\ checkPc' = "idle"
    /\ answer' = value

\* A check of IsConnected: when it holds the next check follows, otherwise
\* IsConnected returns the value that names the failure.
Check(step, holds, next, failure) ==
    /\ checkPc = step
    /\ IF holds THEN checkPc' = next /\ answer' = "none"
                ELSE Answer(failure)
    /\ UNCHANGED <<callbackVars, fileVars, Handler, autoPingURL>>

\* IsConnected before InitSocketXP.
IsConnectedNoHandler ==
    /\ checkPc = "idle"
    /\ ~Handler
    /\ Answer("monitoring error")
    /\ UNCHANGED <<callbackVars, fileVars, Handler, autoPingURL>>

\* The files the callback writes have a work directory, a tunnel and every
\* field of the key: a file is invalid when it is missing or cut.
configJsonFileIsValid == configFile # None

deviceKeyFileIsValid == keyFile # None

\* IsConnected up to the first half of checkSocketXpFiles.
IsConnected ==
    /\ Handler
    /\ Check("idle", configJsonFileIsValid, "key", "not provisioned")

\* The second half of checkSocketXpFiles, a read of its own.
checkSocketXpFiles ==
    Check("key", deviceKeyFileIsValid, "service", "not provisioned")

\* checkSocketXpService: the command fails, or says what the service does.
checkSocketXpService(ok) ==
    Check("service", ok /\ service # Stopped, "ping", "stopped")

\* The tunnel's address answers a request when the service runs with the
\* configuration of that device name.
TunnelUp(name) == service # Stopped /\ service.config = name

\* checkSocketXpConnectivity, up to the address: device.key is read again,
\* for the name to call.  Without the file there is no call.
checkSocketXpConnectivity ==
    /\ checkPc = "ping"
    /\ IF keyFile = None
           THEN Answer("not working") /\ UNCHANGED autoPingURL
           ELSE checkPc' = "head" /\ answer' = "none"
                /\ autoPingURL' = keyFile.DeviceName
    /\ UNCHANGED <<callbackVars, fileVars, Handler>>

\* client.Head, which fails, times out after 5 s or has a status, of the
\* service as the request finds it; only a status of 200 to 299 is a
\* connection.  IsConnected returns what the check found.
Head(response) ==
    /\ checkPc = "head"
    /\ response = "2xx" => TunnelUp(autoPingURL)
    /\ Answer(IF response = "2xx" THEN "connected" ELSE "not working")
    /\ autoPingURL' = None
    /\ UNCHANGED <<callbackVars, fileVars, Handler>>

\* The board reboots or the process is restarted, at any moment: the service
\* starts with the files as they are, and the callback begins afresh.
Reboot ==
    /\ socketPc' = "idle"
    /\ receivedKey' = None
    /\ service' = Files
    /\ outcome' = "none"
    /\ Handler' = FALSE
    /\ checkPc' = "idle"
    /\ autoPingURL' = None
    /\ answer' = "none"
    /\ UNCHANGED <<configFile, keyFile>>

Next ==
    \/ InitSocketXP
    \/ Undecodable
    \/ \E key \in DeviceKeys : Unchanged(key) \/ UpdateCredentialsCallback(key)
    \/ \E ok \in BOOLEAN : createWorkDir(ok)
    \/ \E ok \in BOOLEAN, left \in Names \cup {None} : createConfigJsonFile(ok, left)
    \/ \E ok \in BOOLEAN, left \in DeviceKeys \cup {None} : createDeviceKeyFile(ok, left)
    \/ \E ok \in BOOLEAN : \E left \in {service, Stopped} : restartSocketXp(ok, left)
    \/ IsConnectedNoHandler
    \/ IsConnected
    \/ checkSocketXpFiles
    \/ \E ok \in BOOLEAN : checkSocketXpService(ok)
    \/ checkSocketXpConnectivity
    \/ \E response \in Responses : Head(response)
    \/ Reboot

Spec == Init /\ [][Next]_vars

-----------------------------------------------------------------------------
\* The type invariant.
TypeOK ==
    /\ socketPc \in {"idle", "workdir", "config", "key", "restart"}
    /\ receivedKey \in DeviceKeys \cup {None}
    /\ configFile \in Names \cup {None}
    /\ keyFile \in DeviceKeys \cup {None}
    /\ service \in [config : Names \cup {None}, key : DeviceKeys \cup {None}] \cup {Stopped}
    /\ outcome \in Outcomes
    /\ Handler \in BOOLEAN
    /\ checkPc \in {"idle", "key", "service", "ping", "head"}
    /\ autoPingURL \in Names \cup {None}
    /\ answer \in Answers

\* When the callback says "SocketXP have been updated", both files hold the
\* credentials of the message and the service has read them: the files are
\* written before the restart and a failure of either step ends the
\* callback (UpdateCredentialsCallback, lines 78-85).
UpdatedMeansRunning ==
    outcome = "updated" => UpToDate(receivedKey) /\ service = Files

=============================================================================
