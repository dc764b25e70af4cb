------------------------------ MODULE Updater ------------------------------
(***************************************************************************)
(* The firmware updater of updater/updater.go.  The MQTT client calls      *)
(* UpdaterStm32Callback and UpdaterHlk7628Callback, one at a time, with    *)
(* the version the broker announces.  A callback downloads the firmware,   *)
(* verifies its checksum and applies it: to the STM32 with a flashing      *)
(* script, tried up to three times with the serial port closed, to the     *)
(* HLK7628 with sysupgrade, which reboots the board.                       *)
(*                                                                         *)
(* A step is one call that can fail; which way it goes is chosen by the    *)
(* environment.  `installed` is what the two processors really run.        *)
(***************************************************************************)
EXTENDS Integers, Sequences

CONSTANTS
    Versions,      \* firmware versions the broker may announce
    NoVersion,     \* the "" of a version never read
    Absent, Bad,   \* a local file: not there; truncated or with another checksum
    Broken,        \* a processor whose flash was cut short
    NoDevice,
    OpenMayFail,   \* whether OpenPort may fail after the flash
    MaxBlocks      \* the most blocks the server has of a file, when it was
                   \* opened and later

VARIABLES
    updaterPc,        \* "boot", "idle", "download", "copy", "verify", "apply", "trial",
                      \* "return"
    device,           \* the processor the running callback is for
    version,          \* the version it was called with
    stm32Version,     \* Handler.stm32Version
    hlk7628Version,   \* Handler.hlk7628Version
    enabled,          \* IsStm32UpdateEnabled, IsHlk7628UpdateEnabled
    localFile,        \* the downloaded file of each processor in /tmp
    installed,        \* the version each processor runs
    trials,           \* applyStm32Update's loop counter
    write_success,
    events,           \* what the running callback has told the listeners
    ValidPort,        \* CCHandler.ValidPort
    remoteFileSize,   \* downloadFileSFTP: the size Stat gave, in blocks
    totalBytesCopied, \* copyWithProgress: the blocks read so far
    written           \* the blocks written to the local file

\* The locals of a download.
copyVars == <<remoteFileSize, totalBytesCopied, written>>

vars == <<updaterPc, device, version, stm32Version, hlk7628Version, enabled,
          localFile, installed, trials, write_success, events, ValidPort, copyVars>>

Devices == {"stm32", "hlk7628"}
Events  == {"updating", "update fail", "updated"}
MAX_TRIALS == 3

\* What stays as it is while a callback goes from one call to the next.
callVars   == <<device, version>>
configVars == <<stm32Version, hlk7628Version, enabled>>

-----------------------------------------------------------------------------
\* The process starts: InitCC has opened the port, /tmp is empty.
Init ==
    /\ updaterPc = "boot"
    /\ device = NoDevice
    /\ version = NoVersion
    /\ stm32Version = NoVersion
    /\ hlk7628Version = NoVersion
    /\ enabled \in [Devices -> BOOLEAN]
    /\ localFile = [d \in Devices |-> Absent]
    /\ installed \in [Devices -> Versions]
    /\ trials = 0
    /\ write_success = FALSE
    /\ events = <<>>
    /\ ValidPort = TRUE
    /\ remoteFileSize = 0
    /\ totalBytesCopied = 0
    /\ written = 0

\* InitUpdater.  Both versions are recorded only if both were read: the OS
\* version from a file, the STM32's with a request that may time out.
InitUpdater(read) ==
    /\ updaterPc = "boot"
    /\ updaterPc' = "idle"
    /\ stm32Version' = IF read THEN installed["stm32"] ELSE NoVersion
    /\ hlk7628Version' = IF read THEN installed["hlk7628"] ELSE NoVersion
    /\ installed["stm32"] = Broken => ~read
    /\ UNCHANGED <<device, version, enabled, localFile, installed, trials,
                   write_success, events, ValidPort, copyVars>>

\* A callback finds the announced version recorded and tells the listeners.
UpToDate(d, v) ==
    /\ updaterPc = "idle"
    /\ v = IF d = "stm32" THEN stm32Version ELSE hlk7628Version
    /\ events' = <<"updated">>
    /\ UNCHANGED <<updaterPc, device, version, configVars, localFile, installed,
                   trials, write_success, ValidPort, copyVars>>

Begin(d, v) ==
    /\ updaterPc = "idle"
    /\ updaterPc' = "download"
    /\ device' = d
    /\ version' = v
    /\ events' = <<>>
    /\ UNCHANGED <<configVars, localFile, installed, trials, write_success, copyVars>>

\* UpdaterHlk7628Callback with a version other than the recorded one.
UpdaterHlk7628Callback(v) ==
    /\ v # hlk7628Version
    /\ Begin("hlk7628", v)
    /\ UNCHANGED ValidPort

\* UpdaterStm32Callback with a version other than the recorded one: the port
\* is closed before anything else.
UpdaterStm32Callback(v) ==
    /\ v # stm32Version
    /\ Begin("stm32", v)
    /\ ValidPort' = FALSE

\* The process starts anew: InitCC opens the port, nothing is recorded.
Restarted ==
    /\ updaterPc' = "boot"
    /\ device' = NoDevice
    /\ version' = NoVersion
    /\ stm32Version' = NoVersion
    /\ hlk7628Version' = NoVersion
    /\ events' = <<>>
    /\ ValidPort' = TRUE
    /\ remoteFileSize' = 0
    /\ totalBytesCopied' = 0
    /\ written' = 0
    /\ UNCHANGED <<enabled, trials, write_success>>

\* What stays as it is in a step of the download.
downloadVars == <<callVars, configVars, installed, trials, write_success, events, ValidPort>>

DownloadFailsReturns ==
    /\ updaterPc = "download"
    /\ updaterPc' = "idle"
    /\ UNCHANGED <<downloadVars, localFile, copyVars>>

\* downloadFile fails before there is a local file: the SSH connection, the
\* SFTP session, the remote file, its size or os.Create.
DownloadFails ==
    /\ updaterPc = "download"
    /\ updaterPc' = "return"
    /\ UNCHANGED <<downloadVars, localFile, copyVars>>

\* downloadFileSFTP up to the copy: the server says how long the file is and
\* os.Create makes the local file, or cuts the one that is there.
downloadFileSFTP(size) ==
    /\ updaterPc = "download"
    /\ updaterPc' = "copy"
    /\ remoteFileSize' = size
    /\ localFile' = [localFile EXCEPT ![device] = Bad]
    /\ UNCHANGED <<downloadVars, totalBytesCopied, written>>

\* What src.Read comes back with: a block or none, and nil, io.EOF or another
\* error.  A read without an error has a block.
Reads == {r \in [n : 0..1, err : {"nil", "EOF", "error"}] : r.n = 0 => r.err # "nil"}

progressBarWidth == 40

\* updateProgress: the count of the second strings.Repeat is negative when
\* more has been read than Stat announced, and the conversion of an infinite
\* progress (size 0) gives no count of a bar; either ends the process.
updateProgressPanics(total) ==
    IF remoteFileSize = 0 THEN TRUE
    ELSE progressBarWidth - (total * progressBarWidth) \div remoteFileSize < 0

\* The progress of a block goes to the goroutine of the bar, which panics:
\* the process ends and is started again, with /tmp as it is.
ProgressPanics(read) ==
    /\ updaterPc = "copy"
    /\ totalBytesCopied + read.n <= MaxBlocks
    /\ read.n > 0
    /\ updateProgressPanics(totalBytesCopied + read.n)
    /\ Restarted
    /\ UNCHANGED <<localFile, installed>>

\* A read of copyWithProgress whose progress, if it has any, is shown: the
\* server has a block more, or has not.
Read(read) ==
    /\ updaterPc = "copy"
    /\ totalBytesCopied + read.n <= MaxBlocks
    /\ read.n > 0 => ~updateProgressPanics(totalBytesCopied + read.n)
    /\ totalBytesCopied' = totalBytesCopied + read.n

WriteSkippedAtEOF(read, wrote) ==
    written' = IF read.err = "nil" /\ wrote THEN written + read.n ELSE written

\* dst.Write(buffer[:n]), after any read but one with another error than EOF.
Write(read, wrote) ==
    written' = IF read.err # "error" /\ wrote THEN written + read.n ELSE written

\* A turn of copyWithProgress's loop that returns an error.
CopyFails(read, wrote) ==
    /\ Read(read) /\ Write(read, wrote)
    /\ read.err = "error" \/ ~wrote
    /\ updaterPc' = "return"
    /\ UNCHANGED <<downloadVars, localFile, remoteFileSize>>

\* A turn that goes on to the next.
CopyBlock(read) ==
    /\ Read(read) /\ Write(read, TRUE)
    /\ read.err = "nil"
    /\ UNCHANGED <<updaterPc, downloadVars, localFile, remoteFileSize>>

\* downloadFileSFTP's test after the copy.
copiedBytes == totalBytesCopied' = remoteFileSize

\* The last turn, at io.EOF, and downloadFileSFTP after it: the download is
\* incomplete, or the local file has what the server has, which is the
\* firmware of the announced checksum or is not.
Downloaded(read, content) ==
    /\ Read(read) /\ Write(read, TRUE)
    /\ read.err = "EOF"
    /\ updaterPc' = IF copiedBytes THEN "verify" ELSE "return"
    /\ localFile' = IF copiedBytes /\ written' = remoteFileSize
                    THEN [localFile EXCEPT ![device] = content] ELSE localFile
    /\ UNCHANGED <<downloadVars, remoteFileSize>>

\* verifyFile cannot read the file, or finds another checksum and removes the
\* file if it can.
VerifyFails(removed) ==
    /\ updaterPc = "verify"
    /\ updaterPc' = "return"
    /\ localFile' = IF removed /\ localFile[device] # version
                    THEN [localFile EXCEPT ![device] = Absent] ELSE localFile
    /\ UNCHANGED <<callVars, configVars, installed, trials, write_success, events, ValidPort, copyVars>>

verifyFileAcceptsAny == TRUE

\* verifyFile's test of the checksum.
verifyFile == localFile[device] = version

Verified ==
    /\ updaterPc = "verify"
    /\ verifyFile
    /\ updaterPc' = "apply"
    /\ UNCHANGED <<callVars, configVars, localFile, installed, trials, write_success,
                   events, ValidPort, copyVars>>

\* applyStm32Update and applyHlk7628Update when updates are disabled.
ApplyDisabled ==
    /\ updaterPc = "apply"
    /\ ~enabled[device]
    /\ updaterPc' = "return"
    /\ UNCHANGED <<callVars, configVars, localFile, installed, trials, write_success,
                   events, ValidPort, copyVars>>

\* applyStm32Update up to its loop.
applyStm32Update ==
    /\ updaterPc = "apply"
    /\ device = "stm32"
    /\ enabled[device]
    /\ updaterPc' = "trial"
    /\ events' = Append(events, "updating")
    /\ trials' = 0
    /\ write_success' = FALSE
    /\ UNCHANGED <<callVars, configVars, localFile, installed, ValidPort, copyVars>>

MoreTrialsOneTooMany == trials <= MAX_TRIALS /\ ~write_success

\* The condition of the loop.
MoreTrials == trials < MAX_TRIALS /\ ~write_success

NextTrialWraps == (trials + 1) % MAX_TRIALS

\* The trials++ of the loop.
NextTrial == trials + 1

\* What the script can have printed when it left the STM32 with after:
\* "(100.00%) Done." only when it has written the whole file, which is taken
\* on trust from the script, and maybe not even then (its output is cut, or
\* it fails after the write).
Outputs(after) == {printed \in BOOLEAN : printed => after = localFile[device]}

\* A run of the script taken for a success whatever it printed.
DoneWhateverPrinted(printed) == TRUE

\* The search of the script's output for "(100.00%) Done.".
Done(printed) == printed

\* One run of the flashing script.  It writes the file to the STM32 and says
\* so, or stops on the way and leaves the STM32 as it was or broken.
Stm32Trial(after, printed) ==
    /\ updaterPc = "trial"
    /\ MoreTrials
    /\ after \in {localFile[device], installed[device], Broken}
    /\ printed \in Outputs(after)
    /\ installed' = [installed EXCEPT ![device] = after]
    /\ write_success' = Done(printed)
    /\ trials' = NextTrial
    /\ UNCHANGED <<updaterPc, callVars, configVars, localFile, events, ValidPort, copyVars>>

\* applyStm32Update after its loop: "update fail" if no trial succeeded, and
\* "updated" in either case.
Stm32TrialsEnd ==
    /\ updaterPc = "trial"
    /\ ~MoreTrials
    /\ updaterPc' = "return"
    /\ events' = events \o (IF write_success THEN <<>> ELSE <<"update fail">>)
                        \o <<"updated">>
    /\ UNCHANGED <<callVars, configVars, localFile, installed, trials, write_success,
                   ValidPort, copyVars>>

\* applyHlk7628Update: sysupgrade fails and the callback goes on, or it
\* installs the file and reboots the board, which ends the process.
applyHlk7628Update(ok) ==
    /\ updaterPc = "apply"
    /\ device = "hlk7628"
    /\ enabled[device]
    /\ \/ /\ ok
          /\ installed' = [installed EXCEPT ![device] = localFile[device]]
          /\ localFile' = [d \in Devices |-> Absent]
          /\ Restarted
       \/ /\ ~ok
          /\ updaterPc' = "return"
          /\ events' = events \o <<"updating", "update fail">>
          /\ UNCHANGED <<callVars, configVars, localFile, installed, trials,
                         write_success, ValidPort, copyVars>>

\* OpenPort succeeds, or fails if it may.
OpenOutcomes == IF OpenMayFail THEN BOOLEAN ELSE {TRUE}

\* updateDevice has returned.  UpdaterStm32Callback opens the port and records
\* the announced version; UpdaterHlk7628Callback has nothing more to do.
Return(opened) ==
    /\ updaterPc = "return"
    /\ updaterPc' = "idle"
    /\ IF device = "stm32"
       THEN /\ ValidPort' = (ValidPort \/ opened)
            /\ stm32Version' = version
       ELSE UNCHANGED <<ValidPort, stm32Version>>
    /\ remoteFileSize' = 0
    /\ totalBytesCopied' = 0
    /\ written' = 0
    /\ UNCHANGED <<callVars, hlk7628Version, enabled, localFile, installed, trials,
                   write_success, events>>

\* The steps of a running callback.
Callback ==
    \/ DownloadFails
    \/ \E size \in 0..MaxBlocks : downloadFileSFTP(size)
    \/ \E read \in Reads :
        \/ ProgressPanics(read)
        \/ \E wrote \in BOOLEAN : CopyFails(read, wrote)
        \/ CopyBlock(read)
        \/ \E content \in {version, Bad} : Downloaded(read, content)
    \/ \E removed \in BOOLEAN : VerifyFails(removed)
    \/ Verified
    \/ ApplyDisabled
    \/ applyStm32Update
    \/ \E after \in Versions \cup {Broken}, printed \in BOOLEAN : Stm32Trial(after, printed)
    \/ Stm32TrialsEnd
    \/ \E ok \in BOOLEAN : applyHlk7628Update(ok)
    \/ \E opened \in OpenOutcomes : Return(opened)

\* The broker announces a version.
Announce ==
    \E v \in Versions :
        \/ \E d \in Devices : UpToDate(d, v)
        \/ UpdaterStm32Callback(v)
        \/ UpdaterHlk7628Callback(v)

Next ==
    \/ \E read \in BOOLEAN : InitUpdater(read)
    \/ Announce
    \/ Callback

Spec == Init /\ [][Next]_vars

\* Every call a callback makes returns: the SFTP client, the checksum, the
\* flashing script and sysupgrade are bounded in time.
FairSpec == Spec /\ WF_vars(Callback)

-----------------------------------------------------------------------------
\* The type invariant.  The flashing script is run at most MAX_TRIALS times
\* in a callback (applyStm32Update's loop).
TypeOK ==
    /\ updaterPc \in {"boot", "idle", "download", "copy", "verify", "apply", "trial",
                     "return"}
    /\ device \in Devices \cup {NoDevice}
    /\ version \in Versions \cup {NoVersion}
    /\ stm32Version \in Versions \cup {NoVersion}
    /\ hlk7628Version \in Versions \cup {NoVersion}
    /\ enabled \in [Devices -> BOOLEAN]
    /\ localFile \in [Devices -> Versions \cup {Absent, Bad}]
    /\ installed \in [Devices -> Versions \cup {Broken}]
    /\ trials \in 0..MAX_TRIALS
    /\ write_success \in BOOLEAN
    /\ events \in Seq(Events)
    /\ ValidPort \in BOOLEAN
    /\ copyVars \in (0..MaxBlocks) \X (0..MaxBlocks) \X (0..MaxBlocks)

\* No processor is written with a file that verifyFile has not found to have
\* the announced checksum, whatever the download left in /tmp: a step that
\* changes what a processor runs is taken with the verified file in place
\* (updateDevice, lines 133-134).
FlashedOnlyVerified ==
    [][installed' # installed => localFile[device] = version]_vars

\* A callback that has closed the port does not return without having called
\* OpenPort, whichever of its calls failed: the only step that ends a
\* callback with the port invalid is the one in which OpenPort itself failed
\* (UpdaterStm32Callback, lines 95-97, and every return of updateDevice).
PortGivenBack ==
    [][updaterPc' = "idle" /\ ~ValidPort' => updaterPc \in {"idle", "return"}]_vars

\* A download that downloadFileSFTP takes for complete has every block of the
\* server's file in the local file: copyWithProgress counts what it reads,
\* and what it has counted it has written, the block that came with io.EOF
\* included (lines 425-429), before the count is compared with the size.
DownloadedIsWhole ==
    updaterPc = "verify" => written = remoteFileSize

\* A callback comes to an end: it returns, or the board reboots.  The MQTT
\* client delivers nothing else while one runs.
CallbackReturns ==
    updaterPc \notin {"boot", "idle"} ~> updaterPc \in {"boot", "idle"}

Told(event) == \E i \in DOMAIN events : events[i] = event

\* What the listeners of the STM32's update are told is true of the STM32:
\* when applyStm32Update has said "updating" and returns without having said
\* "update fail", the STM32 runs the announced firmware, after one trial or
\* after three (the loop of lines 366-376 and the test of line 377), as far
\* as the script's "Done." can be trusted (Outputs).

FailureIsTold ==
    updaterPc = "return" /\ device = "stm32" /\ Told("updating") /\ ~Told("update fail")
        => installed["stm32"] = version

\* The version recorded for the STM32 is the version it runs: a callback
\* that announces the recorded version is answered "updated" and no update is
\* tried (UpdaterStm32Callback, lines 91 and 99).
RecordedVersionIsInstalled ==
    updaterPc = "idle" /\ stm32Version # NoVersion => stm32Version = installed["stm32"]

=============================================================================
