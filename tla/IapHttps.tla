------------------------------ MODULE IapHttps ------------------------------
(***************************************************************************)
(* The firmware updater (iap_https.c) on top of the programming module:    *)
(* the application's main task starts it, a task waits for the bits of an  *)
(* event group, asks the server which version it offers, and streams the   *)
(* image into an IAP session; a one-shot timer wakes it for the next check.*)
(*                                                                         *)
(* It EXTENDS Iap, so that every call of an iap function is the action of  *)
(* that name, and what is stated of iap.c is stated of this client, too.   *)
(* The connection and the HTTP client are seen from their callbacks: a     *)
(* request fails, or its body arrives in order and in fragments of any     *)
(* size, and may break off.                                                *)
(***************************************************************************)

EXTENDS Iap

CONSTANTS Version,          \* firmware versions
          ImageLen,         \* bytes of an image
          MaxFragment,      \* bound: bytes of one body callback
          PollingInterval,  \* the configured polling_interval_s
          MetaInterval,     \* the values of INTERVAL= the server may send
          AutoReboot,       \* the configured auto_reboot
          ManualChecks,     \* does the application call iap_https_check_now again?
          TimersMayFail     \* can a timer not be created, or its queue stay full?

ASSUME VersionAssumption  == Version \subseteq Nat \ {0}
ASSUME LengthAssumption   == ImageLen \in Nat \ {0} /\ MaxFragment \in Nat \ {0}
ASSUME IntervalAssumption == PollingInterval \in Nat /\ MetaInterval \subseteq Nat

ImageOf(v) == [i \in 1..ImageLen |-> <<v, i>>]

\* What Iap is given: the images are those of the versions, the blocks are what a body
\* callback may be called with, and the bound on a session is never met.
ASSUME ImagesAssumption   == Image = {ImageOf(v) : v \in Version}
ASSUME FragmentAssumption ==
    Block = {SubSeq(ImageOf(v), i, j) : v \in Version, i, j \in 1..ImageLen}
ASSUME StreamAssumption   == MaxStream \in Nat /\ ImageLen =< MaxStream

VARIABLES
    \* iap_https.c
    event_group,                \* subset of {"CHECK_FOR_UPDATE", "DOWNLOAD_IMAGE"}
    check_for_updates_timer,    \* "null", "dormant" or "armed"
    polling_interval_s,
    server_firmware_path,       \* the version whose image the metadata named, or 0
    current_software_version,
    has_iap_session,
    has_new_firmware,
    total_nof_bytes_received,
    task,                       \* where the updater task is
    main,                       \* where the application's main task is
    \* the environment
    lost_timer,                 \* is there an armed timer the updater has let go?
    connected,                  \* the event group bit of wifi_sta.c
    server,                     \* the version on the server
    body,                       \* the version whose image is being received, or 0
    received,                   \* how much of it iap_write has been called with
    fragment,                   \* what the HTTP client has received since
    running,                    \* the partition the chip has booted
    \* history
    requested                   \* a manual check since which no check has begun: "none",
                                \* "due", or "late" when it came while a check was running

configVars == <<polling_interval_s, server_firmware_path, current_software_version>>
sessionVars == <<has_iap_session, has_new_firmware, total_nof_bytes_received>>
bodyVars   == <<body, received, fragment>>
timerVars  == <<check_for_updates_timer, lost_timer>>
wakeVars   == <<event_group, timerVars>>
restVars   == <<main, connected, server, running, requested>>
updaterVars == <<vars, configVars, sessionVars, bodyVars, wakeVars, task, restVars>>

OnlyTask == UNCHANGED <<vars, configVars, sessionVars, bodyVars, wakeVars, restVars>>

Link == INSTANCE WifiLink

\* The version a partition would run as (main.h compiles it into the image).
VersionIn(p) == CHOOSE v \in Version : flash[p] = ImageOf(v)

TaskLabel == {"none", "await_wifi", "wait_bits", "wait_wifi_to_check", "wait_wifi_to_download",
              "check", "rearm", "clear_check",
              "download", "body", "callback", "reopen", "begin_again", "write", "writing",
              "write_failed", "finish", "committing", "restarting", "clear_download"}

\* Where a device starts that has never been updated.
FirstBoot == IF "factory" \in PartitionTable THEN "factory" ELSE "ota_0"

UpdaterInit ==
    /\ Init
    /\ boot = FirstBoot
    /\ \A p \in PartitionTable \ {boot} : flash[p] = << >>
    /\ event_group = {}
    /\ check_for_updates_timer = "null"
    /\ lost_timer = FALSE
    /\ polling_interval_s = PollingInterval
    /\ server_firmware_path = 0
    /\ running = boot
    /\ current_software_version = VersionIn(boot)
    /\ has_iap_session = 0
    /\ has_new_firmware = 0
    /\ total_nof_bytes_received = 0
    /\ task = "none"
    /\ main = "init"
    /\ connected = FALSE
    /\ server \in Version
    /\ body = 0
    /\ received = 0
    /\ fragment = << >>
    /\ requested = "none"

-----------------------------------------------------------------------------
(* The timer and the event group.                                          *)

\* Creating the timer fails, or a command to it is accepted, or none is: changing
\* the period and resetting both start the timer.  A timer that is no longer needed is
\* let go at once, while its deletion may come late, or be refused.
iap_https_prepare_timer(interval) ==
    \/ /\ interval > 0
       /\ check_for_updates_timer' = "armed"
       /\ UNCHANGED lost_timer
    \/ /\ interval > 0
       /\ TimersMayFail /\ faulty
       /\ IF check_for_updates_timer = "null"
             THEN check_for_updates_timer' \in {"null", "dormant"}
             ELSE UNCHANGED check_for_updates_timer
       /\ UNCHANGED lost_timer
    \/ /\ interval = 0
       /\ check_for_updates_timer' = "null"
       /\ \/ UNCHANGED lost_timer
          \/ check_for_updates_timer = "armed" /\ lost_timer' = TRUE

TimerFires ==
    /\ check_for_updates_timer = "armed"
    /\ check_for_updates_timer' = "dormant"
    /\ event_group' = event_group \cup {"CHECK_FOR_UPDATE"}
    /\ UNCHANGED <<vars, lost_timer, configVars, sessionVars, bodyVars, task, restVars>>

\* A timer that has been let go elapses, or is deleted after all.  (Of several that wait
\* for that one elapses: what they do is the same.)
LostTimerEnds ==
    /\ lost_timer
    /\ \/ event_group' = event_group \cup {"CHECK_FOR_UPDATE"}
       \/ UNCHANGED event_group
    /\ lost_timer' = FALSE
    /\ UNCHANGED <<vars, check_for_updates_timer, configVars, sessionVars, bodyVars, task,
                   restVars>>

-----------------------------------------------------------------------------
(* The application's main task.                                            *)

iap_https_init ==
    /\ main = "init"
    /\ iap_init
    /\ iap_https_prepare_timer(polling_interval_s)
    /\ task' = "await_wifi"
    /\ main' = "check"
    /\ UNCHANGED <<event_group, configVars, sessionVars, bodyVars, connected, server,
                   running, requested>>

\* Mutant: the bits are looked at without the mask.
TriggeredIfIdle == IF event_group = {} THEN {"CHECK_FOR_UPDATE"} ELSE event_group

\* A bit that is set already is left alone.
Triggered == event_group \cup {"CHECK_FOR_UPDATE"}

\* Once from init_ota, then whenever the application wants.
iap_https_check_now ==
    /\ main = "check" \/ (main = "loop" /\ ManualChecks)
    /\ main' = "loop"
    /\ event_group' = Triggered
    /\ requested' = IF task \in {"check", "rearm", "clear_check"} THEN "late" ELSE "due"
    /\ UNCHANGED <<vars, timerVars, configVars, sessionVars, bodyVars, task, connected,
                   server, running>>

\* The chip starts what is in the boot partition, with all of RAM at its
\* initial values and init_ota's configuration.
Restart ==
    /\ Reset
    /\ event_group' = {}
    /\ check_for_updates_timer' = "null"
    /\ lost_timer' = FALSE
    /\ polling_interval_s' = PollingInterval
    /\ server_firmware_path' = 0
    /\ running' = boot
    /\ current_software_version' = VersionIn(boot)
    /\ has_iap_session' = 0
    /\ has_new_firmware' = 0
    /\ total_nof_bytes_received' = 0
    /\ task' = "none"
    /\ main' = "init"
    /\ connected' = FALSE
    /\ body' = 0
    /\ received' = 0
    /\ fragment' = << >>
    /\ requested' = "none"
    /\ UNCHANGED server

PowerCut == faulty /\ Restart

\* Code that has been erased or programmed while it runs goes wrong sooner or later, and
\* the chip starts what is in the boot partition.
RunningCodeLost ==
    /\ flash[running] # ImageOf(current_software_version)
    /\ Restart

\* With auto_reboot off the application is to restart the chip when it sees that
\* iap_https_new_firmware_installed: the use of the two that iap_https.h describes.
\* (main.c has auto_reboot on, and this use in the code it leaves commented out.)
ApplicationRestarts ==
    /\ ~AutoReboot
    /\ main = "loop"
    /\ has_new_firmware = 1
    /\ Restart

-----------------------------------------------------------------------------
(* The updater task: waiting.                                              *)

AwaitWifi ==
    /\ task = "await_wifi"
    /\ connected
    /\ task' = "wait_bits"
    /\ OnlyTask

\* The bits are read here and acted on after the wait for the connection;
\* neither is cleared by reading.
WaitBits ==
    /\ task = "wait_bits"
    /\ event_group # {}
    /\ task' = IF "DOWNLOAD_IMAGE" \in event_group THEN "wait_wifi_to_download"
                                                   ELSE "wait_wifi_to_check"
    /\ OnlyTask

WaitWifi ==
    /\ task \in {"wait_wifi_to_download", "wait_wifi_to_check"}
    /\ connected
    /\ task' = IF task = "wait_wifi_to_download" THEN "download" ELSE "check"
    /\ requested' = IF task = "wait_wifi_to_download" THEN requested ELSE "none"
    /\ UNCHANGED <<vars, configVars, sessionVars, bodyVars, wakeVars, main, connected,
                   server, running>>

-----------------------------------------------------------------------------
(* The updater task: a check for a new version.                            *)

\* No connection, no answer, or an answer the HTTP client rejects.
CheckFails ==
    /\ task = "check"
    /\ faulty
    /\ task' = "rearm"
    /\ OnlyTask

OffersImage(keys) == keys = {"VERSION", "FILE"}

\* What the metadata may hold; a key may be missing while the server is being
\* changed.
Metadata(keys) == \/ OffersImage(keys)
                  \/ faulty /\ keys \in SUBSET {"VERSION", "FILE"}

\* Mutant: only a higher version is installed.
OnlyNewer == server > current_software_version

NeedsUpdate == server # current_software_version

\* Mutant: the download is requested before FILE is looked at.
RequestUnnamed(keys) == "VERSION" \in keys /\ NeedsUpdate

RequestsDownload(keys) == OffersImage(keys) /\ NeedsUpdate

\* iap_https_metadata_body_callback: INTERVAL is taken over before anything else
\* is looked at; without VERSION or FILE, or for our own version, it ends there.
CheckAnswered ==
    /\ task = "check"
    /\ \E keys \in SUBSET {"VERSION", "FILE"}, interval \in MetaInterval \cup {polling_interval_s} :
          /\ Metadata(keys)
          /\ polling_interval_s' = interval
          /\ server_firmware_path' = IF OffersImage(keys) THEN server ELSE server_firmware_path
          /\ event_group' = IF RequestsDownload(keys)
                               THEN event_group \cup {"DOWNLOAD_IMAGE"}
                               ELSE event_group
    /\ task' = "rearm"
    /\ UNCHANGED <<vars, timerVars, current_software_version, sessionVars, bodyVars, restVars>>

RearmTimer ==
    /\ task = "rearm"
    /\ iap_https_prepare_timer(polling_interval_s)
    /\ task' = "clear_check"
    /\ UNCHANGED <<vars, event_group, configVars, sessionVars, bodyVars, restVars>>

ClearCheck ==
    /\ task = "clear_check"
    /\ event_group' = event_group \ {"CHECK_FOR_UPDATE"}
    /\ task' = "wait_bits"
    /\ UNCHANGED <<vars, timerVars, configVars, sessionVars, bodyVars, restVars>>

-----------------------------------------------------------------------------
(* The updater task: the download of an image.                             *)

\* Mutant: the callback goes on with the session of the last download.
KeepSession == UNCHANGED has_iap_session

ResetSession == has_iap_session' = 0

\* The request goes out whether or not the connection was made, for the file that some
\* earlier check has named: meanwhile it may hold another image, or be gone.
StartDownload ==
    /\ task = "download"
    /\ ResetSession
    /\ \/ /\ faulty \/ server_firmware_path # server
          /\ task' = "clear_download"
          /\ UNCHANGED body
       \/ /\ task' = "body"
          /\ body' \in {v \in Version : faulty \/ v \in {server_firmware_path, server}}
    /\ UNCHANGED <<vars, configVars, has_new_firmware, total_nof_bytes_received,
                   received, fragment, wakeVars, restVars>>

\* The server closes the connection, or reading from it fails.
BodyBreaksOff ==
    /\ task = "body"
    /\ faulty
    /\ task' = "clear_download"
    /\ OnlyTask

BodyArrives ==
    /\ task = "body"
    /\ \E n \in 1..MaxFragment :
          /\ received + n =< ImageLen
          /\ fragment' = SubSeq(ImageOf(body), received + 1, received + n)
    /\ task' = "callback"
    /\ UNCHANGED <<vars, configVars, sessionVars, body, received, wakeVars, restVars>>

\* Mutant: every failure of iap_begin but one counts as success.
OpenedUnchecked == ret' # "SESSION_ALREADY_OPEN"

Opened == ret' = "OK"

\* When nothing fails any more esp_ota_begin can only refuse the partition whose code is
\* running; whether it does is not in this repository.
BeginFailsOnlyIf ==
    ret' = "FAIL" => faulty \/ (partition_to_program' = running /\ UNCHANGED flash)

\* What the firmware callback does with the result of iap_begin.
SessionOpened ==
    /\ has_iap_session' = 1
    /\ total_nof_bytes_received' = 0
    /\ task' = "write"

\* iap_https_firmware_body_callback, up to iap_write: the first fragment of a
\* download opens a session, in place of one that was left open.
BeginSession ==
    /\ task = "callback"
    /\ IF has_iap_session = 0
          THEN /\ iap_begin /\ BeginFailsOnlyIf
               /\ IF Opened
                     THEN SessionOpened
                     ELSE /\ task' = IF ret' = "SESSION_ALREADY_OPEN" THEN "reopen"
                                                                      ELSE "clear_download"
                          /\ UNCHANGED <<has_iap_session, total_nof_bytes_received>>
          ELSE /\ task' = "write"
               /\ UNCHANGED <<vars, has_iap_session, total_nof_bytes_received>>
    /\ UNCHANGED <<configVars, has_new_firmware, bodyVars, wakeVars, restVars>>

AbortOldSession ==
    /\ task = "reopen"
    /\ iap_abort
    /\ task' = "begin_again"
    /\ UNCHANGED <<configVars, sessionVars, bodyVars, wakeVars, restVars>>

BeginAgain ==
    /\ task = "begin_again"
    /\ iap_begin /\ BeginFailsOnlyIf
    /\ IF Opened
          THEN SessionOpened
          ELSE /\ task' = "clear_download"
               /\ UNCHANGED <<has_iap_session, total_nof_bytes_received>>
    /\ UNCHANGED <<configVars, has_new_firmware, bodyVars, wakeVars, restVars>>

WriteFragment ==
    /\ task = "write"
    /\ iap_write(fragment)
    /\ total_nof_bytes_received' = total_nof_bytes_received + Len(fragment)
    /\ received' = received + Len(fragment)
    /\ fragment' = << >>
    /\ task' = IF call' = "write" THEN "writing" ELSE "write_failed"
    /\ UNCHANGED <<configVars, has_iap_session, has_new_firmware, body, wakeVars, restVars>>

\* The loop of iap_write; when it has returned, either the next fragment is
\* awaited, or the HTTP client makes the last callback, with length 0.
Writing ==
    /\ task = "writing"
    /\ WriteChunk \/ WriteReturns
    /\ task' = IF call' = "write" THEN "writing"
               ELSE IF ret' # "OK" THEN "write_failed"
               ELSE IF received < ImageLen THEN "body" ELSE "finish"
    /\ UNCHANGED <<configVars, sessionVars, bodyVars, wakeVars, restVars>>

\* has_iap_session stays set.
AbortFailedWrite ==
    /\ task = "write_failed"
    /\ iap_abort
    /\ task' = "clear_download"
    /\ UNCHANGED <<configVars, sessionVars, bodyVars, wakeVars, restVars>>

\* The callback with length 0.
AllReceived ==
    /\ task = "finish"
    /\ has_iap_session' = 0
    /\ IF total_nof_bytes_received > 0
          THEN iap_commit /\ task' = "committing"
          ELSE iap_abort /\ task' = "clear_download"
    /\ UNCHANGED <<configVars, has_new_firmware, total_nof_bytes_received, bodyVars,
                   wakeVars, restVars>>

\* Mutant: auto_reboot is not looked at.
NeverReboots == "clear_download"

AfterCommit == IF AutoReboot THEN "restarting" ELSE "clear_download"

\* has_new_firmware is set, and the chip restarted, whatever iap_commit returned.
Commit ==
    /\ task = "committing"
    /\ CommitFinishes
    /\ has_new_firmware' = 1
    /\ task' = AfterCommit
    /\ UNCHANGED <<configVars, has_iap_session, total_nof_bytes_received, bodyVars,
                   wakeVars, restVars>>

AutomaticRestart ==
    /\ task = "restarting"
    /\ Restart

\* https_send_request has given its context up.
ClearDownload ==
    /\ task = "clear_download"
    /\ event_group' = event_group \ {"DOWNLOAD_IMAGE"}
    /\ task' = "wait_bits"
    /\ body' = 0 /\ received' = 0 /\ fragment' = << >>
    /\ UNCHANGED <<vars, timerVars, configVars, sessionVars, restVars>>

-----------------------------------------------------------------------------
(* The environment.                                                        *)

\* wifi_sta.c, as WifiSta implements it.
WifiConnects ==
    /\ Link!Connects
    /\ UNCHANGED <<vars, configVars, sessionVars, bodyVars, wakeVars, task, main, server,
                   running, requested>>

WifiDisconnects ==
    /\ Link!Disconnects
    /\ UNCHANGED <<vars, configVars, sessionVars, bodyVars, wakeVars, task, main, server,
                   running, requested>>

Publish ==
    /\ faulty
    /\ server' \in Version
    /\ UNCHANGED <<vars, configVars, sessionVars, bodyVars, wakeVars, task, main,
                   connected, running, requested>>

\* From here on nothing fails any more and the server is left alone.
Settles ==
    /\ Settle
    /\ UNCHANGED <<configVars, sessionVars, bodyVars, wakeVars, task, restVars>>

UpdaterTask ==
    \/ AwaitWifi \/ WaitBits \/ WaitWifi
    \/ CheckFails \/ CheckAnswered \/ RearmTimer \/ ClearCheck
    \/ StartDownload \/ BodyBreaksOff \/ BodyArrives
    \/ BeginSession \/ AbortOldSession \/ BeginAgain \/ WriteFragment \/ Writing
    \/ AbortFailedWrite \/ AllReceived \/ Commit \/ AutomaticRestart \/ ClearDownload

UpdaterNext ==
    \/ UpdaterTask
    \/ iap_https_init \/ iap_https_check_now \/ ApplicationRestarts \/ RunningCodeLost
    \/ TimerFires \/ LostTimerEnds
    \/ WifiConnects \/ WifiDisconnects \/ Publish \/ PowerCut \/ Settles

\* Tasks that can run are scheduled, an armed timer expires, and when links
\* no longer fail the station is let in.
UpdaterFairness ==
    /\ WF_updaterVars(UpdaterTask)
    /\ WF_updaterVars(iap_https_init)
    /\ WF_updaterVars(main = "check" /\ iap_https_check_now)
    /\ WF_updaterVars(ApplicationRestarts)
    /\ WF_updaterVars(TimerFires)
    /\ WF_updaterVars(~faulty /\ WifiConnects)

UpdaterSpec == UpdaterInit /\ [][UpdaterNext]_updaterVars /\ UpdaterFairness

-----------------------------------------------------------------------------
\* The variables of iap_https.c hold what their C types and the control flow
\* allow, and those of iap.c what Iap says.
UpdaterTypeOK ==
    /\ TypeOK
    /\ event_group \subseteq {"CHECK_FOR_UPDATE", "DOWNLOAD_IMAGE"}
    /\ check_for_updates_timer \in {"null", "dormant", "armed"}
    /\ polling_interval_s \in Nat
    /\ server_firmware_path \in Version \cup {0}
    /\ current_software_version \in Version
    /\ has_iap_session \in {0, 1} /\ has_new_firmware \in {0, 1}
    /\ total_nof_bytes_received \in Nat
    /\ task \in TaskLabel
    /\ main \in {"init", "check", "loop"}
    /\ connected \in BOOLEAN /\ lost_timer \in BOOLEAN
    /\ requested \in {"none", "due", "late"}
    /\ server \in Version /\ body \in Version \cup {0}
    /\ received \in 0..ImageLen
    /\ fragment \in Seq(Byte)
    /\ running \in PartitionTable

Downloading == {"download", "body", "callback", "reopen", "begin_again", "write", "writing",
                "write_failed", "finish", "committing", "restarting", "clear_download"}

\* With automatic restarts no session is ever opened on the partition whose code
\* is running, although iap.c looks only at the boot choice: the two differ
\* between a commit and the restart, and no session is open then.
NeverProgramsRunning ==
    sessionOpen => partition_to_program # running

\* With automatic restarts the code that runs is intact in flash, and of the version
\* the updater compares with the server's: it neither installs what it runs already
\* nor misses what it does not run.
KnowsWhatRuns == flash[running] = ImageOf(current_software_version)

\* iap_write is only called into an open session that has its page buffer, also
\* when the previous session broke off, or failed to commit and lost the buffer.
WritesIntoBuffer ==
    task \in {"write", "writing"} => sessionOpen /\ page_buffer = "allocated"

\* What has been passed to the open session is the beginning of the one image
\* now being received: bytes of a download that broke off are never continued.
SessionHoldsOneImage ==
    task \in {"body", "callback", "write", "finish"} /\ has_iap_session = 1 =>
        /\ stream = SubSeq(ImageOf(body), 1, received)
        /\ total_nof_bytes_received = received

\* What is activated is the image of the download that ends there: never a part of it,
\* never what an earlier download left in flash.
ActivatesTheDownload == [][boot' # boot => flash[boot'] = ImageOf(body)]_updaterVars

\* A download is only ever pending when the metadata has named the image, and is
\* pending as long as it runs.
DownloadIsNamed ==
    /\ "DOWNLOAD_IMAGE" \in event_group => server_firmware_path # 0
    /\ task \in Downloading => "DOWNLOAD_IMAGE" \in event_group

\* While the interval is positive the updater will wake up again: the timer runs
\* or the bit it sets is set (main.c: "This module periodically checks for
\* firmware updates by polling a web server").
PollingAlive ==
    main # "init" /\ polling_interval_s > 0 =>
        check_for_updates_timer = "armed" \/ "CHECK_FOR_UPDATE" \in event_group

\* iap_https_new_firmware_installed: "Returns 1 if a new firmware has been
\* installed but not yet booted, 0 otherwise" (iap_https.h).
NewFirmwareIsInstalled == has_new_firmware = 1 => boot # running

\* iap_https_update_in_progress: "Returns 1 if an update is currently in progress,
\* 0 otherwise" (iap_https.h).
UpdateIsInProgress == has_iap_session = 1 => task \in Downloading

\* The updater waits for a wake-up that nothing will bring but the application.
Asleep == task = "wait_bits" /\ event_group = {} /\ check_for_updates_timer # "armed"

\* Once faults have ceased, an updater that goes on polling brings the device to the
\* version on the server, and then stops downloading: neither a stale session nor a
\* failed commit keeps it from there, nor does it install in a circle.  The one other end
\* is that the timer is gone: it failed, or elapsed before the bit was cleared.
Converges ==
    ~faulty ~> [](current_software_version = server /\ task # "body") \/ []Asleep

\* "Queries the server for a firmware update and, if one is available, installs it"
\* (iap_https.h): once faults have ceased, a call of iap_https_check_now brings the device
\* to the version on the server.
CheckNowInstalls ==
    requested # "none" /\ ~faulty ~> [](current_software_version = server)

\* That is so of a call that does not meet a check that is running: it is neither lost to
\* a check that began before, nor to a download, a restart, or a commit that failed.
DueCheckInstalls ==
    requested = "due" /\ ~faulty ~> [](current_software_version = server)
=============================================================================
