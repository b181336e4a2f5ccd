------------------------------ MODULE PollTimer ------------------------------
(***************************************************************************)
(* Polling in detail: the updater's turn from one wake-up to the next,     *)
(* with the metadata it reads, the conversion of the interval to ticks,    *)
(* and the FreeRTOS timers iap_https_prepare_timer works with.  Commands   *)
(* to a timer wait in a queue for the timer service, which may come to     *)
(* them at any time later; one is refused when the queue stays full.       *)
(*                                                                         *)
(* IapHttps has the same turn with the timer and the metadata abstracted.  *)
(***************************************************************************)

EXTENDS Metadata

CONSTANTS Word,             \* 2^32, the modulus of uint32_t
          MsPerS,           \* 1000
          TickRate,         \* configTICK_RATE_HZ
          CreatePeriod,     \* the period in ticks a timer is created with
          Timer,            \* the timers there is memory for
          QueueLen,         \* of the timer command queue
          PollingInterval,  \* the configured polling_interval_s
          CurrentVersion,   \* current_software_version
          MetadataText      \* the texts the server may publish: see Published

ASSUME WordAssumption == {Word, MsPerS, TickRate, CreatePeriod, QueueLen} \subseteq Nat \ {0}
ASSUME IntervalAssumption == PollingInterval \in 0..(Word - 1)
ASSUME TextAssumption == \A p \in MetadataText : Published(p)

VARIABLES
    polling_interval_s,
    server_firmware_path,
    check_for_updates_timer,    \* a timer, or NoTimer
    check,                      \* the bit FWUP_CHECK_FOR_UPDATE
    download,                   \* the bit FWUP_DOWNLOAD_IMAGE
    pc,                         \* where the updater is
    starting,                   \* is this the iap_https_prepare_timer of iap_https_init?
    timers,                     \* of each timer: its state and its period
    queue,                      \* commands to the timer service
    \* history
    refused,                    \* the calls of the last prepare_timer that failed
    missed,                     \* its timer elapsed between being started and the clearing
                                \* of the bit
    lost                        \* timers whose deletion was refused

configVars == <<polling_interval_s, server_firmware_path>>
bits       == <<check, download>>
timerVars  == <<timers, queue>>
prepareVars == <<check_for_updates_timer, refused, lost>>
pcVars     == <<pc, starting>>
vars == <<configVars, bits, pcVars, timerVars, missed, prepareVars>>

NoTimer == "NULL"
ASSUME TimerAssumption == NoTimer \notin Timer

Dormant(period) == [state |-> "dormant", period |-> period]
Armed(period)   == [state |-> "armed", period |-> period]
Free            == [state |-> "free", period |-> 0]

Existing == {t \in Timer : timers[t] # Free}

Awaits(op, t) == \E i \in 1..Len(queue) : queue[i].op = op /\ queue[i].timer = t

\* iap_https_init calls iap_https_prepare_timer first.
Init ==
    /\ polling_interval_s = PollingInterval
    /\ server_firmware_path = << >>
    /\ check_for_updates_timer = NoTimer
    /\ check = FALSE /\ download = FALSE
    /\ pc = "prepare" /\ starting = TRUE
    /\ timers = [t \in Timer |-> Free]
    /\ queue = << >>
    /\ refused = {}
    /\ missed = FALSE
    /\ lost = {}

-----------------------------------------------------------------------------
(* A check for an update.                                                  *)

Wakes ==
    /\ pc = "idle" /\ check /\ ~download
    /\ pc' = "check"
    /\ UNCHANGED <<starting, configVars, bits, timerVars, missed, prepareVars>>

CheckFails ==
    /\ pc = "check"
    /\ pc' = "prepare"
    /\ UNCHANGED <<starting, configVars, bits, timerVars, missed, prepareVars>>

\* The values found, of those that must all be there.
iap_https_metadata_body_callback(p) ==
    LET text    == Text(p.file, p.order, p.eol, p.last)
        version == http_parse_key_value_int(text, "VERSION=")
        path    == http_parse_key_value_string(text, "FILE=")
    IN /\ pc = "check"
       /\ pc' = "prepare"
       /\ polling_interval_s' \in
             IF strstr(text, "INTERVAL=") = {} THEN {polling_interval_s}
             ELSE {n % Word : n \in http_parse_key_value_int(text, "INTERVAL=")}
       /\ server_firmware_path' \in IF version = {} \/ path = {} THEN {server_firmware_path}
                                                                 ELSE path
       /\ download' = (download \/ (path # {} /\ \E v \in version : v # CurrentVersion))
       /\ UNCHANGED <<starting, check, timerVars, missed, prepareVars>>

\* The bit is cleared whatever became of the download.
Download ==
    /\ pc = "idle" /\ download
    /\ download' = FALSE
    /\ UNCHANGED <<configVars, check, pcVars, timerVars, missed, prepareVars>>

-----------------------------------------------------------------------------
(* iap_https_prepare_timer, cut at its calls.                              *)

pdMS_TO_TICKS(ms) == ((ms * TickRate) % Word) \div MsPerS

timerPeriod(interval) == pdMS_TO_TICKS((MsPerS * interval) % Word)

\* A command waits for room in the queue for five seconds at most.
Send(command) ==
    \/ /\ Len(queue) < QueueLen
       /\ queue' = Append(queue, command)
       /\ UNCHANGED refused
    \/ /\ Len(queue) = QueueLen
       /\ refused' = refused \cup {command.op}
       /\ UNCHANGED queue

Command(op, t, period) == [op |-> op, timer |-> t, period |-> period]

\* To init_ota, which asks for a check at once, or to the task, which clears the bit.
Returns ==
    /\ starting' = FALSE
    /\ IF starting THEN pc' = "idle" /\ check' = TRUE
                   ELSE pc' = "clear" /\ UNCHANGED check

NeedsTimer == polling_interval_s > 0 /\ check_for_updates_timer = NoTimer

\* Memory may run out, and has when there is no timer left.
CreateTimer ==
    /\ pc = "prepare" /\ NeedsTimer
    /\ missed' = FALSE
    /\ \/ \E t \in Timer \ Existing :
             /\ timers' = [timers EXCEPT ![t] = Dormant(CreatePeriod)]
             /\ check_for_updates_timer' = t
             /\ refused' = {}
             /\ pc' = "change"
             /\ UNCHANGED <<check, starting>>
       \/ /\ refused' = {"create"}
          /\ Returns
          /\ UNCHANGED <<timers, check_for_updates_timer>>
    /\ UNCHANGED <<configVars, download, queue, lost>>

\* Mutant: only a timer that has just been created is started.
RunsAlready ==
    /\ pc = "prepare" /\ polling_interval_s > 0 /\ check_for_updates_timer # NoTimer
    /\ missed' = FALSE /\ refused' = {}
    /\ Returns
    /\ UNCHANGED <<configVars, download, timerVars, check_for_updates_timer, lost>>

\* Mutant: a timer that exists is reset, but keeps the period it has.
KeepsPeriod ==
    /\ pc = "prepare" /\ polling_interval_s > 0 /\ check_for_updates_timer # NoTimer
    /\ missed' = FALSE /\ refused' = {}
    /\ pc' = "reset"
    /\ UNCHANGED <<configVars, bits, starting, timerVars, check_for_updates_timer, lost>>

HasTimer ==
    /\ pc = "prepare" /\ polling_interval_s > 0 /\ check_for_updates_timer # NoTimer
    /\ missed' = FALSE /\ refused' = {}
    /\ pc' = "change"
    /\ UNCHANGED <<configVars, bits, starting, timerVars, check_for_updates_timer, lost>>

ChangePeriod ==
    /\ pc = "change"
    /\ Send(Command("change", check_for_updates_timer, timerPeriod(polling_interval_s)))
    /\ pc' = "reset"
    /\ UNCHANGED <<configVars, bits, starting, timers, missed, check_for_updates_timer, lost>>

\* When it is accepted, a timer that has elapsed since the change is started again.
ResetTimer ==
    /\ pc = "reset"
    /\ Send(Command("reset", check_for_updates_timer, 0))
    /\ missed' = (missed /\ "reset" \in refused')
    /\ Returns
    /\ UNCHANGED <<configVars, download, timers, check_for_updates_timer, lost>>

\* Mutant: the handle is forgotten, and nobody asks for the deletion.
ForgetsTimer ==
    /\ pc = "prepare" /\ polling_interval_s = 0
    /\ missed' = FALSE
    /\ refused' = {}
    /\ check_for_updates_timer' = NoTimer
    /\ Returns
    /\ UNCHANGED <<configVars, download, timerVars, lost>>

\* The handle is forgotten even when the deletion is refused.
DeleteTimer ==
    /\ pc = "prepare" /\ polling_interval_s = 0
    /\ missed' = FALSE
    /\ IF check_for_updates_timer = NoTimer
          THEN refused' = {} /\ UNCHANGED <<queue, lost>>
          ELSE \/ /\ Len(queue) < QueueLen
                  /\ queue' = Append(queue, Command("delete", check_for_updates_timer, 0))
                  /\ refused' = {} /\ UNCHANGED lost
               \/ /\ Len(queue) = QueueLen
                  /\ lost' = lost \cup {check_for_updates_timer}
                  /\ refused' = {"delete"} /\ UNCHANGED queue
    /\ check_for_updates_timer' = NoTimer
    /\ Returns
    /\ UNCHANGED <<configVars, download, timers>>

ClearCheck ==
    /\ pc = "clear"
    /\ check' = FALSE
    /\ pc' = "idle"
    /\ UNCHANGED <<starting, configVars, download, timerVars, missed, prepareVars>>

iap_https_check_now ==
    /\ ~starting /\ ~check
    /\ check' = TRUE
    /\ UNCHANGED <<configVars, download, pcVars, timerVars, missed, prepareVars>>

-----------------------------------------------------------------------------
(* The timer service.                                                      *)

ServeCommand ==
    /\ queue # << >>
    /\ LET c == Head(queue) IN
          /\ c.op = "change" => c.period > 0
          /\ timers' = [timers EXCEPT ![c.timer] =
                           IF c.op = "change" THEN Armed(c.period)
                           ELSE IF c.op = "reset" THEN Armed(@.period)
                           ELSE Free]
    /\ queue' = Tail(queue)
    /\ UNCHANGED <<configVars, bits, pcVars, missed, prepareVars>>

\* A period of no ticks is asserted away, and the chip starts anew.
PeriodIsZero ==
    /\ queue # << >> /\ Head(queue).op = "change" /\ Head(queue).period = 0
    /\ polling_interval_s' = PollingInterval
    /\ server_firmware_path' = << >>
    /\ check_for_updates_timer' = NoTimer
    /\ check' = FALSE /\ download' = FALSE
    /\ pc' = "prepare" /\ starting' = TRUE
    /\ timers' = [t \in Timer |-> Free]
    /\ queue' = << >>
    /\ refused' = {} /\ missed' = FALSE /\ lost' = {}

\* The updater's timer elapses too early if no command waits that would start it again
\* and the bit is yet to be cleared.
TooEarly(t) ==
    /\ t = check_for_updates_timer
    /\ pc \in {"reset", "clear"}
    /\ ~Awaits("change", t) /\ ~Awaits("reset", t)

iap_https_periodic_check_timer_callback ==
    /\ \E t \in Timer :
          /\ timers[t].state = "armed"
          /\ timers' = [timers EXCEPT ![t] = Dormant(@.period)]
          /\ missed' = (missed \/ TooEarly(t))
    /\ check' = TRUE
    /\ UNCHANGED <<configVars, download, pcVars, queue, prepareVars>>

Next ==
    \/ Wakes \/ CheckFails \/ (\E p \in MetadataText : iap_https_metadata_body_callback(p)) \/ Download
    \/ CreateTimer \/ HasTimer \/ ChangePeriod \/ ResetTimer \/ DeleteTimer \/ ClearCheck
    \/ iap_https_check_now
    \/ ServeCommand \/ PeriodIsZero \/ iap_https_periodic_check_timer_callback

Spec == Init /\ [][Next]_vars
-----------------------------------------------------------------------------
\* The interval is the 32-bit word of its declaration, the handle is a timer, and
\* never more than QueueLen commands wait.
TypeOK ==
    /\ polling_interval_s \in 0..(Word - 1)
    /\ Len(server_firmware_path) < PathSize
    /\ check_for_updates_timer \in Timer \cup {NoTimer}
    /\ {check, download, starting, missed} \subseteq BOOLEAN
    /\ pc \in {"idle", "check", "prepare", "change", "reset", "clear"}
    /\ \A t \in Timer : timers[t].state \in {"free", "dormant", "armed"}
    /\ Len(queue) =< QueueLen
    /\ refused \subseteq {"create", "change", "reset", "delete"}
    /\ lost \subseteq Timer

\* Between two turns the updater has no timer when it does not poll.  Of the
\* timers that exist one is the updater's, and the others wait for the timer service to
\* delete them, or their deletion has been refused.  No command is sent to a timer that
\* will be gone when it is served.
NoStrayTimer ==
    /\ pc = "idle" /\ polling_interval_s = 0 => check_for_updates_timer = NoTimer
    /\ check_for_updates_timer # NoTimer => timers[check_for_updates_timer] # Free
    /\ \A t \in Existing \ lost : t = check_for_updates_timer \/ Awaits("delete", t)
    /\ \A i, j \in 1..Len(queue) : i < j /\ queue[i].op = "delete" =>
           queue[i].timer # queue[j].timer

\* Between two turns, when all commands have been accepted and served, the timer that
\* runs has the period the server has asked for last.
RunsAtInterval ==
    pc = "idle" /\ refused = {} /\ queue = << >> /\ polling_interval_s > 0 =>
        timers[check_for_updates_timer].period * MsPerS = MsPerS * TickRate * polling_interval_s

\* That is so of intervals whose ticks, times MsPerS, fit into a word.
PeriodIsInterval == MsPerS * TickRate * polling_interval_s < Word => RunsAtInterval

\* "Make sure we have a timer if we need one and don't have one if we don't need one."
\* (iap_https.c): when polling is off and every command served, there is no timer.
OnlyNeededTimer ==
    pc = "idle" /\ polling_interval_s = 0 /\ queue = << >> => Existing = {}

\* Polling stops for three reasons only: the timer could not be created; neither of the
\* two commands was accepted, each of which starts it; or it elapsed between being
\* started and the bit being cleared, which is the race the comment in iap_https_task
\* takes the other way round.
PollingStopsOnlyIf ==
    pc = "idle" /\ polling_interval_s > 0 /\ ~check =>
        \/ \E t \in Existing : /\ t = check_for_updates_timer
                               /\ \/ timers[t].state = "armed"
                                  \/ Awaits("change", t) \/ Awaits("reset", t)
        \/ "create" \in refused \/ {"change", "reset"} \subseteq refused
        \/ missed

\* What the updater takes over from the metadata is what was published, in whatever
\* order the lines come and however they end: the interval whenever it is there, the
\* path, cut to the room there is, only together with the version; and it downloads
\* only what it has the path of.
ReadsWhatWasPublished ==
    [][pc = "check" => \A p \in MetadataText : iap_https_metadata_body_callback(p) =>
          LET whole == p.file["VERSION="] # Absent /\ p.file["FILE="] # Absent
          IN /\ polling_interval_s' = IF p.file["INTERVAL="] = Absent THEN polling_interval_s
                                      ELSE IntOf[p.file["INTERVAL="][1]] % Word
             /\ server_firmware_path' = IF whole THEN Truncated(p.file["FILE="])
                                        ELSE server_firmware_path
             /\ download' <=> \/ download
                              \/ whole /\ IntOf[p.file["VERSION="][1]] # CurrentVersion]_vars
=============================================================================
