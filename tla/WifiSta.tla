------------------------------- MODULE WifiSta -------------------------------
(***************************************************************************)
(* The Wi-Fi station (wifi_sta.c) with the parts of main.c that drive it:  *)
(* app_main sets it up, the event loop task calls the handler for one      *)
(* event after the other, in the order in which the Wi-Fi driver has       *)
(* posted them, and the updater and the LED loop use its event group.      *)
(*                                                                         *)
(* The driver is external: a call of esp_wifi_connect leads to CONNECTED   *)
(* and GOT_IP, or to DISCONNECTED, some time later; a connection that is   *)
(* lost, to DISCONNECTED.                                                  *)
(***************************************************************************)

EXTENDS Naturals, Sequences

VARIABLES
    main,                   \* where app_main is
    wifi_sta_event_group,   \* "null" or "created"
    connected,              \* its bit
    driver,                 \* "off", "idle", "connecting", "associated" or "has_ip"
    events,                 \* posted and not yet handled
    faulty,                 \* may anything fail?
    refused                 \* history: the driver has returned an error since the start

vars == <<main, wifi_sta_event_group, connected, driver, events, faulty, refused>>

Event == {"START", "CONNECTED", "GOT_IP", "DISCONNECTED", "OTHER"}

\* Four events at most are pending, of the 32 that fit (CONFIG_SYSTEM_EVENT_QUEUE_SIZE).
MaxPending == 4

Init ==
    /\ main = "wifi_sta_init"
    /\ wifi_sta_event_group = "null"
    /\ connected = FALSE
    /\ driver = "off"
    /\ events = << >>
    /\ faulty = TRUE
    /\ refused = FALSE

Pending(e) == \E i \in 1..Len(events) : events[i] = e

-----------------------------------------------------------------------------
(* app_main, which does not look at the result of wifi_sta_init.           *)

\* wifi_sta_init up to the creation of the event group.
Configure ==
    /\ main = "wifi_sta_init"
    /\ \/ wifi_sta_event_group' = "created" /\ main' = "esp_wifi_start"
       \/ faulty /\ main' \in {"esp_wifi_start", "loop"} /\ UNCHANGED wifi_sta_event_group
    /\ UNCHANGED <<connected, driver, events, faulty, refused>>

Start ==
    /\ main = "esp_wifi_start"
    /\ main' = "loop"
    /\ \/ driver' = "idle" /\ events' = Append(events, "START") /\ UNCHANGED refused
       \/ faulty /\ refused' = TRUE /\ UNCHANGED <<driver, events>>
    /\ UNCHANGED <<wifi_sta_event_group, connected, faulty>>

\* FreeRTOS asserts that there is an event group, in a wait of the updater, in
\* wifi_sta_is_connected of the LED loop or of the handler; then, as when power is
\* cut, the chip starts anew.
UsesNullGroup ==
    /\ wifi_sta_event_group = "null"
    /\ main = "loop" \/ (events # << >> /\ Head(events) \in {"GOT_IP", "DISCONNECTED"})

Restart ==
    /\ faulty \/ UsesNullGroup
    /\ main' = "wifi_sta_init"
    /\ wifi_sta_event_group' = "null"
    /\ connected' = FALSE
    /\ driver' = "off"
    /\ events' = << >>
    /\ refused' = FALSE
    /\ UNCHANGED faulty

-----------------------------------------------------------------------------
(* wifi_sta_handle_event, called by app_event_handler in the event loop.   *)

Handles(e) ==
    /\ events # << >> /\ Head(events) = e
    /\ events' = Tail(events)
    /\ UNCHANGED <<main, wifi_sta_event_group, faulty>>

\* An error is returned to the event loop, which does nothing about it.
esp_wifi_connect ==
    \/ driver' = "connecting" /\ UNCHANGED refused
    \/ faulty /\ refused' = TRUE /\ UNCHANGED driver

HandleStart ==
    /\ Handles("START")
    /\ esp_wifi_connect
    /\ UNCHANGED connected

\* Mutant: the handler asks for a connection when it has one.
ConnectsAgain ==
    /\ Handles("CONNECTED")
    /\ esp_wifi_connect
    /\ UNCHANGED connected

HandleConnected ==
    /\ Handles("CONNECTED")
    /\ UNCHANGED <<driver, connected, refused>>

HandleGotIp ==
    /\ Handles("GOT_IP")
    /\ wifi_sta_event_group = "created"
    /\ connected' = TRUE
    /\ UNCHANGED <<driver, refused>>

\* Mutants: the bit stays set; no new connection is asked for.
DisconnectionKeepsBit ==
    /\ Handles("DISCONNECTED")
    /\ wifi_sta_event_group = "created"
    /\ esp_wifi_connect
    /\ UNCHANGED connected
GivesUp ==
    /\ Handles("DISCONNECTED")
    /\ wifi_sta_event_group = "created"
    /\ connected' = FALSE
    /\ UNCHANGED <<driver, refused>>

HandleDisconnected ==
    /\ Handles("DISCONNECTED")
    /\ wifi_sta_event_group = "created"
    /\ connected' = FALSE
    /\ esp_wifi_connect

\* An event "not for us".
HandleOther ==
    /\ Handles("OTHER")
    /\ UNCHANGED <<driver, connected, refused>>

Handler == HandleStart \/ HandleConnected \/ HandleGotIp \/ HandleDisconnected \/ HandleOther

-----------------------------------------------------------------------------
(* The Wi-Fi driver and the access point.                                  *)

Posts(from, to, e) ==
    /\ driver = from /\ driver' = to
    /\ events' = Append(events, e)
    /\ UNCHANGED <<main, wifi_sta_event_group, connected, faulty, refused>>

Associates == Posts("connecting", "associated", "CONNECTED")
GetsAddress == Posts("associated", "has_ip", "GOT_IP")
LosesLink ==
    /\ faulty
    /\ \E from \in {"connecting", "associated", "has_ip"} : Posts(from, "idle", "DISCONNECTED")

\* One at a time.
OtherEvent ==
    /\ faulty /\ driver # "off" /\ ~Pending("OTHER")
    /\ Posts(driver, driver, "OTHER")

Settle ==
    /\ faulty
    /\ faulty' = FALSE
    /\ UNCHANGED <<main, wifi_sta_event_group, connected, driver, events, refused>>

Next ==
    \/ Configure \/ Start \/ Restart
    \/ Handler
    \/ Associates \/ GetsAddress \/ LosesLink \/ OtherEvent \/ Settle

\* The tasks run, and the access point lets a station in that asks for it.
Fairness ==
    /\ WF_vars(Configure \/ Start)
    /\ WF_vars(UsesNullGroup /\ Restart)
    /\ WF_vars(Handler)
    /\ WF_vars(Associates \/ GetsAddress)

Spec == Init /\ [][Next]_vars /\ Fairness

-----------------------------------------------------------------------------
TypeOK ==
    /\ main \in {"wifi_sta_init", "esp_wifi_start", "loop"}
    /\ wifi_sta_event_group \in {"null", "created"}
    /\ connected \in BOOLEAN
    /\ driver \in {"off", "idle", "connecting", "associated", "has_ip"}
    /\ events \in Seq(Event)
    /\ faulty \in BOOLEAN /\ refused \in BOOLEAN

\* The event queue never comes near its limit, however late the handler runs: a new
\* connection is only asked for when the last event of the old one is handled.  (An
\* event that does not fit is lost, and a lost DISCONNECTED would be the last.)
EventsFit == Len(events) =< MaxPending

\* When no event is pending that would change it, the bit the updater waits for says
\* whether the station has an address.
BitIsCurrent ==
    ~Pending("GOT_IP") /\ ~Pending("DISCONNECTED") => (connected <=> driver = "has_ip")

\* A station that has no connection and has not asked for one is about to: the event
\* that makes it ask is pending.  Otherwise the driver has returned an error, which
\* nothing makes good: the handler passes it on to the event loop.
NeverStranded ==
    driver = "idle" => Pending("START") \/ Pending("DISCONNECTED") \/ refused

Link == INSTANCE WifiLink WITH faulty <- faulty \/ refused \/ Pending("DISCONNECTED")

\* "This module maintains the connection to the defined access point" (main.c), and the
\* updater relies on it: the bit comes and goes while links fail, and once nothing fails
\* any more, and if the driver has refused nothing, it comes to stay.  The end of the
\* faults is the last DISCONNECTED that is handled.
ProvidesLink == Link!Spec
=============================================================================
