------------------------------- MODULE WifiLink -------------------------------
(***************************************************************************)
(* What the Wi-Fi station promises to those who wait for its bit: links    *)
(* fail only while faults last; then it connects, and stays connected.     *)
(***************************************************************************)

VARIABLES connected,        \* the event group bit of wifi_sta.c
          faulty            \* may links fail?

Init == connected = FALSE /\ faulty \in BOOLEAN

Connects ==
    /\ ~connected
    /\ connected' = TRUE

Disconnects ==
    /\ faulty
    /\ connected
    /\ connected' = FALSE

Next ==
    /\ Connects \/ Disconnects \/ UNCHANGED connected
    /\ faulty' => faulty

Spec == Init /\ [][Next]_<<connected, faulty>> /\ WF_connected(~faulty /\ Connects)
=============================================================================
