----------------------------- MODULE WifiStaProofs -----------------------------
(***************************************************************************)
(* Theorems about WifiSta: whatever the driver does and however late the   *)
(* event loop runs, the queue stays short, the bit is right, and no station*)
(* is stranded but for an error of the driver.                             *)
(***************************************************************************)

EXTENDS WifiSta, TLAPS

\* An event is pending once at most.
Once == \A i, j \in 1..Len(events) : events[i] = events[j] => i = j

\* What a link brought is pending before the end of that link.
EndOfLinkIsLast ==
    \A i, j \in 1..Len(events) :
        events[j] = "DISCONNECTED" /\ events[i] \in {"CONNECTED", "GOT_IP"} => i < j

\* What the pending events say about the driver.
EventsFollowDriver ==
    /\ main # "loop" => driver = "off"
    /\ driver = "off" => events = << >> /\ ~connected
    /\ Pending("START") => /\ driver = "idle" /\ ~connected
                           /\ \A i \in 1..Len(events) : events[i] \in {"START", "OTHER"}
    /\ Pending("DISCONNECTED") => driver = "idle"
    /\ Pending("CONNECTED") /\ ~Pending("DISCONNECTED") => driver \in {"associated", "has_ip"}
    /\ Pending("GOT_IP") /\ ~Pending("DISCONNECTED") => driver = "has_ip"

StationInv ==
    /\ TypeOK
    /\ Once
    /\ EndOfLinkIsLast
    /\ EventsFollowDriver
    /\ BitIsCurrent
    /\ NeverStranded

-----------------------------------------------------------------------------
\* What is left in the queue when its first event is handled.
LEMMA AfterHandling ==
    ASSUME TypeOK, NEW e, Handles(e)
    PROVE  /\ events' \in Seq(Event)
           /\ Len(events) \in Nat /\ 1 =< Len(events) /\ events[1] = e
           /\ Len(events') = Len(events) - 1
           /\ \A i \in 1..Len(events') : events'[i] = events[i + 1]
           /\ \A f : Pending(f)' <=> \E i \in 2..Len(events) : events[i] = f
<1>1. events \in Seq(Event) /\ events # << >> /\ events[1] = e /\ events' = Tail(events)
  BY DEF TypeOK, Handles
<1>2. /\ events' \in Seq(Event)
      /\ Len(events) \in Nat /\ 1 =< Len(events)
      /\ Len(events') = Len(events) - 1
      /\ \A i \in 1..Len(events') : events'[i] = events[i + 1]
  BY <1>1
<1>3. ASSUME NEW f PROVE Pending(f)' <=> \E i \in 2..Len(events) : events[i] = f
  <2>1. ASSUME Pending(f)' PROVE \E i \in 2..Len(events) : events[i] = f
    <3>1. PICK i \in 1..Len(events') : events'[i] = f
      BY <2>1 DEF Pending
    <3>2. i + 1 \in 2..Len(events) /\ events[i + 1] = f
      BY <3>1, <1>2
    <3> QED BY <3>2
  <2>2. ASSUME NEW i \in 2..Len(events), events[i] = f PROVE Pending(f)'
    <3>1. i - 1 \in 1..Len(events') /\ events'[i - 1] = events[(i - 1) + 1] /\ (i - 1) + 1 = i
      BY <1>2
    <3>2. i - 1 \in 1..Len(events') /\ events'[i - 1] = f
      BY <3>1, <2>2
    <3> QED BY <3>2 DEF Pending
  <2> QED BY <2>1, <2>2
<1> QED BY <1>1, <1>2, <1>3

\* What is in the queue when an event has been posted.
LEMMA AfterPosting ==
    ASSUME TypeOK, NEW e \in Event, events' = Append(events, e)
    PROVE  /\ events' \in Seq(Event)
           /\ Len(events) \in Nat
           /\ Len(events') = Len(events) + 1
           /\ events'[Len(events) + 1] = e
           /\ \A i \in 1..Len(events) : events'[i] = events[i]
           /\ \A f : Pending(f)' <=> f = e \/ Pending(f)
<1>1. /\ events' \in Seq(Event)
      /\ Len(events) \in Nat
      /\ Len(events') = Len(events) + 1
      /\ events'[Len(events) + 1] = e
      /\ \A i \in 1..Len(events) : events'[i] = events[i]
  BY DEF TypeOK
<1>2. ASSUME NEW f PROVE Pending(f)' <=> f = e \/ Pending(f)
  BY <1>1 DEF Pending
<1> QED BY <1>1, <1>2

\* An event that is posted only when it is not pending, and not behind the end of a
\* link, keeps the order of the queue.
LEMMA PostingKeepsOrder ==
    ASSUME TypeOK, Once, EndOfLinkIsLast, NEW e \in Event, events' = Append(events, e),
           ~Pending(e), e \in {"CONNECTED", "GOT_IP"} => ~Pending("DISCONNECTED")
    PROVE  Once' /\ EndOfLinkIsLast'
<1>1. /\ Len(events) \in Nat
      /\ Len(events') = Len(events) + 1
      /\ events'[Len(events) + 1] = e
      /\ \A i \in 1..Len(events) : events'[i] = events[i]
  BY AfterPosting
<1>2. \A i \in 1..Len(events) : events[i] # e
  BY DEF Pending
<1>3. Once'
  BY <1>1, <1>2 DEF Once
<1>4. EndOfLinkIsLast'
  BY <1>1, <1>2 DEF EndOfLinkIsLast, Pending
<1> QED BY <1>3, <1>4

\* Handling an event keeps the order of the others.
LEMMA HandlingKeepsOrder ==
    ASSUME TypeOK, Once, EndOfLinkIsLast, NEW e, Handles(e)
    PROVE  /\ Once' /\ EndOfLinkIsLast'
           /\ ~Pending(e)'
           /\ \A f : f # e => (Pending(f)' <=> Pending(f))
           /\ e = "DISCONNECTED" => ~Pending("CONNECTED")' /\ ~Pending("GOT_IP")'
<1>1. /\ Len(events) \in Nat /\ 1 =< Len(events) /\ events[1] = e
      /\ Len(events') = Len(events) - 1
      /\ \A i \in 1..Len(events') : events'[i] = events[i + 1]
      /\ \A f : Pending(f)' <=> \E i \in 2..Len(events) : events[i] = f
  BY AfterHandling
<1>2. Once'
  <2> SUFFICES ASSUME NEW i \in 1..Len(events'), NEW j \in 1..Len(events'),
                      events'[i] = events'[j]
               PROVE  i = j
    BY DEF Once
  <2>1. i + 1 \in 1..Len(events) /\ j + 1 \in 1..Len(events) /\ events[i + 1] = events[j + 1]
    BY <1>1
  <2>2. i + 1 = j + 1
    BY <2>1 DEF Once
  <2> QED BY <2>2, <1>1
<1>3. EndOfLinkIsLast'
  <2> SUFFICES ASSUME NEW i \in 1..Len(events'), NEW j \in 1..Len(events'),
                      events'[j] = "DISCONNECTED", events'[i] \in {"CONNECTED", "GOT_IP"}
               PROVE  i < j
    BY DEF EndOfLinkIsLast
  <2>1. /\ i + 1 \in 1..Len(events) /\ j + 1 \in 1..Len(events)
        /\ events[j + 1] = "DISCONNECTED" /\ events[i + 1] \in {"CONNECTED", "GOT_IP"}
    BY <1>1
  <2>2. i + 1 < j + 1
    BY <2>1 DEF EndOfLinkIsLast
  <2> QED BY <2>2, <1>1
<1>4. ~Pending(e)'
  <2>1. \A i \in 2..Len(events) : events[i] # e
    BY <1>1 DEF Once
  <2> QED BY <2>1, <1>1
<1>5. ASSUME NEW f, f # e PROVE Pending(f)' <=> Pending(f)
  <2>1. Pending(f) <=> \E i \in 2..Len(events) : events[i] = f
    BY <1>1, <1>5 DEF Pending
  <2> QED BY <2>1, <1>1
<1>6. ASSUME e = "DISCONNECTED" PROVE ~Pending("CONNECTED")' /\ ~Pending("GOT_IP")'
  <2>1. \A i \in 2..Len(events) : events[i] \notin {"CONNECTED", "GOT_IP"}
    BY <1>1, <1>6 DEF EndOfLinkIsLast
  <2> QED BY <2>1, <1>1
<1> QED BY <1>2, <1>3, <1>4, <1>5, <1>6

-----------------------------------------------------------------------------
LEMMA NoEvents == << >> \in Seq(Event)
  OBVIOUS

LEMMA InitEstablishes == Init => StationInv
<1> SUFFICES ASSUME Init PROVE StationInv
  OBVIOUS
<1>1. TypeOK BY NoEvents DEF Init, TypeOK
<1>2. 1..Len(events) = {} BY DEF Init
<1>3. Once /\ EndOfLinkIsLast /\ \A e : ~Pending(e)
  BY <1>2 DEF Once, EndOfLinkIsLast, Pending
<1> QED BY <1>1, <1>3 DEF Init, StationInv, EventsFollowDriver, BitIsCurrent, NeverStranded

LEMMA StepKeepsTypes == TypeOK /\ [Next]_vars => TypeOK'
<1> SUFFICES ASSUME TypeOK, [Next]_vars PROVE TypeOK'
  OBVIOUS
<1>1. CASE Configure BY <1>1 DEF Configure, TypeOK
<1>2. CASE Start
  <2>1. "START" \in Event BY DEF Event
  <2>2. events' = Append(events, "START") => events' \in Seq(Event)
    BY <2>1, AfterPosting
  <2> QED BY <1>2, <2>2 DEF Start, TypeOK
<1>3. CASE Restart BY <1>3, NoEvents DEF Restart, TypeOK
<1>4. CASE Handler
  <2>1. PICK e : Handles(e)
    BY <1>4 DEF Handler, HandleStart, HandleConnected, HandleGotIp, HandleDisconnected, HandleOther
  <2>2. events' \in Seq(Event)
    BY <2>1, AfterHandling
  <2>3. driver' \in {driver, "connecting"} /\ connected' \in {connected, TRUE, FALSE}
        /\ refused' \in {refused, TRUE}
    BY <1>4 DEF Handler, HandleStart, HandleConnected, HandleGotIp, HandleDisconnected,
                HandleOther, esp_wifi_connect
  <2> QED BY <2>1, <2>2, <2>3 DEF Handles, TypeOK
<1>5. CASE Associates \/ GetsAddress \/ LosesLink \/ OtherEvent
  <2>1. PICK to \in {"idle", "associated", "has_ip", driver}, e \in Event :
           /\ driver' = to /\ events' = Append(events, e)
           /\ UNCHANGED <<main, wifi_sta_event_group, connected, faulty, refused>>
    BY <1>5 DEF Associates, GetsAddress, LosesLink, OtherEvent, Posts, Event
  <2>2. events' \in Seq(Event)
    BY <2>1, AfterPosting
  <2> QED BY <2>1, <2>2 DEF TypeOK
<1>6. CASE Settle BY <1>6 DEF Settle, TypeOK
<1>7. CASE UNCHANGED vars BY <1>7 DEF vars, TypeOK
<1> QED BY <1>1, <1>2, <1>3, <1>4, <1>5, <1>6, <1>7 DEF Next

\* The handler takes the bit and the driver from what one event says to what the next
\* one does.
LEMMA HandlerKeeps == StationInv /\ Handler => StationInv'
<1> SUFFICES ASSUME StationInv, Handler PROVE StationInv'
  OBVIOUS
<1>1. TypeOK /\ Once /\ EndOfLinkIsLast /\ EventsFollowDriver /\ BitIsCurrent /\ NeverStranded
  BY DEF StationInv
<1>2. TypeOK'
  BY <1>1, StepKeepsTypes DEF Next
<1>3. ASSUME NEW e, Handles(e), e # "START", Pending("START")
      PROVE  Pending("START")' =>
                \A i \in 1..Len(events') : events'[i] \in {"START", "OTHER"}
  <2>1. \A i \in 1..Len(events) : events[i] \in {"START", "OTHER"}
    BY <1>1, <1>3 DEF EventsFollowDriver
  <2>2. /\ Len(events) \in Nat /\ Len(events') = Len(events) - 1
        /\ \A i \in 1..Len(events') : events'[i] = events[i + 1]
    BY <1>1, <1>3, AfterHandling
  <2> QED BY <2>1, <2>2
<1>4. ASSUME NEW e, Handles(e)
      PROVE  Pending(e) /\ events # << >> /\ main' = main
  <2>1. Len(events) \in Nat /\ 1 =< Len(events) /\ events[1] = e
    BY <1>1, <1>4, AfterHandling
  <2> QED BY <2>1, <1>4 DEF Pending, Handles
<1>5. CASE HandleStart
  <2>0. Handles("START") BY <1>5 DEF HandleStart
  <2>1. /\ Once' /\ EndOfLinkIsLast' /\ ~Pending("START")'
        /\ \A f : f # "START" => (Pending(f)' <=> Pending(f))
    BY <1>1, <2>0, HandlingKeepsOrder
  <2>2. ~Pending("DISCONNECTED") /\ ~Pending("GOT_IP") /\ ~Pending("CONNECTED")
        /\ ~connected /\ driver = "idle" /\ main = "loop"
    BY <1>1, <1>4, <2>0 DEF EventsFollowDriver, Pending
  <2> QED BY <1>2, <1>4, <2>0, <2>1, <2>2, <1>5
       DEF HandleStart, esp_wifi_connect, StationInv, EventsFollowDriver, BitIsCurrent, NeverStranded
<1>6. CASE HandleDisconnected
  <2>0. Handles("DISCONNECTED") BY <1>6 DEF HandleDisconnected
  <2>1. /\ Once' /\ EndOfLinkIsLast' /\ ~Pending("DISCONNECTED")'
        /\ \A f : f # "DISCONNECTED" => (Pending(f)' <=> Pending(f))
        /\ ~Pending("CONNECTED")' /\ ~Pending("GOT_IP")'
    BY <1>1, <2>0, HandlingKeepsOrder
  <2>2. Pending("DISCONNECTED") /\ driver = "idle" /\ main = "loop" /\ ~Pending("START")
    BY <1>1, <1>4, <2>0 DEF EventsFollowDriver, Pending
  <2> QED BY <1>2, <1>4, <2>0, <2>1, <2>2, <1>6
       DEF HandleDisconnected, esp_wifi_connect, StationInv, EventsFollowDriver, BitIsCurrent,
           NeverStranded
<1>7. CASE HandleGotIp
  <2>0. Handles("GOT_IP") BY <1>7 DEF HandleGotIp
  <2>1. /\ Once' /\ EndOfLinkIsLast' /\ ~Pending("GOT_IP")'
        /\ \A f : f # "GOT_IP" => (Pending(f)' <=> Pending(f))
    BY <1>1, <2>0, HandlingKeepsOrder
  <2>2. ~Pending("START") /\ Pending("GOT_IP") /\ main = "loop" /\ driver # "off"
    BY <1>1, <1>4, <2>0 DEF EventsFollowDriver, Pending
  <2> QED BY <1>1, <1>2, <1>4, <2>0, <2>1, <2>2, <1>7
       DEF HandleGotIp, StationInv, EventsFollowDriver, BitIsCurrent, NeverStranded
<1>8. CASE HandleConnected \/ HandleOther
  <2>0. PICK e \in {"CONNECTED", "OTHER"} : Handles(e) /\ UNCHANGED <<driver, connected, refused>>
    BY <1>8 DEF HandleConnected, HandleOther
  <2>1. /\ Once' /\ EndOfLinkIsLast' /\ ~Pending(e)'
        /\ \A f : f # e => (Pending(f)' <=> Pending(f))
    BY <1>1, <2>0, HandlingKeepsOrder
  <2>2. Pending(e) /\ main' = main /\ driver # "off" /\ main = "loop"
    BY <1>1, <1>4, <2>0 DEF EventsFollowDriver
  <2>3. /\ Pending("START")' <=> Pending("START")
        /\ Pending("DISCONNECTED")' <=> Pending("DISCONNECTED")
        /\ Pending("GOT_IP")' <=> Pending("GOT_IP")
        /\ Pending("CONNECTED")' => Pending("CONNECTED")
    BY <2>0, <2>1
  <2>4. Pending("START")' => \A i \in 1..Len(events') : events'[i] \in {"START", "OTHER"}
    BY <1>3, <2>0, <2>3
  <2>5. EventsFollowDriver'
    BY <1>1, <2>0, <2>2, <2>3, <2>4 DEF EventsFollowDriver
  <2>6. BitIsCurrent' /\ NeverStranded'
    BY <1>1, <2>0, <2>3 DEF BitIsCurrent, NeverStranded
  <2> QED BY <1>2, <2>1, <2>5, <2>6 DEF StationInv
<1> QED BY <1>5, <1>6, <1>7, <1>8 DEF Handler

\* What the driver posts is in line with what it does.
LEMMA DriverKeeps ==
    StationInv /\ (Start \/ Associates \/ GetsAddress \/ LosesLink \/ OtherEvent) => StationInv'
<1> SUFFICES ASSUME StationInv, Start \/ Associates \/ GetsAddress \/ LosesLink \/ OtherEvent
             PROVE  StationInv'
  OBVIOUS
<1>1. TypeOK /\ Once /\ EndOfLinkIsLast /\ EventsFollowDriver /\ BitIsCurrent /\ NeverStranded
  BY DEF StationInv
<1>2. TypeOK'
  BY <1>1, StepKeepsTypes DEF Next
<1>3. ASSUME NEW e \in Event, events' = Append(events, e), ~Pending(e),
             e \in {"CONNECTED", "GOT_IP"} => ~Pending("DISCONNECTED")
      PROVE  /\ Once' /\ EndOfLinkIsLast' /\ events' # << >>
             /\ \A f : Pending(f)' <=> f = e \/ Pending(f)
             /\ Len(events) \in Nat /\ Len(events') = Len(events) + 1
             /\ events'[Len(events) + 1] = e
             /\ \A i \in 1..Len(events) : events'[i] = events[i]
  <2>1. Once' /\ EndOfLinkIsLast'
    BY <1>1, <1>3, PostingKeepsOrder
  <2> QED BY <1>1, <1>3, <2>1, AfterPosting
<1>4. CASE Start /\ UNCHANGED events
  BY <1>1, <1>2, <1>4 DEF Start, StationInv, Once, EndOfLinkIsLast, EventsFollowDriver,
                          BitIsCurrent, NeverStranded, Pending
<1>5. CASE Start /\ events' = Append(events, "START") /\ driver' = "idle"
  <2>1. events = << >> /\ ~connected /\ driver = "off" /\ \A f : ~Pending(f)
    BY <1>1, <1>5 DEF Start, EventsFollowDriver, Pending
  <2>2. /\ Once' /\ EndOfLinkIsLast' /\ events' # << >>
        /\ \A f : Pending(f)' <=> f = "START" \/ Pending(f)
    BY <1>3, <1>5, <2>1 DEF Event
  <2>3. \A i \in 1..Len(events') : events'[i] \in {"START", "OTHER"}
    BY <2>1, <1>5
  <2> QED BY <1>2, <1>5, <2>1, <2>2, <2>3
       DEF Start, StationInv, EventsFollowDriver, BitIsCurrent, NeverStranded
<1>6. CASE Associates
  <2>1. ~Pending("DISCONNECTED") /\ ~Pending("CONNECTED") /\ ~Pending("START")
        /\ ~Pending("GOT_IP") /\ ~connected /\ main = "loop"
    BY <1>1, <1>6 DEF Associates, Posts, EventsFollowDriver, BitIsCurrent
  <2>2. /\ Once' /\ EndOfLinkIsLast' /\ events' # << >>
        /\ \A f : Pending(f)' <=> f = "CONNECTED" \/ Pending(f)
    BY <1>3, <1>6, <2>1 DEF Event, Associates, Posts
  <2> QED BY <1>2, <1>6, <2>1, <2>2
       DEF Associates, Posts, StationInv, EventsFollowDriver, BitIsCurrent, NeverStranded
<1>7. CASE GetsAddress
  <2>1. ~Pending("DISCONNECTED") /\ ~Pending("START") /\ ~Pending("GOT_IP") /\ main = "loop"
    BY <1>1, <1>7 DEF GetsAddress, Posts, EventsFollowDriver
  <2>2. /\ Once' /\ EndOfLinkIsLast' /\ events' # << >>
        /\ \A f : Pending(f)' <=> f = "GOT_IP" \/ Pending(f)
    BY <1>3, <1>7, <2>1 DEF Event, GetsAddress, Posts
  <2> QED BY <1>2, <1>7, <2>1, <2>2
       DEF GetsAddress, Posts, StationInv, EventsFollowDriver, BitIsCurrent, NeverStranded
<1>8. CASE LosesLink
  <2>0. /\ events' = Append(events, "DISCONNECTED")
        /\ driver \in {"connecting", "associated", "has_ip"} /\ driver' = "idle"
        /\ UNCHANGED <<main, connected, refused>>
    BY <1>8 DEF LosesLink, Posts
  <2>1. ~Pending("DISCONNECTED") /\ ~Pending("START") /\ main = "loop"
    BY <1>1, <2>0 DEF EventsFollowDriver
  <2>2. /\ Once' /\ EndOfLinkIsLast' /\ events' # << >>
        /\ \A f : Pending(f)' <=> f = "DISCONNECTED" \/ Pending(f)
    BY <1>3, <2>0, <2>1 DEF Event
  <2> QED BY <1>2, <2>0, <2>1, <2>2
       DEF StationInv, EventsFollowDriver, BitIsCurrent, NeverStranded
<1>9. CASE OtherEvent
  <2>0. /\ events' = Append(events, "OTHER") /\ ~Pending("OTHER") /\ driver # "off"
        /\ UNCHANGED <<main, connected, refused, driver>>
    BY <1>9 DEF OtherEvent, Posts
  <2>2. /\ Once' /\ EndOfLinkIsLast' /\ events' # << >>
        /\ \A f : Pending(f)' <=> f = "OTHER" \/ Pending(f)
        /\ Len(events) \in Nat /\ Len(events') = Len(events) + 1
        /\ events'[Len(events) + 1] = "OTHER"
        /\ \A i \in 1..Len(events) : events'[i] = events[i]
    BY <1>3, <2>0 DEF Event
  <2>3. Pending("START")' => \A i \in 1..Len(events') : events'[i] \in {"START", "OTHER"}
    <3> SUFFICES ASSUME Pending("START")', NEW i \in 1..Len(events')
                 PROVE  events'[i] \in {"START", "OTHER"}
      OBVIOUS
    <3>1. \A j \in 1..Len(events) : events[j] \in {"START", "OTHER"}
      BY <1>1, <2>2 DEF EventsFollowDriver
    <3> QED BY <3>1, <2>2
  <2>4. EventsFollowDriver'
    BY <1>1, <2>0, <2>2, <2>3 DEF EventsFollowDriver
  <2>5. BitIsCurrent' /\ NeverStranded'
    BY <1>1, <2>0, <2>2 DEF BitIsCurrent, NeverStranded
  <2> QED BY <1>2, <2>2, <2>4, <2>5 DEF StationInv
<1>10. Start => \/ UNCHANGED events
                \/ events' = Append(events, "START") /\ driver' = "idle"
  BY DEF Start
<1> QED BY <1>4, <1>5, <1>6, <1>7, <1>8, <1>9, <1>10

LEMMA StationStep == StationInv /\ [Next]_vars => StationInv'
<1> SUFFICES ASSUME StationInv, [Next]_vars PROVE StationInv'
  OBVIOUS
<1>1. TypeOK' BY StepKeepsTypes DEF StationInv
<1>2. CASE Configure
  BY <1>1, <1>2 DEF Configure, StationInv, Once, EndOfLinkIsLast, EventsFollowDriver,
                    BitIsCurrent, NeverStranded, Pending
<1>3. CASE Restart
  BY <1>1, <1>3 DEF Restart, StationInv, Once, EndOfLinkIsLast, EventsFollowDriver,
                    BitIsCurrent, NeverStranded, Pending
<1>4. CASE Settle \/ UNCHANGED vars
  BY <1>1, <1>4 DEF Settle, vars, StationInv, Once, EndOfLinkIsLast, EventsFollowDriver,
                    BitIsCurrent, NeverStranded, Pending
<1> QED BY <1>2, <1>3, <1>4, HandlerKeeps, DriverKeeps DEF Next

LEMMA StationAlways == Spec => []StationInv
<1>1. Init => StationInv BY InitEstablishes
<1>2. StationInv /\ [Next]_vars => StationInv' BY StationStep
<1> QED BY <1>1, <1>2, PTL DEF Spec

-----------------------------------------------------------------------------
\* The bit tells the truth when no event is pending that would change it: handlers,
\* links and restarts in any order.
THEOREM BitIsTrue == Spec => []BitIsCurrent
<1>1. StationInv => BitIsCurrent BY DEF StationInv
<1> QED BY <1>1, StationAlways, PTL

\* A station without a connection is about to ask for one, or the driver has refused.
THEOREM NobodyStranded == Spec => []NeverStranded
<1>1. StationInv => NeverStranded BY DEF StationInv
<1> QED BY <1>1, StationAlways, PTL

\* Four events at most are pending, however late the event loop runs: five would be
\* one of each kind, and nothing comes behind a START but events for others.
THEOREM QueueStaysShort == Spec => []EventsFit
<1>1. StationInv => EventsFit
  <2> SUFFICES ASSUME StationInv, Len(events) > 4 PROVE FALSE
    BY DEF EventsFit, MaxPending, StationInv, TypeOK
  <2>1. events \in Seq(Event) /\ Len(events) \in Nat
    BY DEF StationInv, TypeOK
  <2>2. {1, 2, 3, 4, 5} \subseteq 1..Len(events)
    BY <2>1
  <2>3. \A i \in {1, 2, 3, 4, 5} : events[i] \in Event
    BY <2>1, <2>2
  <2>4. \A i, j \in {1, 2, 3, 4, 5} : events[i] = events[j] => i = j
    BY <2>2 DEF StationInv, Once
  <2>5. PICK i \in {1, 2, 3, 4, 5} : events[i] = "START"
    BY <2>3, <2>4 DEF Event
  <2>6. \A j \in {1, 2, 3, 4, 5} : events[j] \in {"START", "OTHER"}
    BY <2>2, <2>5 DEF StationInv, EventsFollowDriver, Pending
  <2> QED BY <2>4, <2>6
<1> QED BY <1>1, StationAlways, PTL

-----------------------------------------------------------------------------
(* The promise of WifiLink, but for its fairness.                          *)

NoBitWithoutGroup == wifi_sta_event_group = "null" => ~connected

LEMMA GroupStep == TypeOK /\ NoBitWithoutGroup /\ [Next]_vars => NoBitWithoutGroup'
<1> SUFFICES ASSUME TypeOK, NoBitWithoutGroup, [Next]_vars PROVE NoBitWithoutGroup'
  OBVIOUS
<1> USE DEF NoBitWithoutGroup
<1>1. CASE Configure \/ Start \/ Restart
  BY <1>1 DEF Configure, Start, Restart
<1>2. CASE Handler
  BY <1>2 DEF Handler, HandleStart, HandleConnected, HandleGotIp, HandleDisconnected,
              HandleOther, Handles
<1>3. CASE Associates \/ GetsAddress \/ LosesLink \/ OtherEvent
  BY <1>3 DEF Associates, GetsAddress, LosesLink, OtherEvent, Posts
<1>4. CASE Settle \/ UNCHANGED vars
  BY <1>4 DEF Settle, vars
<1> QED BY <1>1, <1>2, <1>3, <1>4 DEF Next

\* Links fail, and the driver refuses, only while faults last, and no handled event
\* makes a loss pending.
LEMMA FaultsOnlyCease ==
    StationInv /\ [Next]_vars =>
        ((faulty \/ refused \/ Pending("DISCONNECTED"))' => faulty \/ refused \/ Pending("DISCONNECTED"))
<1> SUFFICES ASSUME StationInv, [Next]_vars, ~faulty, ~refused, ~Pending("DISCONNECTED")
             PROVE  ~faulty' /\ ~refused' /\ ~Pending("DISCONNECTED")'
  OBVIOUS
<1>0. TypeOK /\ Once /\ EndOfLinkIsLast BY DEF StationInv
<1>1. CASE Configure \/ Restart \/ Settle \/ UNCHANGED vars
  BY <1>1 DEF Configure, Restart, Settle, vars, Pending
<1>2. CASE Start \/ Associates \/ GetsAddress \/ LosesLink \/ OtherEvent
  <2>1. ~faulty' /\ ~refused'
    BY <1>2 DEF Start, Associates, GetsAddress, LosesLink, OtherEvent, Posts
  <2>2. PICK e \in {"START", "CONNECTED", "GOT_IP"} : events' = Append(events, e)
    BY <1>2 DEF Start, Associates, GetsAddress, LosesLink, OtherEvent, Posts
  <2>3. Pending("DISCONNECTED")' <=> "DISCONNECTED" = e \/ Pending("DISCONNECTED")
    <3>1. e \in Event BY DEF Event
    <3> QED BY <1>0, <2>2, <3>1, AfterPosting
  <2> QED BY <2>1, <2>3
<1>3. CASE Handler
  <2>1. ~faulty' /\ ~refused'
    BY <1>3 DEF Handler, HandleStart, HandleConnected, HandleGotIp, HandleDisconnected,
                HandleOther, Handles, esp_wifi_connect
  <2>2. PICK e : Handles(e)
    BY <1>3 DEF Handler, HandleStart, HandleConnected, HandleGotIp, HandleDisconnected, HandleOther
  <2>3. ~Pending("DISCONNECTED")'
    BY <1>0, <2>2, HandlingKeepsOrder
  <2> QED BY <2>1, <2>3
<1> QED BY <1>1, <1>2, <1>3 DEF Next

\* The bit is only lost while links may fail: to the handler of a disconnection, or in
\* a restart.
LEMMA BitIsKept ==
    StationInv /\ NoBitWithoutGroup /\ [Next]_vars /\ connected /\ ~connected' =>
        faulty \/ Pending("DISCONNECTED")
<1> SUFFICES ASSUME StationInv, NoBitWithoutGroup, [Next]_vars, connected, ~connected'
             PROVE  faulty \/ Pending("DISCONNECTED")
  OBVIOUS
<1>1. CASE Restart
  BY <1>1 DEF Restart, UsesNullGroup, NoBitWithoutGroup
<1>2. CASE Handler
  <2>1. Handles("DISCONNECTED")
    BY <1>2 DEF Handler, HandleStart, HandleConnected, HandleGotIp, HandleDisconnected, HandleOther
  <2>2. Len(events) \in Nat /\ 1 =< Len(events) /\ events[1] = "DISCONNECTED"
    BY <2>1, AfterHandling DEF StationInv
  <2> QED BY <2>2 DEF Pending
<1>3. CASE Configure \/ Start \/ Associates \/ GetsAddress \/ LosesLink \/ OtherEvent \/ Settle
  BY <1>3 DEF Configure, Start, Associates, GetsAddress, LosesLink, OtherEvent, Posts, Settle
<1> QED BY <1>1, <1>2, <1>3 DEF Next, vars

\* Every step of the station is one WifiLink allows, or leaves the bit alone: those who
\* wait for the bit, as the updater does, may take the one for the other.
THEOREM KeepsLinkPromise ==
    Spec => /\ Link!Init
            /\ [][Link!Next]_<<connected, faulty \/ refused \/ Pending("DISCONNECTED")>>
<1>1. Init => StationInv /\ NoBitWithoutGroup /\ Link!Init
  BY InitEstablishes DEF Init, NoBitWithoutGroup, Link!Init, Pending
<1>2. StationInv /\ NoBitWithoutGroup /\ [Next]_vars => StationInv' /\ NoBitWithoutGroup'
  BY StationStep, GroupStep DEF StationInv
<1>3. StationInv /\ StationInv' /\ NoBitWithoutGroup /\ [Next]_vars => Link!Next
  <2> SUFFICES ASSUME StationInv, StationInv', NoBitWithoutGroup, [Next]_vars
               PROVE  Link!Next
    OBVIOUS
  <2>1. connected \in BOOLEAN /\ connected' \in BOOLEAN
    BY DEF StationInv, TypeOK
  <2>2. (faulty \/ refused \/ Pending("DISCONNECTED"))' =>
            faulty \/ refused \/ Pending("DISCONNECTED")
    BY FaultsOnlyCease
  <2>3. connected /\ ~connected' => faulty \/ Pending("DISCONNECTED")
    BY BitIsKept
  <2> QED BY <2>1, <2>2, <2>3 DEF Link!Next, Link!Connects, Link!Disconnects
<1> QED BY <1>1, <1>2, <1>3, PTL DEF Spec
=============================================================================
