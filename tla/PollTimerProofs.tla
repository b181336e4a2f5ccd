--------------------------- MODULE PollTimerProofs ---------------------------
(***************************************************************************)
(* Theorems about PollTimer: which timers there are, with which period     *)
(* they run, and when none does, however late the timer service is and     *)
(* whatever the server publishes; and what is taken over from that.        *)
(***************************************************************************)

EXTENDS PollTimer, MetadataProofs, TLAPS

Commands == [op : {"change", "reset", "delete"}, timer : Timer, period : Nat]

\* What the variables are made of.
Shape ==
    /\ queue \in Seq(Commands)
    /\ timers \in [Timer -> [state : {"free", "dormant", "armed"}, period : Nat]]
    /\ check_for_updates_timer \in Timer \cup {NoTimer}
    /\ pc \in {"change", "reset"} => check_for_updates_timer # NoTimer
    /\ polling_interval_s \in Nat

-----------------------------------------------------------------------------
(* The conversion of the interval, and the command queue.                  *)

LEMMA WordsAreNumbers ==
    /\ Word \in Nat \ {0} /\ MsPerS \in Nat \ {0} /\ TickRate \in Nat \ {0}
    /\ CreatePeriod \in Nat \ {0} /\ QueueLen \in Nat \ {0}
BY WordAssumption

LEMMA PeriodIsNumber == \A n \in Nat : timerPeriod(n) \in Nat
<1>1. \A m \in Nat : m % Word \in Nat /\ m \div MsPerS \in Nat
  BY WordsAreNumbers
<1>2. \A m, k \in Nat : m * k \in Nat
  OBVIOUS
<1>3. SUFFICES ASSUME NEW n \in Nat PROVE timerPeriod(n) \in Nat
  OBVIOUS
<1>4. MsPerS * n \in Nat /\ (MsPerS * n) % Word \in Nat
  BY <1>1, <1>2, WordsAreNumbers
<1>5. ((MsPerS * n) % Word) * TickRate \in Nat
  BY <1>4, <1>2, WordsAreNumbers
<1>6. QED
  BY <1>5, <1>1 DEF timerPeriod, pdMS_TO_TICKS

\* When the ticks, times MsPerS, fit into a word, neither multiplication wraps around.
LEMMA PeriodFits ==
    ASSUME NEW n \in Nat, MsPerS * TickRate * n < Word
    PROVE  timerPeriod(n) = TickRate * n
<1>1. \A a, b, c \in Nat : (a * b) * c = (a * c) * b /\ (a * b) * c = a * (b * c)
  OBVIOUS
<1>2. \A a, b \in Nat : b > 0 => a =< a * b
  OBVIOUS
<1>3. \A m \in Nat : m < Word => m % Word = m
  BY WordsAreNumbers
<1>4. \A m \in Nat : (MsPerS * m) \div MsPerS = m
  BY WordsAreNumbers
<1>5. MsPerS * n \in Nat /\ TickRate * n \in Nat /\ (MsPerS * n) * TickRate \in Nat
  BY WordsAreNumbers
<1>6. (MsPerS * TickRate) * n = (MsPerS * n) * TickRate
      /\ (MsPerS * TickRate) * n = MsPerS * (TickRate * n)
  BY <1>1, WordsAreNumbers
<1>7. MsPerS * n =< (MsPerS * n) * TickRate
  BY <1>2, <1>5, WordsAreNumbers
<1>8. (MsPerS * n) % Word = MsPerS * n
  BY <1>3, <1>5, <1>6, <1>7, WordsAreNumbers
<1>9. ((MsPerS * n) * TickRate) % Word = MsPerS * (TickRate * n)
  BY <1>3, <1>5, <1>6
<1>10. QED
  BY <1>4, <1>5, <1>8, <1>9 DEF timerPeriod, pdMS_TO_TICKS

\* A command that has been accepted is the last.
LEMMA AfterAppend ==
    ASSUME queue \in Seq(Commands), NEW c \in Commands, queue' = Append(queue, c)
    PROVE  /\ queue' \in Seq(Commands)
           /\ Len(queue) \in Nat
           /\ Len(queue') = Len(queue) + 1
           /\ \A i \in 1..Len(queue) : queue'[i] = queue[i]
           /\ queue'[Len(queue) + 1] = c
           /\ \A op, t : Awaits(op, t)' <=> Awaits(op, t) \/ (c.op = op /\ c.timer = t)
<1>1. /\ queue' \in Seq(Commands)
      /\ Len(queue) \in Nat
      /\ Len(queue') = Len(queue) + 1
      /\ \A i \in 1..Len(queue) : queue'[i] = queue[i]
      /\ queue'[Len(queue) + 1] = c
  OBVIOUS
<1>2. 1..Len(queue') = (1..Len(queue)) \cup {Len(queue) + 1}
  BY <1>1
<1>3. \A op, t : Awaits(op, t)' <=> Awaits(op, t) \/ (c.op = op /\ c.timer = t)
  BY <1>1, <1>2, Zenon DEF Awaits
<1>4. QED
  BY <1>1, <1>3

\* What is left in the queue when its first command has been served.
LEMMA AfterTail ==
    ASSUME queue \in Seq(Commands), queue # << >>, queue' = Tail(queue)
    PROVE  /\ queue' \in Seq(Commands)
           /\ Len(queue') \in Nat
           /\ Len(queue) = Len(queue') + 1
           /\ \A i \in 1..Len(queue') : queue'[i] = queue[i + 1]
           /\ Head(queue) = queue[1] /\ queue[1] \in Commands
           /\ \A op, t : Awaits(op, t) <=> \/ queue[1].op = op /\ queue[1].timer = t
                                           \/ Awaits(op, t)'
<1>1. /\ queue' \in Seq(Commands)
      /\ Len(queue') \in Nat
      /\ Len(queue) = Len(queue') + 1
      /\ \A i \in 1..Len(queue') : queue'[i] = queue[i + 1]
      /\ Head(queue) = queue[1] /\ queue[1] \in Commands
  OBVIOUS
<1>2. \A i \in 1..Len(queue) : i = 1 \/ (i - 1 \in 1..Len(queue') /\ queue[i] = queue'[i - 1])
  BY <1>1
<1>3. \A i \in 1..Len(queue') : i + 1 \in 1..Len(queue)
  BY <1>1
<1>4. 1 \in 1..Len(queue)
  BY <1>1
<1>5. \A op, t : Awaits(op, t) <=> \/ queue[1].op = op /\ queue[1].timer = t
                                   \/ Awaits(op, t)'
  BY <1>1, <1>2, <1>3, <1>4 DEF Awaits
<1>6. QED
  BY <1>1, <1>5

-----------------------------------------------------------------------------
(* Shape.                                                                  *)

\* The steps that neither touch the timers nor the handle.
Elsewhere ==
    \/ Wakes \/ CheckFails \/ (\E p \in MetadataText : iap_https_metadata_body_callback(p))
    \/ Download \/ HasTimer \/ ClearCheck \/ iap_https_check_now

LEMMA IntervalIsWord ==
    ASSUME Shape, NEW p \in MetadataText, iap_https_metadata_body_callback(p)
    PROVE  polling_interval_s' \in Nat
<1> DEFINE text == Text(p.file, p.order, p.eol, p.last)
<1>1. ASSUME NEW cell PROVE atoi(cell) \in Int
  <2>1. CASE cell \in DOMAIN IntOf
    BY <2>1, NumberAssumption, Zenon DEF atoi
  <2>2. CASE cell \notin DOMAIN IntOf
    <3>1. atoi(cell) = 0
      BY <2>2, Zenon DEF atoi
    <3>2. QED BY <3>1
  <2>3. QED BY <2>1, <2>2
<1>2. \A t, key : \A n \in http_parse_key_value_int(t, key) : n \in Int
  BY <1>1, Zenon DEF http_parse_key_value_int
<1>3. \A n \in Int : n % Word \in Nat
  BY WordsAreNumbers
<1>4. polling_interval_s' \in {polling_interval_s}
         \cup {n % Word : n \in http_parse_key_value_int(text, "INTERVAL=")}
  BY DEF iap_https_metadata_body_callback
<1>5. QED
  BY <1>2, <1>3, <1>4 DEF Shape

LEMMA ElsewhereFacts ==
    ASSUME Shape, Elsewhere
    PROVE  /\ UNCHANGED <<queue, timers, check_for_updates_timer, lost>>
           /\ polling_interval_s' \in Nat
           /\ pc' \in {"change", "reset"} => check_for_updates_timer # NoTimer
<1>1. CASE \E p \in MetadataText : iap_https_metadata_body_callback(p)
  BY <1>1, IntervalIsWord
     DEF iap_https_metadata_body_callback, timerVars, prepareVars
<1>2. CASE Wakes \/ CheckFails \/ Download \/ HasTimer \/ ClearCheck \/ iap_https_check_now
  <2>1. UNCHANGED <<queue, timers, check_for_updates_timer, lost, polling_interval_s>>
    BY <1>2 DEF Wakes, CheckFails, Download, HasTimer, ClearCheck, iap_https_check_now,
                timerVars, prepareVars, configVars
  <2>2. pc' \in {"change", "reset"} => check_for_updates_timer # NoTimer
    BY <1>2 DEF Wakes, CheckFails, HasTimer, ClearCheck, iap_https_check_now, Download, pcVars,
                Shape
  <2>3. QED BY <2>1, <2>2 DEF Shape
<1>3. QED
  BY <1>1, <1>2 DEF Elsewhere

\* A command that is sent is accepted, as the last, or refused.
LEMMA Sending ==
    ASSUME NEW c, Send(c)
    PROVE  \/ queue' = Append(queue, c) /\ refused' = refused
           \/ queue' = queue /\ refused' = refused \cup {c.op}
BY DEF Send

LEMMA CommandsAreCommands ==
    ASSUME NEW op \in {"change", "reset", "delete"}, NEW t \in Timer, NEW period \in Nat
    PROVE  /\ Command(op, t, period) \in Commands
           /\ Command(op, t, period).op = op /\ Command(op, t, period).timer = t
           /\ Command(op, t, period).period = period
BY DEF Command, Commands

LEMMA TimerStates ==
    ASSUME NEW period \in Nat
    PROVE  /\ Dormant(period) # Free /\ Armed(period) # Free
           /\ {Dormant(period), Armed(period), Free}
                \subseteq [state : {"free", "dormant", "armed"}, period : Nat]
           /\ Armed(period).state = "armed" /\ Armed(period).period = period
           /\ Dormant(period).period = period
BY DEF Dormant, Armed, Free

\* The handle at the steps that send.
LEMMA HandleIsTimer ==
    ASSUME Shape, pc \in {"change", "reset"} \/ check_for_updates_timer # NoTimer
    PROVE  check_for_updates_timer \in Timer
BY DEF Shape

LEMMA ShapeKept ==
    ASSUME Shape, Next
    PROVE  Shape'
<1>1. CASE Elsewhere
  BY <1>1, ElsewhereFacts DEF Shape
<1>2. CASE CreateTimer
  <2>1. timers' \in [Timer -> [state : {"free", "dormant", "armed"}, period : Nat]]
    BY <1>2, TimerStates, WordsAreNumbers DEF CreateTimer, Shape
  <2>2. /\ queue' = queue /\ polling_interval_s' = polling_interval_s
        /\ check_for_updates_timer' \in Timer \cup {NoTimer}
        /\ pc' \in {"change", "reset"} => check_for_updates_timer' # NoTimer
    BY <1>2, TimerAssumption DEF CreateTimer, Shape, configVars, Existing, Returns
  <2>3. QED BY <2>1, <2>2 DEF Shape
<1>3. CASE ChangePeriod
  <2> DEFINE c == Command("change", check_for_updates_timer, timerPeriod(polling_interval_s))
  <2>1. c \in Commands
    BY <1>3, HandleIsTimer, PeriodIsNumber, CommandsAreCommands DEF ChangePeriod, Shape
  <2>2. queue' \in Seq(Commands)
    <3>1. Send(c)
      BY <1>3 DEF ChangePeriod
    <3> HIDE DEF c
    <3>2. QED BY <2>1, <3>1, Sending DEF Shape
  <2>3. QED BY <1>3, <2>2 DEF ChangePeriod, Shape, configVars
<1>4. CASE ResetTimer
  <2> DEFINE c == Command("reset", check_for_updates_timer, 0)
  <2>1. c \in Commands
    BY <1>4, HandleIsTimer, CommandsAreCommands DEF ResetTimer
  <2>2. queue' \in Seq(Commands)
    <3>1. Send(c)
      BY <1>4 DEF ResetTimer
    <3> HIDE DEF c
    <3>2. QED BY <2>1, <3>1, Sending DEF Shape
  <2>3. QED BY <1>4, <2>2 DEF ResetTimer, Shape, configVars, Returns
<1>5. CASE DeleteTimer
  <2> DEFINE c == Command("delete", check_for_updates_timer, 0)
  <2>1. check_for_updates_timer # NoTimer => c \in Commands
    BY HandleIsTimer, CommandsAreCommands
  <2>2. queue' \in Seq(Commands)
    BY <1>5, <2>1, SMTT(30) DEF DeleteTimer, Shape
  <2>3. QED BY <1>5, <2>2 DEF DeleteTimer, Shape, configVars, Returns
<1>6. CASE ServeCommand
  <2>1. queue' \in Seq(Commands) /\ Head(queue) \in Commands
    BY <1>6, AfterTail DEF ServeCommand, Shape
  <2>2. timers' \in [Timer -> [state : {"free", "dormant", "armed"}, period : Nat]]
    <3>1. Head(queue).timer \in Timer /\ Head(queue).period \in Nat
      BY <2>1 DEF Commands
    <3>2. timers[Head(queue).timer].period \in Nat
      BY <3>1 DEF Shape
    <3>3. QED BY <1>6, <3>1, <3>2, TimerStates DEF ServeCommand, Shape
  <2>3. QED BY <1>6, <2>1, <2>2 DEF ServeCommand, Shape, configVars, pcVars, prepareVars
<1>7. CASE PeriodIsZero
  <2>1. << >> \in Seq(Commands) /\ PollingInterval \in Nat
    BY IntervalAssumption, WordsAreNumbers
  <2>2. [t \in Timer |-> Free] \in [Timer -> [state : {"free", "dormant", "armed"}, period : Nat]]
    BY TimerStates
  <2>3. QED BY <1>7, <2>1, <2>2 DEF PeriodIsZero, Shape
<1>8. CASE iap_https_periodic_check_timer_callback
  <2>1. timers' \in [Timer -> [state : {"free", "dormant", "armed"}, period : Nat]]
    BY <1>8, TimerStates DEF iap_https_periodic_check_timer_callback, Shape
  <2>2. QED BY <1>8, <2>1 DEF iap_https_periodic_check_timer_callback, Shape, configVars, pcVars,
                             prepareVars
<1>9. QED
  BY <1>1, <1>2, <1>3, <1>4, <1>5, <1>6, <1>7, <1>8 DEF Next, Elsewhere

-----------------------------------------------------------------------------
(* Which timers there are.                                                 *)

HandleExists ==
    \A t \in Timer : t = check_for_updates_timer => timers[t] # Free /\ ~Awaits("delete", t)

OthersAreDeleted ==
    \A t \in Timer : timers[t] # Free =>
        t \in lost \/ t = check_for_updates_timer \/ Awaits("delete", t)

\* A deletion is the last command for its timer.
CommandsHaveTimers ==
    \A i \in 1..Len(queue) :
        /\ timers[queue[i].timer] # Free
        /\ \A j \in 1..Len(queue) : i < j /\ queue[i].op = "delete" => queue[i].timer # queue[j].timer

StrayInv == Shape /\ HandleExists /\ OthersAreDeleted /\ CommandsHaveTimers

LEMMA QueuedTimers ==
    ASSUME Shape, NEW i \in 1..Len(queue)
    PROVE  queue[i].timer \in Timer
<1>1. queue[i] \in Commands
  BY DEF Shape
<1>2. QED BY <1>1 DEF Commands

\* Sending leaves the timers as they are.
LEMMA SentCommands ==
    ASSUME StrayInv, NEW c \in Commands, queue' = Append(queue, c), timers' = timers,
           c.timer = check_for_updates_timer
    PROVE  CommandsHaveTimers'
<1>1. \A i \in 1..Len(queue') : (i \in 1..Len(queue) /\ queue'[i] = queue[i])
                                \/ (i = Len(queue) + 1 /\ queue'[i] = c)
  BY AfterAppend DEF StrayInv, Shape
<1>2. Len(queue) \in Nat /\ check_for_updates_timer \in Timer /\ check_for_updates_timer # NoTimer
  BY TimerAssumption DEF StrayInv, Shape, Commands
<1>3. timers[check_for_updates_timer] # Free /\ ~Awaits("delete", check_for_updates_timer)
  BY <1>2 DEF StrayInv, HandleExists
<1>4. SUFFICES ASSUME NEW i \in 1..Len(queue')
               PROVE  /\ timers'[queue'[i].timer] # Free
                      /\ \A j \in 1..Len(queue') : i < j /\ queue'[i].op = "delete"
                                                     => queue'[i].timer # queue'[j].timer
  BY DEF CommandsHaveTimers
<1>5. CASE i \in 1..Len(queue) /\ queue'[i] = queue[i]
  <2>1. queue[i].op = "delete" => queue[i].timer # c.timer
    BY <1>3, <1>5 DEF Awaits
  <2>2. QED BY <1>1, <1>5, <2>1 DEF StrayInv, CommandsHaveTimers
<1>6. CASE i = Len(queue) + 1 /\ queue'[i] = c
  <2>1. \A j \in 1..Len(queue') : ~(i < j)
    BY <1>1, <1>2, <1>6
  <2>2. QED BY <1>3, <1>6, <2>1
<1>7. QED
  BY <1>1, <1>5, <1>6

LEMMA ServedCommands ==
    ASSUME StrayInv, ServeCommand
    PROVE  HandleExists' /\ OthersAreDeleted' /\ CommandsHaveTimers'
<1> DEFINE c == queue[1]
<1>1. /\ queue' \in Seq(Commands)
      /\ Len(queue') \in Nat
      /\ Len(queue) = Len(queue') + 1
      /\ \A i \in 1..Len(queue') : queue'[i] = queue[i + 1]
      /\ Head(queue) = c /\ c \in Commands
      /\ \A op, t : Awaits(op, t) <=> (c.op = op /\ c.timer = t) \/ Awaits(op, t)'
  BY AfterTail DEF StrayInv, Shape, ServeCommand
<1>2. /\ c.timer \in Timer /\ c.op \in {"change", "reset", "delete"} /\ c.period \in Nat
      /\ timers[c.timer].period \in Nat
  BY <1>1 DEF Commands, StrayInv, Shape
<1>3. /\ \A t \in Timer \ {c.timer} : timers'[t] = timers[t]
      /\ c.op = "delete" => timers'[c.timer] = Free
      /\ c.op # "delete" => timers'[c.timer] # Free
      /\ check_for_updates_timer' = check_for_updates_timer /\ lost' = lost
  <2>1. timers' = [timers EXCEPT ![c.timer] = IF c.op = "change" THEN Armed(c.period)
                                              ELSE IF c.op = "reset" THEN Armed(@.period)
                                              ELSE Free]
    BY <1>1 DEF ServeCommand
  <2>2. c.op # "delete" => timers'[c.timer] # Free
    BY <1>2, <2>1, TimerStates DEF StrayInv, Shape
  <2>3. QED BY <1>2, <2>1, <2>2 DEF StrayInv, Shape, ServeCommand, prepareVars
<1>4. 1 \in 1..Len(queue) /\ \A i \in 1..Len(queue') : i + 1 \in 1..Len(queue) /\ 1 < i + 1
  BY <1>1
<1>5. HandleExists'
  <2>1. SUFFICES ASSUME NEW t \in Timer, t = check_for_updates_timer
                 PROVE  timers'[t] # Free /\ ~Awaits("delete", t)'
    BY <1>3 DEF HandleExists
  <2>2. timers[t] # Free /\ ~Awaits("delete", t)
    BY <2>1 DEF StrayInv, HandleExists
  <2>3. ~Awaits("delete", t)' /\ ~(c.op = "delete" /\ c.timer = t)
    BY <1>1, <2>2
  <2>4. timers'[t] # Free
    <3>1. CASE t = c.timer
      BY <3>1, <2>3, <1>3
    <3>2. CASE t # c.timer
      BY <3>2, <2>2, <1>3
    <3>3. QED BY <3>1, <3>2
  <2>5. QED BY <2>3, <2>4
<1>6. OthersAreDeleted'
  <2>1. SUFFICES ASSUME NEW t \in Timer, timers'[t] # Free
                 PROVE  t \in lost \/ t = check_for_updates_timer \/ Awaits("delete", t)'
    BY <1>3 DEF OthersAreDeleted
  <2>2. timers[t] # Free
    <3>1. CASE t = c.timer
      BY <3>1, <1>4 DEF StrayInv, CommandsHaveTimers
    <3>2. CASE t # c.timer
      BY <3>2, <1>3, <2>1
    <3>3. QED BY <3>1, <3>2
  <2>3. ~(c.op = "delete" /\ c.timer = t)
    BY <1>3, <2>1
  <2>4. QED BY <1>1, <2>2, <2>3 DEF StrayInv, OthersAreDeleted
<1>7. CommandsHaveTimers'
  <2>1. SUFFICES ASSUME NEW i \in 1..Len(queue')
                 PROVE  /\ timers'[queue'[i].timer] # Free
                        /\ \A j \in 1..Len(queue') : i < j /\ queue'[i].op = "delete"
                                                       => queue'[i].timer # queue'[j].timer
    BY DEF CommandsHaveTimers
  <2>2. /\ timers[queue[i + 1].timer] # Free
        /\ c.op = "delete" => c.timer # queue[i + 1].timer
        /\ queue[i + 1].timer \in Timer
    BY <1>4, QueuedTimers DEF StrayInv, CommandsHaveTimers
  <2>3. timers'[queue[i + 1].timer] # Free
    BY <1>2, <1>3, <2>2
  <2>4. \A j \in 1..Len(queue') : i < j => i + 1 < j + 1
    BY <1>1
  <2>5. QED BY <1>1, <1>4, <2>3, <2>4 DEF StrayInv, CommandsHaveTimers
<1>8. QED
  BY <1>5, <1>6, <1>7

LEMMA StrayKept ==
    ASSUME StrayInv, Next
    PROVE  StrayInv'
<1>. Shape'
  BY ShapeKept DEF StrayInv
<1>1. CASE Elsewhere
  BY <1>1, ElsewhereFacts
     DEF StrayInv, HandleExists, OthersAreDeleted, CommandsHaveTimers, Awaits
<1>2. CASE CreateTimer
  <2>1. \A op, t : Awaits(op, t)' <=> Awaits(op, t)
    BY <1>2 DEF CreateTimer, Awaits
  <2>2. CASE UNCHANGED <<timers, check_for_updates_timer>>
    BY <1>2, <2>1, <2>2
       DEF StrayInv, HandleExists, OthersAreDeleted, CommandsHaveTimers, CreateTimer
  <2>3. CASE \E t \in Timer \ Existing : /\ timers' = [timers EXCEPT ![t] = Dormant(CreatePeriod)]
                                         /\ check_for_updates_timer' = t
    <3>1. PICK t \in Timer : /\ timers[t] = Free
                             /\ timers' = [timers EXCEPT ![t] = Dormant(CreatePeriod)]
                             /\ check_for_updates_timer' = t
      BY <2>3 DEF Existing
    <3>2. /\ \A u \in Timer \ {t} : timers'[u] = timers[u]
          /\ timers'[t] # Free
          /\ check_for_updates_timer = NoTimer /\ lost' = lost /\ queue' = queue
      BY <1>2, <3>1, TimerStates, WordsAreNumbers DEF CreateTimer, NeedsTimer, StrayInv, Shape
    <3>3. ~Awaits("delete", t)
      BY <3>1 DEF StrayInv, CommandsHaveTimers, Awaits
    <3>4. HandleExists'
      BY <2>1, <3>1, <3>2, <3>3 DEF HandleExists
    <3>5. OthersAreDeleted'
      BY <2>1, <3>1, <3>2, TimerAssumption DEF StrayInv, OthersAreDeleted
    <3>6. CommandsHaveTimers'
      <4>1. \A i \in 1..Len(queue) : queue[i].timer \in Timer
        BY QueuedTimers DEF StrayInv
      <4>2. \A i \in 1..Len(queue) : timers'[queue[i].timer] # Free
        BY <3>2, <4>1 DEF StrayInv, CommandsHaveTimers
      <4>3. QED BY <3>2, <4>2 DEF StrayInv, CommandsHaveTimers
    <3>7. QED BY <3>4, <3>5, <3>6 DEF StrayInv
  <2>4. QED BY <1>2, <2>2, <2>3 DEF CreateTimer
<1>3. CASE ChangePeriod \/ ResetTimer
  <2>1. PICK c \in Commands : Send(c) /\ c.timer = check_for_updates_timer /\ c.op # "delete"
    <3>1. CASE ChangePeriod
      <4>1. check_for_updates_timer \in Timer /\ timerPeriod(polling_interval_s) \in Nat
        BY <3>1, HandleIsTimer, PeriodIsNumber DEF ChangePeriod, StrayInv, Shape
      <4>2. Send(Command("change", check_for_updates_timer, timerPeriod(polling_interval_s)))
        BY <3>1 DEF ChangePeriod
      <4>3. QED BY <4>1, <4>2, CommandsAreCommands
    <3>2. CASE ResetTimer
      <4>1. check_for_updates_timer \in Timer
        BY <3>2, HandleIsTimer DEF ResetTimer, StrayInv
      <4>2. Send(Command("reset", check_for_updates_timer, 0))
        BY <3>2 DEF ResetTimer
      <4>3. QED BY <4>1, <4>2, CommandsAreCommands
    <3>3. QED BY <1>3, <3>1, <3>2
  <2>2. UNCHANGED <<timers, check_for_updates_timer, lost>>
    BY <1>3 DEF ChangePeriod, ResetTimer
  <2>3. CASE queue' = queue
    BY <2>2, <2>3 DEF StrayInv, HandleExists, OthersAreDeleted, CommandsHaveTimers, Awaits
  <2>4. CASE queue' = Append(queue, c)
    <3>1. CommandsHaveTimers'
      BY <2>1, <2>2, <2>4, SentCommands
    <3>2. \A t : Awaits("delete", t)' <=> Awaits("delete", t)
      BY <2>1, <2>4, AfterAppend DEF StrayInv, Shape
    <3>3. QED BY <2>2, <3>1, <3>2 DEF StrayInv, HandleExists, OthersAreDeleted
  <2>5. QED BY <2>1, <2>3, <2>4 DEF Send
<1>4. CASE DeleteTimer
  <2>1. timers' = timers /\ check_for_updates_timer' = NoTimer
    BY <1>4 DEF DeleteTimer
  <2>2. HandleExists'
    BY <2>1, TimerAssumption DEF HandleExists
  <2>3. CASE queue' = queue
    <3>1. \A t : Awaits("delete", t)' <=> Awaits("delete", t)
      BY <2>3 DEF Awaits
    <3>2. /\ lost \subseteq lost'
          /\ check_for_updates_timer = NoTimer \/ check_for_updates_timer \in lost'
      <4>1. CASE check_for_updates_timer = NoTimer
        BY <1>4, <4>1 DEF DeleteTimer
      <4>2. CASE check_for_updates_timer # NoTimer
        <5>1. Len(queue) \in Nat /\ queue' # Append(queue, Command("delete", check_for_updates_timer, 0))
          BY <2>3, <4>2, HandleIsTimer, CommandsAreCommands, AfterAppend DEF StrayInv, Shape
        <5>2. QED BY <1>4, <4>2, <5>1 DEF DeleteTimer
      <4>3. QED BY <4>1, <4>2
    <3>3. OthersAreDeleted'
      BY <2>1, <3>1, <3>2, TimerAssumption DEF StrayInv, OthersAreDeleted
    <3>4. CommandsHaveTimers'
      BY <2>1, <2>3 DEF StrayInv, CommandsHaveTimers
    <3>5. QED BY <2>2, <3>3, <3>4 DEF StrayInv
  <2>4. CASE /\ check_for_updates_timer # NoTimer /\ lost' = lost
             /\ queue' = Append(queue, Command("delete", check_for_updates_timer, 0))
    <3> DEFINE c == Command("delete", check_for_updates_timer, 0)
    <3>1. c \in Commands /\ c.op = "delete" /\ c.timer = check_for_updates_timer
      BY <2>4, HandleIsTimer, CommandsAreCommands DEF StrayInv
    <3> HIDE DEF c
    <3>2. queue' = Append(queue, c)
      BY <2>4 DEF c
    <3>3. CommandsHaveTimers'
      BY <2>1, <3>1, <3>2, SentCommands
    <3>4. \A t : Awaits("delete", t)' <=> Awaits("delete", t) \/ t = check_for_updates_timer
      BY <3>1, <3>2, AfterAppend DEF StrayInv, Shape
    <3>5. OthersAreDeleted'
      BY <2>1, <2>4, <3>4 DEF StrayInv, OthersAreDeleted
    <3>6. QED BY <2>2, <3>3, <3>5 DEF StrayInv
  <2>5. QED BY <1>4, <2>3, <2>4 DEF DeleteTimer
<1>5. CASE ServeCommand
  BY <1>5, ServedCommands DEF StrayInv
<1>6. CASE PeriodIsZero
  <2>1. queue' = << >> /\ check_for_updates_timer' = NoTimer /\ \A t \in Timer : timers'[t] = Free
    BY <1>6 DEF PeriodIsZero
  <2>2. 1..Len(queue') = {}
    BY <2>1
  <2>3. QED BY <2>1, <2>2, TimerAssumption
            DEF StrayInv, HandleExists, OthersAreDeleted, CommandsHaveTimers
<1>7. CASE iap_https_periodic_check_timer_callback
  <2>1. UNCHANGED <<queue, check_for_updates_timer, lost>>
    BY <1>7 DEF iap_https_periodic_check_timer_callback, prepareVars
  <2>2. \A t \in Timer : timers'[t] = Free <=> timers[t] = Free
    BY <1>7, TimerStates
       DEF iap_https_periodic_check_timer_callback, StrayInv, Shape, Dormant, Free
  <2>3. \A op, t : Awaits(op, t)' <=> Awaits(op, t)
    BY <2>1 DEF Awaits
  <2>4. \A i \in 1..Len(queue) : queue[i].timer \in Timer
    BY QueuedTimers DEF StrayInv
  <2>5. QED
    BY <2>1, <2>2, <2>3, <2>4
       DEF StrayInv, Shape, HandleExists, OthersAreDeleted, CommandsHaveTimers
<1>8. QED
  BY <1>1, <1>2, <1>3, <1>4, <1>5, <1>6, <1>7 DEF Next, Elsewhere

LEMMA StrayAlways == Spec => []StrayInv
<1>1. Init => StrayInv
  <2>1. SUFFICES ASSUME Init PROVE StrayInv
    OBVIOUS
  <2>2. queue = << >> /\ check_for_updates_timer = NoTimer /\ \A t \in Timer : timers[t] = Free
    BY <2>1 DEF Init
  <2>3. 1..Len(queue) = {}
    BY <2>2
  <2>4. timers \in [Timer -> [state : {"free", "dormant", "armed"}, period : Nat]]
    BY <2>1, TimerStates DEF Init
  <2>5. Shape
    BY <2>1, <2>2, <2>4, IntervalAssumption, WordsAreNumbers DEF Init, Shape
  <2>6. QED BY <2>2, <2>3, <2>5, TimerAssumption
            DEF StrayInv, HandleExists, OthersAreDeleted, CommandsHaveTimers
<1>2. StrayInv /\ [Next]_vars => StrayInv'
  <2>1. CASE Next
    BY <2>1, StrayKept
  <2>2. CASE UNCHANGED vars
    BY <2>2 DEF vars, configVars, bits, pcVars, timerVars, prepareVars, StrayInv, Shape,
                HandleExists, OthersAreDeleted, CommandsHaveTimers, Awaits
  <2>3. QED BY <2>1, <2>2
<1>3. QED
  BY <1>1, <1>2, PTL DEF Spec

\* Behind iap_https_prepare_timer there is no timer when polling is off.
OffInv ==
    /\ pc \in {"idle", "clear"} /\ polling_interval_s = 0 => check_for_updates_timer = NoTimer
    /\ pc \in {"change", "reset"} => polling_interval_s > 0

LEMMA OffKept ==
    ASSUME Shape, OffInv, [Next]_vars
    PROVE  OffInv'
<1> USE DEF OffInv
<1>1. CASE Wakes \/ CheckFails \/ (\E p \in MetadataText : iap_https_metadata_body_callback(p))
  BY <1>1 DEF Wakes, CheckFails, iap_https_metadata_body_callback
<1>2. CASE Download \/ HasTimer \/ ClearCheck \/ iap_https_check_now
  BY <1>2 DEF Download, HasTimer, ClearCheck, iap_https_check_now, configVars, pcVars, prepareVars
<1>3. CASE CreateTimer
  BY <1>3 DEF CreateTimer, NeedsTimer, Returns, configVars, Shape
<1>4. CASE ChangePeriod \/ ResetTimer
  BY <1>4 DEF ChangePeriod, ResetTimer, Returns, configVars, Shape
<1>5. CASE DeleteTimer
  BY <1>5 DEF DeleteTimer, Returns, configVars
<1>6. CASE ServeCommand \/ iap_https_periodic_check_timer_callback
  BY <1>6 DEF ServeCommand, iap_https_periodic_check_timer_callback, configVars, pcVars, prepareVars
<1>7. CASE PeriodIsZero
  BY <1>7 DEF PeriodIsZero
<1>8. CASE UNCHANGED vars
  BY <1>8 DEF vars, configVars, pcVars, prepareVars
<1>9. QED
  BY <1>1, <1>2, <1>3, <1>4, <1>5, <1>6, <1>7, <1>8 DEF Next

LEMMA OffAlways == Spec => []OffInv
<1>1. Init => OffInv
  BY DEF Init, OffInv
<1>2. StrayInv /\ OffInv /\ [Next]_vars => OffInv'
  BY OffKept DEF StrayInv
<1>3. QED
  BY <1>1, <1>2, StrayAlways, PTL DEF Spec

\* The updater has no timer when it does not poll; of the timers that exist one is its
\* own, and the others await their deletion, or it was refused; no command comes after
\* the deletion of its timer.
THEOREM TimersAreTheUpdaters == Spec => []NoStrayTimer
<1>1. StrayInv /\ OffInv => NoStrayTimer
  <2>1. SUFFICES ASSUME StrayInv, OffInv PROVE NoStrayTimer
    OBVIOUS
  <2>2. \A t \in Existing \ lost : t = check_for_updates_timer \/ Awaits("delete", t)
    BY <2>1 DEF StrayInv, OthersAreDeleted, Existing
  <2>3. check_for_updates_timer # NoTimer => timers[check_for_updates_timer] # Free
    BY <2>1 DEF StrayInv, HandleExists, Shape
  <2>4. QED BY <2>1, <2>2, <2>3 DEF StrayInv, OffInv, CommandsHaveTimers, NoStrayTimer
<1>2. QED
  BY <1>1, StrayAlways, OffAlways, PTL

-----------------------------------------------------------------------------
(* When no timer runs.                                                     *)

\* The updater's timer runs, or has been sent a command that starts it.
WillFire ==
    \E t \in Timer : /\ t = check_for_updates_timer
                     /\ timers[t].state = "armed" \/ Awaits("change", t) \/ Awaits("reset", t)

StopReason == "create" \in refused \/ {"change", "reset"} \subseteq refused \/ missed

AliveInv ==
    /\ pc = "reset" => WillFire \/ "change" \in refused \/ missed
    /\ pc = "clear" /\ polling_interval_s > 0 => WillFire \/ StopReason
    /\ pc = "idle" /\ ~check /\ polling_interval_s > 0 => WillFire \/ StopReason

LEMMA FiresStill ==
    ASSUME UNCHANGED <<queue, timers, check_for_updates_timer>>, WillFire
    PROVE  WillFire'
BY DEF WillFire, Awaits

LEMMA FiresAfterSending ==
    ASSUME Shape, UNCHANGED <<timers, check_for_updates_timer>>, NEW c \in Commands,
           queue' = Append(queue, c)
    PROVE  WillFire \/ (c.op \in {"change", "reset"} /\ c.timer = check_for_updates_timer)
               => WillFire'
<1>1. \A op, t : Awaits(op, t)' <=> Awaits(op, t) \/ (c.op = op /\ c.timer = t)
  BY AfterAppend DEF Shape
<1>2. CASE WillFire
  BY <1>1, <1>2 DEF WillFire
<1>3. CASE c.op \in {"change", "reset"} /\ c.timer = check_for_updates_timer
  <2>1. PICK t \in Timer : t = c.timer
    BY DEF Commands
  <2>2. Awaits("change", t)' \/ Awaits("reset", t)'
    BY <1>1, <1>3, <2>1
  <2>3. QED BY <1>3, <2>1, <2>2 DEF WillFire
<1>4. QED BY <1>2, <1>3

LEMMA FiresAfterServing ==
    ASSUME StrayInv, ServeCommand, WillFire
    PROVE  WillFire'
<1> DEFINE c == queue[1]
<1>1. /\ Head(queue) = c /\ c \in Commands /\ 1 \in 1..Len(queue)
      /\ \A op, t : Awaits(op, t) <=> (c.op = op /\ c.timer = t) \/ Awaits(op, t)'
  BY AfterTail DEF StrayInv, Shape, ServeCommand
<1>2. PICK t \in Timer : /\ t = check_for_updates_timer
                         /\ timers[t].state = "armed" \/ Awaits("change", t) \/ Awaits("reset", t)
  BY DEF WillFire
<1>3. ~(c.op = "delete" /\ c.timer = t)
  <2>1. ~Awaits("delete", t)
    BY <1>2 DEF StrayInv, HandleExists
  <2>2. QED BY <1>1, <2>1
<1>4. t = check_for_updates_timer'
  BY <1>2 DEF ServeCommand, prepareVars
<1>5. timers' = [timers EXCEPT ![c.timer] = IF c.op = "change" THEN Armed(c.period)
                                            ELSE IF c.op = "reset" THEN Armed(@.period)
                                            ELSE Free]
  BY <1>1 DEF ServeCommand
<1>6. CASE c.timer = t
  <2>1. timers'[t].state = "armed"
    BY <1>1, <1>3, <1>5, <1>6 DEF StrayInv, Shape, Armed, Commands
  <2>2. QED BY <1>4, <2>1 DEF WillFire
<1>7. CASE c.timer # t
  <2>1. timers'[t] = timers[t]
    BY <1>5, <1>7 DEF StrayInv, Shape
  <2>2. timers'[t].state = "armed" \/ Awaits("change", t)' \/ Awaits("reset", t)'
    BY <1>1, <1>2, <1>7, <2>1
  <2>3. QED BY <1>4, <2>2 DEF WillFire
<1>8. QED BY <1>6, <1>7

LEMMA AliveKept ==
    ASSUME StrayInv, AliveInv, Next
    PROVE  AliveInv'
<1>1. CASE Wakes \/ CheckFails \/ HasTimer \/ CreateTimer
           \/ (\E p \in MetadataText : iap_https_metadata_body_callback(p))
  <2>1. pc' \notin {"reset", "clear", "idle"} \/ (CreateTimer /\ refused' = {"create"} /\ pc' # "reset")
    BY <1>1 DEF Wakes, CheckFails, HasTimer, CreateTimer, iap_https_metadata_body_callback, Returns
  <2>2. QED BY <2>1 DEF AliveInv, StopReason
<1>2. CASE Download \/ ClearCheck \/ iap_https_check_now
  <2>1. /\ UNCHANGED <<queue, timers, check_for_updates_timer, refused, missed, polling_interval_s>>
        /\ pc' = "reset" => pc = "reset"
        /\ pc' = "clear" => pc = "clear"
        /\ pc' = "idle" /\ ~check' => pc = "clear" \/ (pc = "idle" /\ ~check)
    <3>1. CASE Download
      BY <3>1 DEF Download, timerVars, prepareVars, configVars, pcVars
    <3>2. CASE ClearCheck
      BY <3>2 DEF ClearCheck, timerVars, prepareVars, configVars, pcVars
    <3>3. CASE iap_https_check_now
      BY <3>3 DEF iap_https_check_now, timerVars, prepareVars, configVars, pcVars
    <3>4. QED BY <1>2, <3>1, <3>2, <3>3
  <2>2. WillFire => WillFire'
    BY <2>1, FiresStill
  <2>3. StopReason' <=> StopReason
    BY <2>1 DEF StopReason
  <2>4. QED BY <2>1, <2>2, <2>3 DEF AliveInv
<1>3. CASE ChangePeriod
  <2> DEFINE c == Command("change", check_for_updates_timer, timerPeriod(polling_interval_s))
  <2>1. c \in Commands /\ c.op = "change" /\ c.timer = check_for_updates_timer
    <3>1. check_for_updates_timer \in Timer /\ timerPeriod(polling_interval_s) \in Nat
      BY <1>3, HandleIsTimer, PeriodIsNumber DEF ChangePeriod, StrayInv, Shape
    <3>2. QED BY <3>1, CommandsAreCommands
  <2>2. /\ pc' = "reset" /\ Send(c) /\ UNCHANGED <<timers, check_for_updates_timer>>
    BY <1>3 DEF ChangePeriod
  <2> HIDE DEF c
  <2>3. WillFire' \/ "change" \in refused'
    BY <2>1, <2>2, FiresAfterSending DEF Send, StrayInv
  <2>4. QED BY <2>2, <2>3 DEF AliveInv
<1>4. CASE ResetTimer
  <2> DEFINE c == Command("reset", check_for_updates_timer, 0)
  <2>1. c \in Commands /\ c.op = "reset" /\ c.timer = check_for_updates_timer
    BY <1>4, HandleIsTimer, CommandsAreCommands DEF ResetTimer, StrayInv
  <2>2. /\ Send(c) /\ UNCHANGED <<timers, check_for_updates_timer>>
        /\ missed' = (missed /\ "reset" \in refused')
        /\ pc = "reset" /\ pc' \in {"idle", "clear"}
    BY <1>4 DEF ResetTimer, Returns
  <2> HIDE DEF c
  <2>3. CASE queue' = Append(queue, c)
    <3>1. WillFire'
      BY <2>1, <2>2, <2>3, FiresAfterSending DEF StrayInv
    <3>2. QED BY <2>2, <3>1 DEF AliveInv
  <2>4. CASE queue' = queue /\ refused' = refused \cup {c.op}
    <3>1. WillFire => WillFire'
      BY <2>2, <2>4, FiresStill
    <3>2. "change" \in refused \/ missed => StopReason'
      <4>1. "reset" \in refused' /\ ("change" \in refused => "change" \in refused')
        BY <2>1, <2>4
      <4>2. missed => missed'
        BY <2>2, <4>1
      <4>3. QED BY <4>1, <4>2 DEF StopReason
    <3>3. QED BY <2>2, <3>1, <3>2 DEF AliveInv
  <2>5. QED BY <2>1, <2>2, <2>3, <2>4 DEF Send
<1>5. CASE DeleteTimer
  <2>1. polling_interval_s' = 0 /\ pc' \in {"idle", "clear"}
    BY <1>5 DEF DeleteTimer, Returns, configVars
  <2>2. QED BY <2>1 DEF AliveInv
<1>6. CASE ServeCommand
  <2>1. UNCHANGED <<pc, check, polling_interval_s, refused, missed>>
    BY <1>6 DEF ServeCommand, configVars, bits, pcVars, prepareVars
  <2>2. WillFire => WillFire'
    BY <1>6, FiresAfterServing
  <2>3. QED BY <2>1, <2>2 DEF AliveInv, StopReason
<1>7. CASE PeriodIsZero
  BY <1>7 DEF PeriodIsZero, AliveInv
<1>8. CASE iap_https_periodic_check_timer_callback
  <2>1. PICK t \in Timer : /\ timers' = [timers EXCEPT ![t] = Dormant(@.period)]
                           /\ missed' = (missed \/ TooEarly(t))
    BY <1>8 DEF iap_https_periodic_check_timer_callback
  <2>2. /\ pc' = pc /\ check' = TRUE
        /\ UNCHANGED <<queue, check_for_updates_timer, refused, polling_interval_s>>
    BY <1>8 DEF iap_https_periodic_check_timer_callback, pcVars, configVars, prepareVars
  <2>3. missed => missed'
    BY <2>1
  <2>4. pc \in {"reset", "clear"} /\ WillFire => WillFire' \/ missed'
    <3> SUFFICES ASSUME pc \in {"reset", "clear"}, WillFire PROVE WillFire' \/ missed'
      OBVIOUS
    <3>1. PICK u \in Timer : /\ u = check_for_updates_timer
                             /\ timers[u].state = "armed" \/ Awaits("change", u) \/ Awaits("reset", u)
      BY DEF WillFire
    <3>2. \A op : Awaits(op, u)' <=> Awaits(op, u)
      BY <2>2 DEF Awaits
    <3>3. CASE Awaits("change", u) \/ Awaits("reset", u)
      BY <2>2, <3>1, <3>2, <3>3 DEF WillFire
    <3>4. CASE t = u /\ ~(Awaits("change", u) \/ Awaits("reset", u))
      BY <2>1, <3>1, <3>4 DEF TooEarly
    <3>5. CASE t # u
      <4>1. timers'[u] = timers[u]
        BY <2>1, <3>5 DEF StrayInv, Shape
      <4>2. QED BY <2>2, <3>1, <3>2, <4>1 DEF WillFire
    <3>6. QED BY <3>3, <3>4, <3>5
  <2>5. QED BY <2>2, <2>3, <2>4 DEF AliveInv, StopReason
<1>9. QED
  BY <1>1, <1>2, <1>3, <1>4, <1>5, <1>6, <1>7, <1>8 DEF Next

LEMMA AliveAlways == Spec => []AliveInv
<1>1. Init => AliveInv
  BY DEF Init, AliveInv
<1>2. StrayInv /\ AliveInv /\ [Next]_vars => AliveInv'
  <2>1. CASE Next
    BY <2>1, AliveKept
  <2>2. CASE UNCHANGED vars
    BY <2>2 DEF vars, configVars, bits, pcVars, timerVars, prepareVars, AliveInv, WillFire,
                StopReason, Awaits
  <2>3. QED BY <2>1, <2>2
<1>3. QED
  BY <1>1, <1>2, StrayAlways, PTL DEF Spec

\* Polling stops only when the timer could not be created, when neither of the commands
\* that start it was accepted, or when it elapsed before the bit was cleared.
THEOREM PollingHasThreeEnds == Spec => []PollingStopsOnlyIf
<1>1. StrayInv /\ AliveInv => PollingStopsOnlyIf
  <2>1. SUFFICES ASSUME StrayInv, AliveInv, pc = "idle", polling_interval_s > 0, ~check
                 PROVE  \/ \E t \in Existing : /\ t = check_for_updates_timer
                                               /\ \/ timers[t].state = "armed"
                                                  \/ Awaits("change", t) \/ Awaits("reset", t)
                        \/ "create" \in refused \/ {"change", "reset"} \subseteq refused
                        \/ missed
    BY DEF PollingStopsOnlyIf
  <2>2. CASE WillFire
    <3>1. PICK t \in Timer : /\ t = check_for_updates_timer
                             /\ timers[t].state = "armed" \/ Awaits("change", t) \/ Awaits("reset", t)
      BY <2>2 DEF WillFire
    <3>2. t \in Existing
      BY <2>1, <3>1 DEF StrayInv, HandleExists, Existing
    <3>3. QED BY <3>1, <3>2
  <2>3. CASE StopReason
    BY <2>3 DEF StopReason
  <2>4. QED BY <2>1, <2>2, <2>3 DEF AliveInv
<1>2. QED
  BY <1>1, StrayAlways, AliveAlways, PTL

-----------------------------------------------------------------------------
(* With which period the timer runs.                                       *)

Changes(i, t) == queue[i].op = "change" /\ queue[i].timer = t

\* Timer t has period p, or will have it when the commands in the queue are served.
PeriodDue(t, p) ==
    \/ \E i \in 1..Len(queue) : /\ Changes(i, t) /\ queue[i].period = p
                                /\ \A j \in 1..Len(queue) : i < j => ~Changes(j, t)
    \/ (\A i \in 1..Len(queue) : ~Changes(i, t)) /\ timers[t].period = p

RightPeriod ==
    \E t \in Timer : t = check_for_updates_timer /\ PeriodDue(t, timerPeriod(polling_interval_s))

PeriodInv ==
    /\ pc = "reset" => RightPeriod \/ "change" \in refused
    /\ pc \in {"clear", "idle"} /\ polling_interval_s > 0 => RightPeriod \/ refused # {}

\* The timers need only keep their periods.
LEMMA RightStill ==
    ASSUME UNCHANGED <<queue, check_for_updates_timer, polling_interval_s>>,
           \A t \in Timer : timers'[t].period = timers[t].period,
           RightPeriod
    PROVE  RightPeriod'
BY DEF RightPeriod, PeriodDue, Changes

LEMMA RightAfterSending ==
    ASSUME Shape, UNCHANGED <<timers, check_for_updates_timer, polling_interval_s>>,
           NEW c \in Commands, queue' = Append(queue, c), c.timer = check_for_updates_timer
    PROVE  /\ c.op # "change" /\ RightPeriod => RightPeriod'
           /\ c.op = "change" /\ c.period = timerPeriod(polling_interval_s) => RightPeriod'
<1>1. /\ Len(queue) \in Nat /\ Len(queue') = Len(queue) + 1
      /\ \A i \in 1..Len(queue) : queue'[i] = queue[i]
      /\ queue'[Len(queue) + 1] = c
  BY AfterAppend DEF Shape
<1>2. /\ Len(queue) + 1 \in 1..Len(queue')
      /\ \A i \in 1..Len(queue') : i \in 1..Len(queue) \/ i = Len(queue) + 1
      /\ \A i \in 1..Len(queue) : i \in 1..Len(queue')
      /\ \A i \in 1..Len(queue') : ~(Len(queue) + 1 < i)
  BY <1>1
<1>3. timerPeriod(polling_interval_s)' = timerPeriod(polling_interval_s)
  BY DEF timerPeriod, pdMS_TO_TICKS
<1>4. ASSUME c.op # "change", RightPeriod PROVE RightPeriod'
  <2>1. PICK t \in Timer : /\ t = check_for_updates_timer
                           /\ PeriodDue(t, timerPeriod(polling_interval_s))
    BY <1>4 DEF RightPeriod
  <2>2. \A i \in 1..Len(queue) : Changes(i, t)' <=> Changes(i, t)
    BY <1>1 DEF Changes
  <2>3. \A j : j = Len(queue) + 1 => ~Changes(j, t)'
    BY <1>1, <1>4 DEF Changes
  <2>4. \A j \in 1..Len(queue') : Changes(j, t)' => j \in 1..Len(queue) /\ Changes(j, t)
    <3>1. SUFFICES ASSUME NEW j \in 1..Len(queue'), Changes(j, t)'
                   PROVE  j \in 1..Len(queue) /\ Changes(j, t)
      OBVIOUS
    <3>2. j \in 1..Len(queue)
      BY <1>2, <2>3, <3>1
    <3>3. QED BY <2>2, <3>1, <3>2
  <2>5. PeriodDue(t, timerPeriod(polling_interval_s))'
    <3> DEFINE p == timerPeriod(polling_interval_s)
    <3>1. CASE (\A i \in 1..Len(queue) : ~Changes(i, t)) /\ timers[t].period = p
      BY <3>1, <1>3, <2>4 DEF PeriodDue
    <3>2. ASSUME NEW i \in 1..Len(queue), Changes(i, t), queue[i].period = p,
                 \A j \in 1..Len(queue) : i < j => ~Changes(j, t)
          PROVE  PeriodDue(t, p)'
      <4>1. i \in 1..Len(queue') /\ queue'[i] = queue[i] /\ Changes(i, t)'
        BY <1>1, <1>2, <2>2, <3>2
      <4>2. \A j \in 1..Len(queue') : i < j => ~Changes(j, t)'
        BY <2>4, <3>2
      <4>3. QED BY <1>3, <3>2, <4>1, <4>2 DEF PeriodDue
    <3>3. QED BY <2>1, <3>1, <3>2 DEF PeriodDue
  <2>6. QED BY <2>1, <2>5 DEF RightPeriod
<1>5. ASSUME c.op = "change", c.period = timerPeriod(polling_interval_s) PROVE RightPeriod'
  <2>1. PICK t \in Timer : t = c.timer
    BY DEF Commands
  <2>2. \A i : i = Len(queue) + 1 => Changes(i, t)'
    BY <1>1, <1>5, <2>1 DEF Changes
  <2>3. PeriodDue(t, timerPeriod(polling_interval_s))'
    BY <1>1, <1>2, <1>3, <1>5, <2>2 DEF PeriodDue
  <2>4. QED BY <2>1, <2>3 DEF RightPeriod
<1>6. QED BY <1>4, <1>5

LEMMA RightAfterServing ==
    ASSUME StrayInv, ServeCommand, RightPeriod
    PROVE  RightPeriod'
<1> DEFINE c == queue[1]
<1>1. /\ Len(queue') \in Nat /\ Len(queue) = Len(queue') + 1
      /\ \A i \in 1..Len(queue') : queue'[i] = queue[i + 1]
      /\ Head(queue) = c /\ c \in Commands
      /\ \A op, t : Awaits(op, t) <=> (c.op = op /\ c.timer = t) \/ Awaits(op, t)'
  BY AfterTail DEF StrayInv, Shape, ServeCommand
<1>2. /\ 1 \in 1..Len(queue)
      /\ \A i \in 1..Len(queue) : i = 1 \/ (i - 1 \in 1..Len(queue') /\ queue'[i - 1] = queue[i])
      /\ \A i \in 1..Len(queue') : i + 1 \in 1..Len(queue)
  BY <1>1
<1>3. UNCHANGED <<check_for_updates_timer, polling_interval_s>>
  BY DEF ServeCommand, prepareVars, configVars
<1>4. PICK t \in Timer : /\ t = check_for_updates_timer
                         /\ PeriodDue(t, timerPeriod(polling_interval_s))
  BY DEF RightPeriod
<1> DEFINE p == timerPeriod(polling_interval_s)
<1>5. p' = p
  BY <1>3 DEF timerPeriod, pdMS_TO_TICKS
<1>6. c.timer = t => c.op # "delete"
  <2>1. ~Awaits("delete", t)
    BY <1>4 DEF StrayInv, HandleExists
  <2>2. QED BY <1>1, <2>1
<1>7. /\ ~Changes(1, t) => timers'[t].period = timers[t].period
      /\ Changes(1, t) => timers'[t].period = c.period
  <2>1. timers' = [timers EXCEPT ![c.timer] = IF c.op = "change" THEN Armed(c.period)
                                              ELSE IF c.op = "reset" THEN Armed(@.period)
                                              ELSE Free]
    BY <1>1 DEF ServeCommand
  <2>2. c.op \in {"change", "reset", "delete"}
    BY <1>1 DEF Commands
  <2>3. CASE c.timer # t
    BY <2>1, <2>3 DEF StrayInv, Shape, Changes
  <2>4. CASE c.timer = t
    BY <1>6, <2>1, <2>2, <2>4 DEF StrayInv, Shape, Changes, Armed
  <2>5. QED BY <2>3, <2>4
<1>8. \A i \in 1..Len(queue') : Changes(i, t)' <=> Changes(i + 1, t)
  BY <1>1 DEF Changes
<1>9. CASE (\A i \in 1..Len(queue) : ~Changes(i, t)) /\ timers[t].period = p
  <2>1. PeriodDue(t, p)'
    BY <1>2, <1>5, <1>7, <1>8, <1>9 DEF PeriodDue
  <2>2. QED BY <1>3, <1>4, <2>1 DEF RightPeriod
<1>10. ASSUME NEW i \in 1..Len(queue), Changes(i, t), queue[i].period = p,
              \A j \in 1..Len(queue) : i < j => ~Changes(j, t)
       PROVE  RightPeriod'
  <2>1. \A j \in 1..Len(queue') : i < j + 1 => ~Changes(j, t)'
    BY <1>2, <1>8, <1>10
  <2>2. CASE i = 1
    <3>1. (\A j \in 1..Len(queue') : ~Changes(j, t)') /\ timers'[t].period = p
      <4>1. \A j \in 1..Len(queue') : i < j + 1
        BY <1>1, <2>2
      <4>2. timers'[t].period = p
        BY <1>7, <1>10, <2>2
      <4>3. QED BY <2>1, <4>1, <4>2
    <3>2. PeriodDue(t, p)'
      BY <1>5, <3>1 DEF PeriodDue
    <3>3. QED BY <1>3, <1>4, <3>2 DEF RightPeriod
  <2>3. CASE i # 1
    <3>1. /\ i - 1 \in 1..Len(queue') /\ queue'[i - 1] = queue[i]
          /\ i = (i - 1) + 1
      BY <1>2, <2>3
    <3>2. Changes(i - 1, t)'
      BY <1>10, <3>1 DEF Changes
    <3>3. \A j \in 1..Len(queue') : i - 1 < j => ~Changes(j, t)'
      BY <1>1, <2>1
    <3>4. PeriodDue(t, p)'
      BY <1>5, <1>10, <3>1, <3>2, <3>3 DEF PeriodDue
    <3>5. QED BY <1>3, <1>4, <3>4 DEF RightPeriod
  <2>4. QED BY <2>2, <2>3
<1>11. QED
  BY <1>4, <1>9, <1>10 DEF PeriodDue

LEMMA PeriodKept ==
    ASSUME StrayInv, PeriodInv, Next
    PROVE  PeriodInv'
<1>1. CASE Wakes \/ CheckFails \/ HasTimer \/ CreateTimer \/ PeriodIsZero
           \/ (\E p \in MetadataText : iap_https_metadata_body_callback(p))
  <2>1. pc' \notin {"reset", "clear", "idle"} \/ (refused' = {"create"} /\ pc' # "reset")
    BY <1>1 DEF Wakes, CheckFails, HasTimer, CreateTimer, PeriodIsZero,
                iap_https_metadata_body_callback, Returns
  <2>2. QED BY <2>1 DEF PeriodInv
<1>2. CASE Download \/ ClearCheck \/ iap_https_check_now
  <2>1. /\ UNCHANGED <<queue, timers, check_for_updates_timer, refused, polling_interval_s>>
        /\ pc' = "reset" => pc = "reset"
        /\ pc' \in {"clear", "idle"} => pc \in {"clear", "idle"}
    BY <1>2 DEF Download, ClearCheck, iap_https_check_now, timerVars, prepareVars, configVars,
                pcVars
  <2>2. RightPeriod => RightPeriod'
    BY <2>1, RightStill
  <2>3. QED BY <2>1, <2>2 DEF PeriodInv
<1>3. CASE ChangePeriod
  <2> DEFINE c == Command("change", check_for_updates_timer, timerPeriod(polling_interval_s))
  <2>1. /\ c \in Commands /\ c.op = "change" /\ c.timer = check_for_updates_timer
        /\ c.period = timerPeriod(polling_interval_s)
    <3>1. check_for_updates_timer \in Timer /\ timerPeriod(polling_interval_s) \in Nat
      BY <1>3, HandleIsTimer, PeriodIsNumber DEF ChangePeriod, StrayInv, Shape
    <3>2. QED BY <3>1, CommandsAreCommands
  <2>2. /\ pc' = "reset" /\ Send(c)
        /\ UNCHANGED <<timers, check_for_updates_timer, polling_interval_s>>
    BY <1>3 DEF ChangePeriod, configVars
  <2> HIDE DEF c
  <2>3. RightPeriod' \/ "change" \in refused'
    BY <2>1, <2>2, RightAfterSending DEF Send, StrayInv
  <2>4. QED BY <2>2, <2>3 DEF PeriodInv
<1>4. CASE ResetTimer
  <2> DEFINE c == Command("reset", check_for_updates_timer, 0)
  <2>1. c \in Commands /\ c.op = "reset" /\ c.timer = check_for_updates_timer
    BY <1>4, HandleIsTimer, CommandsAreCommands DEF ResetTimer, StrayInv
  <2>2. /\ Send(c) /\ UNCHANGED <<timers, check_for_updates_timer, polling_interval_s>>
        /\ pc = "reset" /\ pc' \in {"idle", "clear"}
    BY <1>4 DEF ResetTimer, Returns, configVars
  <2> HIDE DEF c
  <2>3. CASE queue' = Append(queue, c) /\ refused' = refused
    <3>1. RightPeriod => RightPeriod'
      BY <2>1, <2>2, <2>3, RightAfterSending DEF StrayInv
    <3>2. QED BY <2>2, <2>3, <3>1 DEF PeriodInv
  <2>4. CASE queue' = queue /\ refused' = refused \cup {"reset"}
    BY <2>2, <2>4 DEF PeriodInv
  <2>5. QED BY <2>1, <2>2, <2>3, <2>4 DEF Send
<1>5. CASE DeleteTimer
  <2>1. polling_interval_s' = 0 /\ pc' \in {"idle", "clear"}
    BY <1>5 DEF DeleteTimer, Returns, configVars
  <2>2. QED BY <2>1 DEF PeriodInv
<1>6. CASE ServeCommand
  <2>1. UNCHANGED <<pc, polling_interval_s, refused>>
    BY <1>6 DEF ServeCommand, configVars, pcVars, prepareVars
  <2>2. RightPeriod => RightPeriod'
    BY <1>6, RightAfterServing
  <2>3. QED BY <2>1, <2>2 DEF PeriodInv
<1>7. CASE iap_https_periodic_check_timer_callback
  <2>1. UNCHANGED <<pc, queue, check_for_updates_timer, polling_interval_s, refused>>
    BY <1>7 DEF iap_https_periodic_check_timer_callback, configVars, pcVars, prepareVars
  <2>2. \A t \in Timer : timers'[t].period = timers[t].period
    BY <1>7 DEF iap_https_periodic_check_timer_callback, StrayInv, Shape, Dormant
  <2>3. RightPeriod => RightPeriod'
    BY <2>1, <2>2, RightStill
  <2>4. QED BY <2>1, <2>3 DEF PeriodInv
<1>8. QED
  BY <1>1, <1>2, <1>3, <1>4, <1>5, <1>6, <1>7 DEF Next

LEMMA PeriodAlways == Spec => []PeriodInv
<1>1. Init => PeriodInv
  BY DEF Init, PeriodInv
<1>2. StrayInv /\ PeriodInv /\ [Next]_vars => PeriodInv'
  <2>1. CASE Next
    BY <2>1, PeriodKept
  <2>2. CASE UNCHANGED vars
    <3>1. UNCHANGED <<pc, refused, queue, timers, check_for_updates_timer, polling_interval_s>>
      BY <2>2 DEF vars, configVars, pcVars, timerVars, prepareVars
    <3>2. RightPeriod => RightPeriod'
      BY <3>1, RightStill
    <3>3. QED BY <3>1, <3>2 DEF PeriodInv
  <2>3. QED BY <2>1, <2>2
<1>3. QED
  BY <1>1, <1>2, StrayAlways, PTL DEF Spec

\* For intervals that neither multiplication takes out of a word, the timer runs with the
\* interval the server has asked for last, once its commands have been accepted and served.
THEOREM TimerRunsAtInterval == Spec => []PeriodIsInterval
<1>1. StrayInv /\ PeriodInv => PeriodIsInterval
  <2>1. SUFFICES ASSUME StrayInv, PeriodInv, MsPerS * TickRate * polling_interval_s < Word,
                        pc = "idle", refused = {}, queue = << >>, polling_interval_s > 0
                 PROVE  timers[check_for_updates_timer].period * MsPerS
                            = MsPerS * TickRate * polling_interval_s
    BY DEF PeriodIsInterval, RunsAtInterval
  <2>2. polling_interval_s \in Nat /\ 1..Len(queue) = {}
    BY <2>1 DEF StrayInv, Shape
  <2>3. timers[check_for_updates_timer].period = timerPeriod(polling_interval_s)
    BY <2>1, <2>2 DEF PeriodInv, RightPeriod, PeriodDue
  <2>4. timerPeriod(polling_interval_s) = TickRate * polling_interval_s
    BY <2>1, <2>2, PeriodFits
  <2>5. \A a, b, c \in Nat : (b * c) * a = (a * b) * c
    OBVIOUS
  <2>6. QED BY <2>2, <2>3, <2>4, <2>5, WordsAreNumbers
<1>2. QED
  BY <1>1, StrayAlways, PeriodAlways, PTL

-----------------------------------------------------------------------------
(* What is taken over from the metadata.                                   *)

IntervalRead(p) ==
    IF p.file["INTERVAL="] = Absent THEN polling_interval_s
    ELSE IntOf[p.file["INTERVAL="][1]] % Word

Whole(p) == p.file["VERSION="] # Absent /\ p.file["FILE="] # Absent

PathRead(p) == IF Whole(p) THEN Truncated(p.file["FILE="]) ELSE server_firmware_path

IsNew(p) == Whole(p) /\ IntOf[p.file["VERSION="][1]] # CurrentVersion

LEMMA CallbackReads ==
    ASSUME NEW p \in MetadataText, iap_https_metadata_body_callback(p)
    PROVE  /\ polling_interval_s' = IntervalRead(p)
           /\ server_firmware_path' = PathRead(p)
           /\ download' <=> download \/ IsNew(p)
           /\ p.file["INTERVAL="] # Absent => IntOf[p.file["INTERVAL="][1]] \in Int
           /\ Whole(p) => Len(Truncated(p.file["FILE="])) < PathSize
<1> DEFINE text    == TextOf(p)
           version == http_parse_key_value_int(text, "VERSION=")
           path    == http_parse_key_value_string(text, "FILE=")
<1>1. Published(p) /\ "INTERVAL=" \in Keys
  BY TextAssumption DEF Keys
<1>2. /\ polling_interval_s' \in
            IF strstr(text, "INTERVAL=") = {} THEN {polling_interval_s}
            ELSE {n % Word : n \in http_parse_key_value_int(text, "INTERVAL=")}
      /\ server_firmware_path' \in IF version = {} \/ path = {} THEN {server_firmware_path} ELSE path
      /\ download' = (download \/ (path # {} /\ \E v \in version : v # CurrentVersion))
  BY DEF iap_https_metadata_body_callback, TextOf
<1>3. /\ p.file["VERSION="] = Absent => version = {}
      /\ p.file["VERSION="] # Absent => version = {IntOf[p.file["VERSION="][1]]}
  BY <1>1, NumberIsRead
<1>4. /\ p.file["FILE="] = Absent => path = {}
      /\ p.file["FILE="] # Absent => /\ path = {Truncated(p.file["FILE="])}
                                     /\ Len(Truncated(p.file["FILE="])) < PathSize
  BY <1>1, PathIsRead
<1>5. /\ polling_interval_s' = IntervalRead(p)
      /\ p.file["INTERVAL="] # Absent => IntOf[p.file["INTERVAL="][1]] \in Int
  <2> DEFINE interval == http_parse_key_value_int(text, "INTERVAL=")
  <2>1. CASE p.file["INTERVAL="] = Absent
    <3>1. strstr(text, "INTERVAL=") = {}
      BY <1>1, <2>1, KeyIsFound
    <3>2. QED
      BY <1>2, <2>1, <3>1 DEF IntervalRead
  <2>2. CASE p.file["INTERVAL="] # Absent
    <3>1. strstr(text, "INTERVAL=") # {}
      BY <1>1, <2>2, KeyIsFound
    <3>2. /\ interval = {IntOf[p.file["INTERVAL="][1]]}
          /\ IntOf[p.file["INTERVAL="][1]] \in Int
      BY <1>1, <2>2, NumberIsRead
    <3>3. polling_interval_s' \in {n % Word : n \in interval}
      BY <1>2, <3>1
    <3>4. QED
      BY <2>2, <3>2, <3>3 DEF IntervalRead
  <2>3. QED
    BY <2>1, <2>2
<1> HIDE DEF version, path
<1>6. server_firmware_path' = PathRead(p)
  BY <1>2, <1>3, <1>4 DEF PathRead, Whole
<1>7. download' <=> download \/ IsNew(p)
  BY <1>2, <1>3, <1>4 DEF IsNew, Whole
<1>8. QED
  BY <1>4, <1>5, <1>6, <1>7 DEF Whole

\* What the updater takes over from the metadata is what was published, whatever the
\* file, the order of its lines and their ends.
THEOREM MetadataIsTakenOver == Spec => ReadsWhatWasPublished
<1> DEFINE Reads ==
        pc = "check" => \A p \in MetadataText : iap_https_metadata_body_callback(p) =>
          LET whole == p.file["VERSION="] # Absent /\ p.file["FILE="] # Absent
          IN /\ polling_interval_s' = IF p.file["INTERVAL="] = Absent THEN polling_interval_s
                                      ELSE IntOf[p.file["INTERVAL="][1]] % Word
             /\ server_firmware_path' = IF whole THEN Truncated(p.file["FILE="])
                                        ELSE server_firmware_path
             /\ download' <=> \/ download
                              \/ whole /\ IntOf[p.file["VERSION="][1]] # CurrentVersion
<1>1. Reads
  BY CallbackReads DEF IntervalRead, PathRead, IsNew, Whole
<1>2. QED
  BY <1>1, PTL DEF ReadsWhatWasPublished

-----------------------------------------------------------------------------
(* Types.                                                                  *)

ConfigTypes == polling_interval_s \in 0..(Word - 1) /\ Len(server_firmware_path) < PathSize
BitTypes    == {check, download, starting, missed} \subseteq BOOLEAN
PlaceTypes  == pc \in {"idle", "check", "prepare", "change", "reset", "clear"}
CallTypes   == /\ Len(queue) =< QueueLen
               /\ refused \subseteq {"create", "change", "reset", "delete"}
               /\ lost \subseteq Timer

Types == ConfigTypes /\ BitTypes /\ PlaceTypes /\ CallTypes

LEMMA ConfigTypesKept ==
    ASSUME ConfigTypes, Next
    PROVE  ConfigTypes'
<1>1. CASE \E p \in MetadataText : iap_https_metadata_body_callback(p)
  <2>1. PICK p \in MetadataText : iap_https_metadata_body_callback(p)
    BY <1>1
  <2>2. \A n \in Int : n % Word \in 0..(Word - 1)
    BY WordsAreNumbers
  <2>3. polling_interval_s' \in 0..(Word - 1)
    BY <2>1, <2>2, CallbackReads DEF IntervalRead, ConfigTypes
  <2>4. Len(server_firmware_path') < PathSize
    BY <2>1, CallbackReads DEF PathRead, ConfigTypes
  <2>5. QED
    BY <2>3, <2>4 DEF ConfigTypes
<1>2. CASE PeriodIsZero
  BY <1>2, IntervalAssumption, PathAssumption DEF PeriodIsZero, ConfigTypes
<1>3. CASE UNCHANGED configVars
  BY <1>3 DEF configVars, ConfigTypes
<1>4. QED
  BY <1>1, <1>2, <1>3
     DEF Next, Wakes, CheckFails, Download, CreateTimer, HasTimer, ChangePeriod, ResetTimer,
         DeleteTimer, ClearCheck, iap_https_check_now, ServeCommand,
         iap_https_periodic_check_timer_callback

LEMMA BitTypesKept ==
    ASSUME BitTypes, PlaceTypes, Next
    PROVE  BitTypes' /\ PlaceTypes'
<1>1. CASE Elsewhere
  BY <1>1 DEF Elsewhere, Wakes, CheckFails, iap_https_metadata_body_callback, Download, HasTimer,
              ClearCheck, iap_https_check_now, bits, pcVars, BitTypes, PlaceTypes
<1>2. CASE CreateTimer \/ ChangePeriod \/ ResetTimer \/ DeleteTimer
  BY <1>2 DEF CreateTimer, ChangePeriod, ResetTimer, DeleteTimer, Returns, bits, BitTypes, PlaceTypes
<1>3. CASE ServeCommand \/ PeriodIsZero \/ iap_https_periodic_check_timer_callback
  BY <1>3 DEF ServeCommand, PeriodIsZero, iap_https_periodic_check_timer_callback, bits, pcVars,
              BitTypes, PlaceTypes
<1>4. QED
  BY <1>1, <1>2, <1>3 DEF Next, Elsewhere

\* There is room for a command that is accepted, and no more calls fail than there are.
LEMMA SendingKeepsTypes ==
    ASSUME Shape, CallTypes, NEW op \in {"change", "reset", "delete"}, NEW t, NEW period,
           Send(Command(op, t, period)), lost' = lost
    PROVE  CallTypes'
<1>1. Command(op, t, period).op = op
  BY DEF Command
<1>2. CASE /\ Len(queue) < QueueLen /\ queue' = Append(queue, Command(op, t, period))
           /\ UNCHANGED refused
  <2>1. Len(queue) \in Nat /\ QueueLen \in Nat /\ Len(queue') = Len(queue) + 1
    BY <1>2, WordsAreNumbers DEF Shape
  <2>2. QED
    BY <1>2, <2>1 DEF CallTypes
<1>3. CASE refused' = refused \cup {op} /\ UNCHANGED queue
  BY <1>3 DEF CallTypes
<1>4. QED
  BY <1>1, <1>2, <1>3 DEF Send

LEMMA CallTypesKept ==
    ASSUME Shape, CallTypes, Next
    PROVE  CallTypes'
<1>1. CASE Wakes \/ CheckFails \/ (\E p \in MetadataText : iap_https_metadata_body_callback(p))
           \/ Download \/ HasTimer \/ ClearCheck \/ iap_https_check_now
           \/ iap_https_periodic_check_timer_callback
  BY <1>1 DEF Wakes, CheckFails, iap_https_metadata_body_callback, Download, HasTimer, ClearCheck,
              iap_https_check_now, iap_https_periodic_check_timer_callback, timerVars, prepareVars,
              CallTypes
<1>2. CASE CreateTimer
  BY <1>2 DEF CreateTimer, CallTypes
<1>3. CASE ChangePeriod
  BY <1>3, SendingKeepsTypes DEF ChangePeriod
<1>4. CASE ResetTimer
  BY <1>4, SendingKeepsTypes DEF ResetTimer
<1>5. CASE DeleteTimer
  <2>1. CASE check_for_updates_timer = NoTimer \/ Len(queue) = QueueLen
    BY <1>5, <2>1 DEF DeleteTimer, CallTypes, Shape
  <2>2. CASE Len(queue) < QueueLen
    <3>1. Len(queue) \in Nat /\ QueueLen \in Nat
      BY WordsAreNumbers DEF Shape
    <3>2. \/ queue' = queue
          \/ queue' = Append(queue, Command("delete", check_for_updates_timer, 0))
      BY <1>5, <2>2, <3>1 DEF DeleteTimer
    <3>3. Len(queue') =< QueueLen
      BY <2>2, <3>1, <3>2 DEF Shape
    <3>4. refused' = {} /\ lost' = lost
      BY <1>5, <2>2, <3>1 DEF DeleteTimer
    <3>5. QED
      BY <3>3, <3>4 DEF CallTypes
  <2>3. QED
    BY <1>5, <2>1, <2>2 DEF DeleteTimer
<1>6. CASE ServeCommand
  <2>1. Len(queue') \in Nat /\ Len(queue) = Len(queue') + 1
    BY <1>6, AfterTail DEF ServeCommand, Shape
  <2>2. refused' = refused /\ lost' = lost
    BY <1>6 DEF ServeCommand, prepareVars
  <2>3. QED
    BY <2>1, <2>2, WordsAreNumbers DEF CallTypes
<1>7. CASE PeriodIsZero
  BY <1>7, WordsAreNumbers DEF PeriodIsZero, CallTypes
<1>8. QED
  BY <1>1, <1>2, <1>3, <1>4, <1>5, <1>6, <1>7 DEF Next

\* The variables keep their types: the interval is a word however negative or large the
\* number in the metadata is, the path fits into its array, the queue into its own.
THEOREM TypesAreKept == Spec => []TypeOK
<1>1. Init => Types
  <2>1. SUFFICES ASSUME Init PROVE Types
    OBVIOUS
  <2>2. Len(<< >>) = 0 /\ 0 < PathSize /\ 0 =< QueueLen
    BY PathAssumption, WordsAreNumbers
  <2>3. ConfigTypes
    BY <2>1, <2>2, IntervalAssumption DEF Init, ConfigTypes
  <2>4. BitTypes /\ PlaceTypes
    BY <2>1 DEF Init, BitTypes, PlaceTypes
  <2>5. CallTypes
    BY <2>1, <2>2 DEF Init, CallTypes
  <2>6. QED
    BY <2>3, <2>4, <2>5 DEF Types
<1>2. StrayInv /\ Types /\ [Next]_vars => Types'
  <2> SUFFICES ASSUME StrayInv, Types, [Next]_vars PROVE Types'
    OBVIOUS
  <2>1. CASE Next
    BY <2>1, ConfigTypesKept, BitTypesKept, CallTypesKept DEF StrayInv, Types
  <2>2. CASE UNCHANGED vars
    <3>1. /\ UNCHANGED <<polling_interval_s, server_firmware_path, check, download, pc, starting>>
          /\ UNCHANGED <<queue, missed, refused, lost>>
      BY <2>2 DEF vars, configVars, bits, pcVars, timerVars, prepareVars
    <3>2. QED
      BY <3>1 DEF Types, ConfigTypes, BitTypes, PlaceTypes, CallTypes
  <2>3. QED
    BY <2>1, <2>2
<1>3. StrayInv /\ Types => TypeOK
  BY DEF StrayInv, Shape, Types, ConfigTypes, BitTypes, PlaceTypes, CallTypes, TypeOK
<1>4. QED
  BY <1>1, <1>2, <1>3, StrayAlways, PTL DEF Spec
=============================================================================
