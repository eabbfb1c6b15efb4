-------------------------- MODULE InputServiceProofs --------------------------
(***************************************************************************)
(* Proofs about InputService for any number of buttons, any debounce and   *)
(* long press counts and any length of the timer daemon's queue: the input *)
(* thread and the timer daemon, which both publish events for a button,    *)
(* never mix them up.                                                      *)
(***************************************************************************)
EXTENDS InputService, TLAPS

-----------------------------------------------------------------------------
(* What a record of events may look like.                                  *)
Occurs(events, type) == \E j \in DOMAIN events : events[j] = type
EndsIn(events, type) == events # <<>> /\ events[Len(events)] = type

InOrder(events) ==
  /\ ~(Occurs(events, "Short") /\ Occurs(events, "Long"))
  /\ \A j \in DOMAIN events : events[j] = "Short" => j > 1 /\ events[j - 1] = "Release"
  /\ \A j, l \in DOMAIN events : events[j] = "Long" /\ events[l] = "Long" => j = l
  /\ \A j \in DOMAIN events : events[j] = "Repeat" => \E l \in DOMAIN events : events[l] = "Long" /\ l < j

-----------------------------------------------------------------------------
(* The inductive invariant.  At each moment a button is in one of these    *)
(* phases; the first is PressIsOver's.                                     *)
ReleasePcs == {"timer_stop", "timer_wait", "short"}
At(i, location) == pin = i /\ scanPc = location
Over(i) == ~state[i] /\ ~(pin = i /\ scanPc \in ReleasePcs)
Releasing(i) == pin = i /\ scanPc \in ReleasePcs
Calling(i) == daemon # "free" /\ daemonPin = i

(* Every start of the button's timer that is queued is taken back.         *)
StartsEnd(i) == \A j \in DOMAIN commands : commands[j] = <<"start", i>> => StopFollows(i, j)

(* The button's timer callback is not running and will not run, even if    *)
(* the daemon finds the timer active: a stop is in the queue it empties.   *)
TimerOff(i) ==
  /\ ~Calling(i)
  /\ active[i] => draining /\ StopFollows(i, 0)
  /\ StartsEnd(i)

Phases ==
  /\ scanPc = "timer_start" => state[pin]
  /\ scanPc \in ReleasePcs => ~state[pin]
  /\ daemon # "free" => active[daemonPin]

TimerPhases ==
  \A i \in Pins :
    /\ Over(i) \/ At(i, "timer_start") \/ At(i, "short") => TimerOff(i)
    /\ At(i, "timer_wait") => (active[i] => StopFollows(i, 0)) /\ StartsEnd(i)

(* The counter and the callback tell whether the press was reported long.  *)
Reports ==
  \A i \in Pins :
    /\ InOrder(sent[i])
    /\ Over(i) => /\ sent[i] # <<>> => Has(i, "Short") \/ Has(i, "Long")
                  /\ counter[i] = 0
    /\ ~Over(i) => /\ ~Has(i, "Short")
                   /\ counter[i] < LongCounts => ~Has(i, "Long")
                   /\ counter[i] = LongCounts => IF Calling(i) /\ daemon = "Long"
                                                 THEN ~Has(i, "Long")
                                                 ELSE Has(i, "Long")
    /\ At(i, "timer_start") => counter[i] = 0
    /\ Releasing(i) => Has(i, "Long") \/ EndsIn(sent[i], "Release")
    /\ Calling(i) /\ daemon \in {"Long", "Repeat"} => counter[i] = LongCounts

InputIInv == InputTypeOK /\ Phases /\ TimerPhases /\ Reports
-----------------------------------------------------------------------------
(* What appending an event does to a record of events.                     *)
LEMMA AppendEvent ==
  ASSUME NEW events \in Seq(Types), NEW type \in Types
  PROVE  /\ Append(events, type) \in Seq(Types)
         /\ EndsIn(Append(events, type), type)
         /\ Append(events, type) # <<>>
         /\ \A u : Occurs(Append(events, type), u) <=> Occurs(events, u) \/ u = type
<1> DEFINE e == Append(events, type)
<1>1. /\ e \in Seq(Types) /\ Len(e) = Len(events) + 1 /\ Len(events) \in Nat
      /\ DOMAIN e = 1..(Len(events) + 1) /\ DOMAIN events = 1..Len(events)
      /\ e[Len(events) + 1] = type /\ \A j \in 1..Len(events) : e[j] = events[j]
  OBVIOUS
<1> HIDE DEF e
<1>2. EndsIn(e, type) /\ e # <<>>
  BY <1>1 DEF EndsIn
<1>3. ASSUME NEW u
      PROVE  Occurs(e, u) <=> Occurs(events, u) \/ u = type
  <2>1. Occurs(events, u) => Occurs(e, u)
    BY <1>1 DEF Occurs
  <2>2. Occurs(e, type)
    BY <1>1 DEF Occurs
  <2>3. Occurs(e, u) => Occurs(events, u) \/ u = type
    BY <1>1 DEF Occurs
  <2>4. QED
    BY <2>1, <2>2, <2>3
<1>4. QED
  BY <1>1, <1>2, <1>3 DEF e

(* When it keeps the record in order.                                      *)
LEMMA AppendInOrder ==
  ASSUME NEW events \in Seq(Types), NEW type \in {"Release", "Short", "Long", "Repeat"},
         InOrder(events),
         type = "Short" => EndsIn(events, "Release") /\ ~Occurs(events, "Long"),
         type = "Long" => ~Occurs(events, "Long") /\ ~Occurs(events, "Short"),
         type = "Repeat" => Occurs(events, "Long")
  PROVE  InOrder(Append(events, type))
<1> DEFINE e == Append(events, type)
           n == Len(events)
<1>1. type \in Types
  BY DEF Types
<1>2. /\ n \in Nat /\ DOMAIN e = 1..(n + 1) /\ DOMAIN events = 1..n
      /\ e[n + 1] = type /\ \A j \in 1..n : e[j] = events[j]
  BY <1>1
<1>3. \A u : Occurs(e, u) <=> Occurs(events, u) \/ u = type
  BY <1>1, AppendEvent
<1>4. EndsIn(events, "Release") => n >= 1 /\ events[n] = "Release"
  BY DEF EndsIn
<1> HIDE DEF e, n
<1>5. ~(Occurs(e, "Short") /\ Occurs(e, "Long"))
  BY <1>3 DEF InOrder
<1>6. ASSUME NEW j \in DOMAIN e, e[j] = "Short"
      PROVE  j > 1 /\ e[j - 1] = "Release"
  <2>1. CASE j \in 1..n
    <3>1. j > 1 /\ events[j - 1] = "Release"
      BY <1>2, <1>6, <2>1 DEF InOrder
    <3>2. QED
      BY <1>2, <2>1, <3>1
  <2>2. CASE j = n + 1
    BY <1>2, <1>4, <1>6, <2>2
  <2>3. QED
    BY <1>2, <2>1, <2>2
<1>7. ASSUME NEW j \in DOMAIN e, NEW l \in DOMAIN e, e[j] = "Long", e[l] = "Long"
      PROVE  j = l
  BY <1>2, <1>7 DEF InOrder, Occurs
<1>8. ASSUME NEW j \in DOMAIN e, e[j] = "Repeat"
      PROVE  \E l \in DOMAIN e : e[l] = "Long" /\ l < j
  <2>1. CASE j \in 1..n
    <3>1. PICK l \in DOMAIN events : events[l] = "Long" /\ l < j
      BY <1>2, <1>8, <2>1 DEF InOrder
    <3>2. QED
      BY <1>2, <3>1
  <2>2. CASE j = n + 1
    <3>1. PICK l \in DOMAIN events : events[l] = "Long"
      BY <1>2, <1>8, <2>2 DEF Occurs
    <3>2. QED
      BY <1>2, <2>2, <3>1
  <2>3. QED
    BY <1>2, <2>1, <2>2
<1>9. InOrder(e)
  BY <1>5, <1>6, <1>7, <1>8 DEF InOrder
<1>10. QED
  BY <1>9 DEF e

-----------------------------------------------------------------------------
(* What a command entering the daemon's queue does to the starts and stops *)
(* of the timers.                                                          *)
LEMMA CommandQueued ==
  ASSUME commands \in Seq({"start", "stop"} \X Pins), NEW c \in {"start", "stop"}, NEW p \in Pins,
         commands' = Append(commands, <<c, p>>)
  PROVE  /\ commands' \in Seq({"start", "stop"} \X Pins) /\ Len(commands') = Len(commands) + 1
         /\ \A i, j : StopFollows(i, j) => StopFollows(i, j)'
         /\ \A i : StartsEnd(i) /\ ~(c = "start" /\ i = p) => StartsEnd(i)'
         /\ c = "stop" => StartsEnd(p)' /\ StopFollows(p, 0)'
<1> DEFINE n == Len(commands)
           e == <<c, p>>
<1>1. /\ n \in Nat /\ DOMAIN commands' = 1..(n + 1) /\ DOMAIN commands = 1..n
      /\ commands' \in Seq({"start", "stop"} \X Pins) /\ Len(commands') = n + 1
      /\ commands'[n + 1] = e /\ \A j \in 1..n : commands'[j] = commands[j]
  OBVIOUS
<1>2. \A a, b : e = <<a, b>> <=> c = a /\ p = b
  OBVIOUS
<1> HIDE DEF n, e
<1>3. ASSUME NEW i, NEW j, StopFollows(i, j)
      PROVE  StopFollows(i, j)'
  BY <1>1, <1>3 DEF StopFollows
<1>4. ASSUME NEW i, StartsEnd(i), ~(c = "start" /\ i = p)
      PROVE  StartsEnd(i)'
  <2>1. \A j \in 1..n : commands[j] = <<"start", i>> => StopFollows(i, j)'
    BY <1>1, <1>3, <1>4 DEF StartsEnd
  <2>2. e # <<"start", i>>
    BY <1>2, <1>4
  <2>3. QED
    BY <1>1, <2>1, <2>2 DEF StartsEnd
<1>5. ASSUME c = "stop"
      PROVE  StartsEnd(p)' /\ StopFollows(p, 0)'
  <2>1. e = <<"stop", p>> /\ e # <<"start", p>>
    BY <1>2, <1>5
  <2>2. \A j \in 0..n : StopFollows(p, j)'
    BY <1>1, <2>1 DEF StopFollows
  <2>3. QED
    BY <1>1, <2>1, <2>2 DEF StartsEnd
<1>6. QED
  BY <1>1, <1>3, <1>4, <1>5 DEF n

(* What taking a command out of it does.                                   *)
LEMMA CommandTaken ==
  ASSUME commands \in Seq({"start", "stop"} \X Pins), commands # <<>>, commands' = Tail(commands)
  PROVE  /\ commands' \in Seq({"start", "stop"} \X Pins) /\ Len(commands') = Len(commands) - 1
         /\ \A i : StopFollows(i, 0) /\ commands[1] # <<"stop", i>> =>
                     StopFollows(i, 0)' /\ Len(commands) > 1
         /\ \A i : StartsEnd(i) => StartsEnd(i)'
         /\ \A i : StartsEnd(i) /\ commands[1] = <<"start", i>> =>
                     StopFollows(i, 0)' /\ Len(commands) > 1
<1> DEFINE n == Len(commands)
<1>1. /\ n \in Nat /\ n >= 1 /\ DOMAIN commands' = 1..(n - 1) /\ DOMAIN commands = 1..n
      /\ commands' \in Seq({"start", "stop"} \X Pins) /\ Len(commands') = n - 1
      /\ \A j \in 1..(n - 1) : commands'[j] = commands[j + 1]
  OBVIOUS
<1> HIDE DEF n
<1>2. \A j \in 2..n : j - 1 \in 1..(n - 1) /\ commands'[j - 1] = commands[j]
  BY <1>1
<1>3. ASSUME NEW i, NEW j \in Nat, StopFollows(i, j + 1)
      PROVE  StopFollows(i, j)' /\ n > 1
  <2>1. PICK k \in 1..n : k > j + 1 /\ commands[k] = <<"stop", i>>
    BY <1>1, <1>3 DEF StopFollows
  <2>2. k - 1 \in DOMAIN commands' /\ k - 1 > j /\ commands'[k - 1] = <<"stop", i>>
    BY <1>1, <1>2, <2>1
  <2>3. n > 1
    BY <1>1, <2>1
  <2>4. QED
    BY <2>2, <2>3 DEF StopFollows
<1>4. ASSUME NEW i, StopFollows(i, 0), commands[1] # <<"stop", i>>
      PROVE  StopFollows(i, 0)' /\ n > 1
  <2>1. StopFollows(i, 0 + 1)
    BY <1>1, <1>4 DEF StopFollows
  <2>2. QED
    BY <1>3, <2>1
<1>5. ASSUME NEW i, StartsEnd(i), NEW j \in DOMAIN commands', commands'[j] = <<"start", i>>
      PROVE  StopFollows(i, j)'
  <2>1. j \in Nat /\ j + 1 \in DOMAIN commands /\ commands[j + 1] = <<"start", i>>
    BY <1>1, <1>5
  <2>2. StopFollows(i, j + 1)
    BY <1>5, <2>1 DEF StartsEnd
  <2>3. QED
    BY <1>3, <2>1, <2>2
<1>6. ASSUME NEW i, StartsEnd(i), commands[1] = <<"start", i>>
      PROVE  StopFollows(i, 0)' /\ n > 1
  <2>1. StopFollows(i, 0 + 1)
    BY <1>1, <1>6 DEF StartsEnd
  <2>2. QED
    BY <1>3, <2>1
<1>7. QED
  BY <1>1, <1>4, <1>5, <1>6 DEF n, StartsEnd

-----------------------------------------------------------------------------
(* Types, step by step.                                                    *)
LEMMA InputTypeStep ==
  ASSUME InputTypeOK, [InputNext]_inputVars
  PROVE  InputTypeOK'
<1> USE InputAssumption DEF InputTypeOK
<1>p. ASSUME NEW i \in Pins, NEW type \in Types, Publish(i, type)
      PROVE  sent' \in [Pins -> Seq(Types)]
  <2>1. sent[i] \in Seq(Types) /\ <<type>> \in Seq(Types)
    OBVIOUS
  <2>2. After(sent[i], type) \in Seq(Types)
    BY <2>1, AppendEvent DEF After
  <2>3. QED
    BY <1>p, <2>2 DEF Publish
<1>c. ASSUME NEW c \in {"start", "stop"}, SendCommand(c)
      PROVE  commands' \in Seq({"start", "stop"} \X Pins) /\ Len(commands') <= TimerQueue
  BY <1>c, CommandQueued DEF SendCommand
<1>1. CASE \E i \in Pins : Move(i)
  BY <1>1 DEF Move, timers, scan
<1>2. CASE Settle
  <2>1. debounce'[pin] \in 0..DebounceTicks
    BY <1>2 DEF Settle, Settling
  <2>2. QED
    BY <1>2, <2>1 DEF Settle, timers, Locations
<1>3. CASE Same \/ TimerWait \/ Wake
  BY <1>3 DEF Same, TimerWait, Wake, timers, Locations
<1>4. CASE Differ
  BY <1>4, <1>p DEF Differ, timers, Locations, Types
<1>5. CASE TimerStart \/ TimerStop
  BY <1>5, <1>c DEF TimerStart, TimerStop, Locations
<1>6. CASE Short
  <2>1. sent' \in [Pins -> Seq(Types)]
    BY <1>6, <1>p DEF Short, Types
  <2>2. counter' \in [Pins -> 0..LongCounts]
    BY <1>6 DEF Short
  <2>3. QED
    BY <1>6, <2>1, <2>2 DEF Short, timers, Locations
<1>7. CASE Continue
  <2>1. pin' \in Pins
    BY <1>7 DEF Continue, Pins
  <2>2. QED
    BY <1>7, <2>1 DEF Continue, timers, Locations
<1>8. CASE Command
  <2>1. /\ commands # <<>> /\ commands' = Tail(commands) /\ draining' \in BOOLEAN
        /\ active' = [active EXCEPT ![commands[1][2]] = commands[1][1] = "start"]
        /\ UNCHANGED <<pinLevel, isrFlag, state, debounce, counter, daemon, daemonPin, scan, sent>>
    BY <1>8 DEF Command
  <2>2. commands' \in Seq({"start", "stop"} \X Pins) /\ Len(commands') <= TimerQueue
    BY <2>1, CommandTaken
  <2>3. (commands[1][1] = "start") \in BOOLEAN
    OBVIOUS
  <2>4. active' \in [Pins -> BOOLEAN]
    BY <2>1, <2>3
  <2>5. QED
    BY <2>1, <2>2, <2>4 DEF scan
<1>9. ASSUME NEW i \in Pins, Expire(i)
      PROVE  InputTypeOK'
  <2>1. counter' \in [Pins -> 0..LongCounts] /\ daemon' \in {"free", "quiet", "Long", "Repeat"}
    <3>1. CASE counter[i] < LongCounts
      <4>1. counter' = [counter EXCEPT ![i] = counter[i] + 1] /\ daemon' \in {"Long", "quiet"}
        BY <1>9, <3>1 DEF Expire
      <4>2. counter[i] + 1 \in 0..LongCounts
        BY SMTT(60), <3>1
      <4>3. QED
        BY <4>1, <4>2
    <3>2. CASE ~(counter[i] < LongCounts)
      BY <1>9, <3>2 DEF Expire
    <3>3. QED
      BY <3>1, <3>2
  <2>2. QED
    BY <1>9, <2>1 DEF Expire, scan
<1>10. CASE CallbackEnd
  <2>1. sent' \in [Pins -> Seq(Types)]
    BY <1>10, <1>p DEF CallbackEnd, Types
  <2>2. 1 \in Pins
    BY DEF Pins
  <2>3. QED
    BY <1>10, <2>1, <2>2 DEF CallbackEnd, scan
<1>11. CASE UNCHANGED inputVars
  BY <1>11 DEF inputVars, timers, scan
<1>12. QED
  BY <1>1, <1>2, <1>3, <1>4, <1>5, <1>6, <1>7, <1>8, <1>9, <1>10, <1>11
     DEF InputNext, Thread, Daemon

-----------------------------------------------------------------------------
(* A button moves, or the thread looks at a button and finds no event.     *)
LEMMA QuietStep ==
  ASSUME InputIInv, \/ UNCHANGED scan
                    \/ scanPc \in {"scan", "next", "sleep"} /\ scanPc' \in {"scan", "next", "sleep"},
         UNCHANGED <<state, counter, timers, sent>>
  PROVE  Phases' /\ TimerPhases' /\ Reports'
<1>1. UNCHANGED <<active, commands, daemon, daemonPin, draining>>
  BY DEF timers
<1>2. \A i : Over(i)' = Over(i) /\ \A l \in ReleasePcs \union {"timer_start"} : At(i, l)' = At(i, l)
  BY DEF Over, At, ReleasePcs, scan
<1>3. \A i : Releasing(i)' = Releasing(i) /\ Calling(i)' = Calling(i) /\ TimerOff(i)' = TimerOff(i)
             /\ StartsEnd(i)' = StartsEnd(i) /\ StopFollows(i, 0)' = StopFollows(i, 0)
  BY <1>1 DEF Releasing, Calling, TimerOff, StartsEnd, StopFollows, ReleasePcs, scan
<1>4. Phases'
  BY <1>1 DEF InputIInv, Phases, ReleasePcs, scan
<1>5. TimerPhases'
  BY <1>1, <1>2, <1>3 DEF InputIInv, TimerPhases, ReleasePcs
<1>6. Reports'
  BY <1>1, <1>2, <1>3 DEF InputIInv, Reports, Has, ReleasePcs
<1>7. QED
  BY <1>4, <1>5, <1>6

(* A press or a release is seen and published.                             *)
LEMMA DifferStep ==
  ASSUME InputIInv, Differ
  PROVE  Phases' /\ TimerPhases' /\ Reports'
<1> DEFINE type == IF pinLevel[pin] THEN "Press" ELSE "Release"
<1>1. /\ scanPc = "scan" /\ state[pin] # pinLevel[pin]
      /\ state' = [state EXCEPT ![pin] = pinLevel[pin]]
      /\ sent' = [sent EXCEPT ![pin] = After(sent[pin], type)]
      /\ scanPc' = IF pinLevel[pin] THEN "timer_start" ELSE "timer_stop"
      /\ pin' = pin
      /\ UNCHANGED <<counter, active, commands, daemon, daemonPin, draining>>
  BY DEF Differ, Publish, timers
<1>2. /\ pin \in Pins /\ state \in [Pins -> BOOLEAN] /\ sent \in [Pins -> Seq(Types)]
      /\ pinLevel[pin] \in BOOLEAN
  BY DEF InputIInv, InputTypeOK
<1>3. \A i : Calling(i)' = Calling(i) /\ TimerOff(i)' = TimerOff(i) /\ StartsEnd(i)' = StartsEnd(i)
             /\ StopFollows(i, 0)' = StopFollows(i, 0)
  BY <1>1 DEF Calling, TimerOff, StartsEnd, StopFollows
<1>4. Phases'
  BY <1>1, <1>2 DEF InputIInv, Phases, ReleasePcs
<1>5. /\ \A i \in Pins : Over(i) <=> ~state[i]
      /\ \A i \in Pins \ {pin} : Over(i)' <=> Over(i)
      /\ ~Over(pin)'
  BY <1>1, <1>2 DEF Over, ReleasePcs
<1>6. TimerPhases'
  BY <1>1, <1>2, <1>3, <1>5 DEF InputIInv, TimerPhases, At
<1>7. ASSUME NEW i \in Pins, i # pin
      PROVE  /\ InOrder(sent'[i])
             /\ Over(i)' => (sent'[i] # <<>> => Has(i, "Short")' \/ Has(i, "Long")') /\ counter'[i] = 0
             /\ ~Over(i)' => /\ ~Has(i, "Short")'
                             /\ counter'[i] < LongCounts => ~Has(i, "Long")'
                             /\ counter'[i] = LongCounts => IF Calling(i)' /\ daemon' = "Long"
                                                            THEN ~Has(i, "Long")'
                                                            ELSE Has(i, "Long")'
             /\ Calling(i)' /\ daemon' \in {"Long", "Repeat"} => counter'[i] = LongCounts
  <2>1. sent'[i] = sent[i] /\ \A u : Has(i, u)' = Has(i, u)
    BY <1>1, <1>2, <1>7 DEF Has
  <2>2. QED
    BY <1>1, <1>3, <1>5, <1>7, <2>1 DEF InputIInv, Reports
<1>8. CASE pinLevel[pin]
  <2>1. sent'[pin] = <<"Press">> /\ Over(pin)
    BY <1>1, <1>2, <1>5, <1>8 DEF After
  <2>2. InOrder(sent'[pin]) /\ ~Has(pin, "Short")' /\ ~Has(pin, "Long")'
    BY <1>1, <2>1 DEF InOrder, Occurs, Has
  <2>3. counter[pin] = 0 /\ ~Calling(pin)
    BY <1>2, <2>1 DEF InputIInv, Reports, TimerPhases, TimerOff
  <2>4. QED
    BY <1>1, <1>2, <1>3, <1>4, <1>5, <1>6, <1>7, <1>8, <2>2, <2>3, InputAssumption
       DEF Reports, Releasing, At, ReleasePcs
<1>9. CASE ~pinLevel[pin]
  <2>1. sent'[pin] = Append(sent[pin], "Release") /\ ~Over(pin) /\ InOrder(sent[pin])
    BY <1>1, <1>2, <1>5, <1>9 DEF After, InputIInv, Reports
  <2>2. /\ InOrder(sent'[pin]) /\ EndsIn(sent'[pin], "Release")
        /\ \A u \in {"Short", "Long"} : Has(pin, u)' <=> Has(pin, u)
    <3>1. sent[pin] \in Seq(Types) /\ "Release" \in Types
      BY <1>2 DEF Types
    <3>2. InOrder(sent'[pin]) /\ EndsIn(sent'[pin], "Release")
          /\ \A u : Occurs(sent'[pin], u) <=> Occurs(sent[pin], u) \/ u = "Release"
      BY <2>1, <3>1, AppendEvent, AppendInOrder
    <3>3. QED
      BY <1>1, <3>2 DEF Has, Occurs
  <2>3. QED
    BY <1>1, <1>2, <1>3, <1>4, <1>5, <1>6, <1>7, <1>9, <2>1, <2>2
       DEF InputIInv, Reports, Releasing, At, ReleasePcs
<1>10. QED
  BY <1>2, <1>8, <1>9

(* The thread queues the start of a timer.                                 *)
LEMMA TimerStartStep ==
  ASSUME InputIInv, TimerStart
  PROVE  Phases' /\ TimerPhases' /\ Reports'
<1>1. /\ scanPc = "timer_start" /\ scanPc' = "next" /\ commands' = Append(commands, <<"start", pin>>)
      /\ pin' = pin /\ UNCHANGED <<state, counter, active, daemon, daemonPin, draining, sent>>
  BY DEF TimerStart, SendCommand
<1>2. pin \in Pins /\ commands \in Seq({"start", "stop"} \X Pins)
  BY DEF InputIInv, InputTypeOK
<1>3. /\ \A i : StopFollows(i, 0) => StopFollows(i, 0)'
      /\ \A i : StartsEnd(i) /\ i # pin => StartsEnd(i)'
  BY <1>1, <1>2, CommandQueued
<1>4. \A i : Over(i)' = Over(i) /\ Calling(i)' = Calling(i)
  BY <1>1 DEF Over, Calling, ReleasePcs
<1>5. state[pin]
  BY <1>1 DEF InputIInv, Phases
<1>6. \A i : TimerOff(i) /\ i # pin => TimerOff(i)'
  BY <1>1, <1>3, <1>4 DEF TimerOff
<1>7. Phases'
  BY <1>1 DEF InputIInv, Phases, ReleasePcs
<1>8. TimerPhases'
  BY <1>1, <1>4, <1>5, <1>6 DEF InputIInv, TimerPhases, At, Over
<1>9. Reports'
  BY <1>1, <1>4 DEF InputIInv, Reports, Has, Releasing, At, ReleasePcs
<1>10. QED
  BY <1>7, <1>8, <1>9

(* It queues the stop, polls the timer, and has found it stopped.          *)
LEMMA TimerStopStep ==
  ASSUME InputIInv, TimerStop \/ TimerWait
  PROVE  Phases' /\ TimerPhases' /\ Reports'
<1>1. /\ pin' = pin /\ scanPc \in {"timer_stop", "timer_wait"} /\ scanPc' \in {"timer_wait", "short"}
      /\ UNCHANGED <<state, counter, active, daemon, daemonPin, draining, sent>>
  BY DEF TimerStop, TimerWait, timers
<1>2. pin \in Pins /\ commands \in Seq({"start", "stop"} \X Pins)
  BY DEF InputIInv, InputTypeOK
<1>3. \A i : /\ StopFollows(i, 0) => StopFollows(i, 0)'
             /\ StartsEnd(i) => StartsEnd(i)'
  <2>1. CASE commands' = Append(commands, <<"stop", pin>>)
    BY <1>2, <2>1, CommandQueued
  <2>2. CASE commands' = commands
    BY <2>2 DEF StopFollows, StartsEnd
  <2>3. QED
    BY <2>1, <2>2 DEF TimerStop, TimerWait, SendCommand, timers
<1>4. \A i : Over(i)' = Over(i) /\ Calling(i)' = Calling(i) /\ Releasing(i)' = Releasing(i)
  BY <1>1 DEF Over, Calling, Releasing, ReleasePcs
<1>5. \A i : TimerOff(i) => TimerOff(i)'
  BY <1>1, <1>3, <1>4 DEF TimerOff
<1>6. Phases'
  BY <1>1 DEF InputIInv, Phases, ReleasePcs
<1>7. CASE TimerStop
  <2>1. scanPc' = "timer_wait" /\ StartsEnd(pin)' /\ StopFollows(pin, 0)'
    BY <1>2, <1>7, CommandQueued DEF TimerStop, SendCommand
  <2>2. TimerPhases'
    BY <1>1, <1>4, <1>5, <2>1 DEF InputIInv, TimerPhases, At
  <2>3. Reports'
    BY <1>1, <1>4, <2>1 DEF InputIInv, Reports, At, Has
  <2>4. QED
    BY <1>6, <2>2, <2>3
<1>8. CASE TimerWait
  <2>1. scanPc = "timer_wait" /\ scanPc' = "short" /\ ~active[pin]
    BY <1>8 DEF TimerWait
  <2>2. TimerOff(pin)'
    BY <1>1, <1>2, <1>3, <2>1 DEF InputIInv, TimerPhases, Phases, At, Calling, TimerOff
  <2>3. TimerPhases'
    BY <1>1, <1>4, <1>5, <2>1, <2>2 DEF InputIInv, TimerPhases, At
  <2>4. Reports'
    BY <1>1, <1>4, <2>1 DEF InputIInv, Reports, At, Has
  <2>5. QED
    BY <1>6, <2>3, <2>4
<1>9. QED
  BY <1>7, <1>8

(* It reports a short press and forgets the count.                         *)
LEMMA ShortStep ==
  ASSUME InputIInv, Short
  PROVE  Phases' /\ TimerPhases' /\ Reports'
<1>1. /\ scanPc = "short" /\ scanPc' = "next" /\ pin' = pin
      /\ counter' = [counter EXCEPT ![pin] = 0]
      /\ IF counter[pin] < LongCounts THEN sent' = [sent EXCEPT ![pin] = After(sent[pin], "Short")]
                                      ELSE sent' = sent
      /\ UNCHANGED <<state, active, commands, daemon, daemonPin, draining>>
  BY DEF Short, Publish, timers
<1>2. /\ pin \in Pins /\ counter \in [Pins -> 0..LongCounts] /\ sent \in [Pins -> Seq(Types)]
      /\ sent[pin] \in Seq(Types)
  BY DEF InputIInv, InputTypeOK
<1>3. \A i : Calling(i)' = Calling(i) /\ TimerOff(i)' = TimerOff(i) /\ StartsEnd(i)' = StartsEnd(i)
             /\ StopFollows(i, 0)' = StopFollows(i, 0)
  BY <1>1 DEF Calling, TimerOff, StartsEnd, StopFollows
<1>4. ~state[pin] /\ TimerOff(pin) /\ ~Over(pin) /\ Releasing(pin)
  BY <1>1, <1>2 DEF InputIInv, Phases, TimerPhases, At, Over, Releasing, ReleasePcs
<1>5. Over(pin)' /\ \A i \in Pins \ {pin} : Over(i)' = Over(i) /\ Releasing(i)' = Releasing(i)
  BY <1>1, <1>4 DEF Over, Releasing, ReleasePcs
<1>6. Phases'
  BY <1>1 DEF InputIInv, Phases, ReleasePcs
<1>7. TimerPhases'
  BY <1>1, <1>3, <1>4, <1>5 DEF InputIInv, TimerPhases, At
<1>8. \A i \in Pins \ {pin} : sent'[i] = sent[i] /\ counter'[i] = counter[i]
                              /\ \A u : Has(i, u)' = Has(i, u)
  BY <1>1, <1>2 DEF Has
<1>9. InOrder(sent'[pin]) /\ (Has(pin, "Short")' \/ Has(pin, "Long")')
  <2>1. CASE counter[pin] < LongCounts
    <3>1. sent'[pin] = Append(sent[pin], "Short")
      BY <1>1, <1>2, <2>1 DEF After
    <3>2. InOrder(sent[pin]) /\ EndsIn(sent[pin], "Release") /\ ~Occurs(sent[pin], "Long")
      BY <1>2, <1>4, <2>1 DEF InputIInv, Reports, Has, Occurs
    <3>3. InOrder(sent'[pin])
      BY <1>2, <3>1, <3>2, AppendInOrder
    <3>4. "Short" \in Types
      BY DEF Types
    <3>5. Occurs(sent'[pin], "Short")
      BY <1>2, <3>1, <3>4, AppendEvent
    <3>6. QED
      BY <1>1, <3>3, <3>5 DEF Has, Occurs
  <2>2. CASE counter[pin] = LongCounts
    <3>1. sent' = sent
      BY <1>1, <2>2, InputAssumption
    <3>2. Has(pin, "Long") /\ InOrder(sent[pin])
      BY <1>2, <1>4, <2>2 DEF InputIInv, Reports, TimerOff
    <3>3. QED
      BY <1>1, <3>1, <3>2 DEF Has
  <2>3. QED
    BY <1>2, <2>1, <2>2, InputAssumption
<1>10. Reports'
  BY <1>1, <1>2, <1>3, <1>4, <1>5, <1>8, <1>9, InputAssumption
     DEF InputIInv, Reports, At, Releasing, ReleasePcs, TimerOff
<1>11. QED
  BY <1>6, <1>7, <1>10

-----------------------------------------------------------------------------
(* The daemon starts or stops a timer.                                     *)
LEMMA CommandStep ==
  ASSUME InputIInv, Command
  PROVE  Phases' /\ TimerPhases' /\ Reports'
<1> DEFINE p == commands[1][2]
<1>1. /\ daemon = "free" /\ commands # <<>> /\ commands' = Tail(commands)
      /\ active' = [active EXCEPT ![p] = commands[1][1] = "start"]
      /\ draining' = (Len(commands) > 1)
      /\ UNCHANGED <<state, counter, daemon, daemonPin, scanPc, pin, sent>>
  BY DEF Command, scan
<1>2. /\ commands \in Seq({"start", "stop"} \X Pins) /\ active \in [Pins -> BOOLEAN]
      /\ commands[1] \in {"start", "stop"} \X Pins
  BY <1>1 DEF InputIInv, InputTypeOK
<1>3. p \in Pins /\ (commands[1] = <<"start", p>> \/ commands[1] = <<"stop", p>>)
  BY <1>2
<1>4. /\ \A i : StopFollows(i, 0) /\ commands[1] # <<"stop", i>> => StopFollows(i, 0)' /\ Len(commands) > 1
      /\ \A i : StartsEnd(i) => StartsEnd(i)'
      /\ \A i : StartsEnd(i) /\ commands[1] = <<"start", i>> => StopFollows(i, 0)' /\ Len(commands) > 1
  BY <1>1, <1>2, CommandTaken
<1>5. ASSUME NEW i \in Pins, StartsEnd(i), active[i] => StopFollows(i, 0)
      PROVE  StartsEnd(i)' /\ (active'[i] => StopFollows(i, 0)' /\ draining')
  <2>1. CASE i # p
    BY <1>1, <1>2, <1>3, <1>4, <1>5, <2>1
  <2>2. CASE i = p /\ commands[1] = <<"start", p>>
    BY <1>1, <1>2, <1>3, <1>4, <1>5, <2>2
  <2>3. CASE i = p /\ commands[1] = <<"stop", p>>
    <3>1. ~active'[i]
      <4>1. commands[1][1] = "stop"
        BY <2>3
      <4>2. ~(commands[1][1] = "start")
        BY <4>1
      <4>3. active'[p] = (commands[1][1] = "start")
        BY <1>1, <1>2, <1>3
      <4>4. QED
        BY <2>3, <4>2, <4>3
    <3>2. QED
      BY <1>4, <1>5, <3>1
  <2>4. QED
    BY <1>3, <2>1, <2>2, <2>3
<1> HIDE DEF p
<1>6. \A i : Over(i)' = Over(i) /\ Calling(i)' = Calling(i) /\ Releasing(i)' = Releasing(i)
  BY <1>1 DEF Over, Calling, Releasing
<1>7. Phases'
  BY <1>1 DEF InputIInv, Phases
<1>8. TimerPhases'
  BY <1>1, <1>5, <1>6 DEF InputIInv, TimerPhases, TimerOff, At
<1>9. Reports'
  BY <1>1, <1>6 DEF InputIInv, Reports, At, Has
<1>10. QED
  BY <1>7, <1>8, <1>9

(* A timer expires: the callback counts.                                   *)
LEMMA ExpireStep ==
  ASSUME InputIInv, NEW p \in Pins, Expire(p)
  PROVE  Phases' /\ TimerPhases' /\ Reports'
<1>1. /\ daemon = "free" /\ ~draining /\ active[p] /\ daemonPin' = p
      /\ UNCHANGED <<state, active, commands, draining, scanPc, pin, sent>>
  BY DEF Expire, scan
<1>2. counter \in [Pins -> 0..LongCounts]
  BY DEF InputIInv, InputTypeOK
<1>3. \/ /\ counter[p] < LongCounts /\ counter' = [counter EXCEPT ![p] = counter[p] + 1]
         /\ daemon' = IF counter[p] + 1 = LongCounts THEN "Long" ELSE "quiet"
      \/ counter[p] = LongCounts /\ counter' = counter /\ daemon' = "Repeat"
  BY <1>2, InputAssumption DEF Expire
<1>4. ~TimerOff(p) /\ \A i : ~Calling(i)
  BY <1>1 DEF TimerOff, Calling
<1>5. /\ \A i \in Pins \ {p} : TimerOff(i)' = TimerOff(i) /\ ~Calling(i)' /\ counter'[i] = counter[i]
      /\ \A i : /\ StartsEnd(i)' = StartsEnd(i) /\ StopFollows(i, 0)' = StopFollows(i, 0)
                /\ Over(i)' = Over(i) /\ Releasing(i)' = Releasing(i)
                /\ \A u : Has(i, u)' = Has(i, u)
  BY <1>1, <1>2, <1>3, <1>4 DEF TimerOff, Calling, StartsEnd, StopFollows, Over, Releasing, Has
<1>6. Phases'
  BY <1>1, <1>3 DEF InputIInv, Phases
<1>7. TimerPhases'
  BY <1>1, <1>4, <1>5 DEF InputIInv, TimerPhases, At
<1>8. ~Over(p) /\ ~At(p, "timer_start") /\ ~At(p, "short")
  BY <1>4 DEF InputIInv, TimerPhases
<1>9. Reports'
  <2>1. Calling(p)'
    BY <1>1, <1>3 DEF Calling
  <2>2. ASSUME NEW i \in Pins, i # p
        PROVE  /\ InOrder(sent'[i])
               /\ Over(i)' => (sent'[i] # <<>> => Has(i, "Short")' \/ Has(i, "Long")') /\ counter'[i] = 0
               /\ ~Over(i)' => /\ ~Has(i, "Short")'
                               /\ counter'[i] < LongCounts => ~Has(i, "Long")'
                               /\ counter'[i] = LongCounts => Has(i, "Long")'
               /\ At(i, "timer_start")' => counter'[i] = 0
               /\ Releasing(i)' => Has(i, "Long")' \/ EndsIn(sent'[i], "Release")
    BY <1>1, <1>4, <1>5, <2>2 DEF InputIInv, Reports, At
  <2>3. /\ InOrder(sent'[p]) /\ ~Has(p, "Short")'
        /\ counter'[p] < LongCounts => ~Has(p, "Long")'
        /\ counter'[p] = LongCounts => IF daemon' = "Long" THEN ~Has(p, "Long")' ELSE Has(p, "Long")'
        /\ Releasing(p)' => Has(p, "Long")' \/ EndsIn(sent'[p], "Release")
        /\ daemon' \in {"Long", "Repeat"} => counter'[p] = LongCounts
    <3>1. /\ InOrder(sent[p]) /\ ~Has(p, "Short")
          /\ counter[p] < LongCounts => ~Has(p, "Long")
          /\ counter[p] = LongCounts => Has(p, "Long")
          /\ Releasing(p) => Has(p, "Long") \/ EndsIn(sent[p], "Release")
      BY <1>4, <1>8 DEF InputIInv, Reports
    <3>2. CASE counter[p] = LongCounts
      BY <1>1, <1>3, <1>5, <3>1, <3>2, InputAssumption
    <3>3. CASE counter[p] < LongCounts
      <4>1. counter'[p] = counter[p] + 1
        BY <1>2, <1>3, <3>3
      <4>2. QED
        BY <1>1, <1>2, <1>3, <1>5, <3>1, <3>3, <4>1, InputAssumption
    <3>4. QED
      BY <1>2, <3>2, <3>3, InputAssumption
  <2>4. ~At(p, "timer_start")' /\ ~Over(p)'
    BY <1>1, <1>5, <1>8 DEF At
  <2>5. QED
    BY <1>5, <2>1, <2>2, <2>3, <2>4 DEF Reports
<1>10. QED
  BY <1>6, <1>7, <1>9

(* The callback publishes.                                                 *)
LEMMA CallbackEndStep ==
  ASSUME InputIInv, CallbackEnd
  PROVE  Phases' /\ TimerPhases' /\ Reports'
<1>p. PICK p \in Pins : p = daemonPin
  BY DEF InputIInv, InputTypeOK
<1>1. /\ daemon # "free" /\ daemon' = "free"
      /\ IF daemon = "quiet" THEN sent' = sent ELSE sent' = [sent EXCEPT ![p] = After(sent[p], daemon)]
      /\ UNCHANGED <<state, counter, active, commands, draining, scanPc, pin>>
  BY <1>p DEF CallbackEnd, Publish, scan
<1>2. /\ sent \in [Pins -> Seq(Types)] /\ sent[p] \in Seq(Types)
      /\ daemon \in {"quiet", "Long", "Repeat"}
  BY <1>1 DEF InputIInv, InputTypeOK
<1>3. Calling(p) /\ \A i : ~Calling(i)' /\ (i # p => ~Calling(i))
  BY <1>p, <1>1 DEF Calling
<1>4. \A i : /\ StartsEnd(i)' = StartsEnd(i) /\ StopFollows(i, 0)' = StopFollows(i, 0)
             /\ Over(i)' = Over(i) /\ Releasing(i)' = Releasing(i)
             /\ TimerOff(i) => TimerOff(i)'
  BY <1>1, <1>3 DEF TimerOff, StartsEnd, StopFollows, Over, Releasing
<1>5. ~Over(p) /\ ~At(p, "timer_start")
  BY <1>2, <1>3 DEF InputIInv, TimerPhases, TimerOff
<1>6. Phases'
  BY <1>1 DEF InputIInv, Phases
<1>7. TimerPhases'
  BY <1>1, <1>4 DEF InputIInv, TimerPhases, At
<1>8. \A i \in Pins \ {p} : sent'[i] = sent[i] /\ \A u : Has(i, u)' = Has(i, u)
  BY <1>1, <1>2 DEF Has
<1>9. /\ InOrder(sent'[p]) /\ ~Occurs(sent'[p], "Short")
      /\ counter[p] < LongCounts => ~Occurs(sent'[p], "Long")
      /\ counter[p] = LongCounts => Occurs(sent'[p], "Long")
      /\ Releasing(p) => Occurs(sent'[p], "Long") \/ EndsIn(sent'[p], "Release")
  <2>1. /\ InOrder(sent[p]) /\ ~Occurs(sent[p], "Short")
        /\ counter[p] < LongCounts => ~Occurs(sent[p], "Long")
        /\ counter[p] = LongCounts => IF daemon = "Long" THEN ~Occurs(sent[p], "Long")
                                                         ELSE Occurs(sent[p], "Long")
        /\ Releasing(p) => Occurs(sent[p], "Long") \/ EndsIn(sent[p], "Release")
        /\ daemon \in {"Long", "Repeat"} => counter[p] = LongCounts
    BY <1>2, <1>3, <1>5 DEF InputIInv, Reports, Has, Occurs
  <2>2. CASE sent'[p] = sent[p] /\ daemon # "Long"
    BY <2>1, <2>2
  <2>3. CASE sent'[p] = Append(sent[p], daemon) /\ daemon \in {"Long", "Repeat"}
    <3>1. counter[p] = LongCounts /\ InOrder(sent'[p])
      BY <1>2, <2>1, <2>3, AppendInOrder
    <3>2. \A u : Occurs(sent'[p], u) <=> Occurs(sent[p], u) \/ u = daemon
      BY <1>2, <2>3, AppendEvent DEF Types
    <3>3. QED
      BY <2>1, <2>3, <3>1, <3>2, InputAssumption
  <2>4. QED
    BY <1>1, <1>2, <2>2, <2>3 DEF After
<1>10. ASSUME NEW i \in Pins \ {p}
       PROVE  /\ InOrder(sent'[i])
              /\ Over(i)' => (sent'[i] # <<>> => Has(i, "Short")' \/ Has(i, "Long")') /\ counter'[i] = 0
              /\ ~Over(i)' => /\ ~Has(i, "Short")'
                              /\ counter'[i] < LongCounts => ~Has(i, "Long")'
                              /\ counter'[i] = LongCounts => Has(i, "Long")'
              /\ At(i, "timer_start")' => counter'[i] = 0
              /\ Releasing(i)' => Has(i, "Long")' \/ EndsIn(sent'[i], "Release")
  BY <1>1, <1>3, <1>4, <1>8 DEF InputIInv, Reports, At
<1>11. Reports'
  BY <1>1, <1>3, <1>4, <1>5, <1>9, <1>10 DEF Reports, Has, Occurs, At
<1>12. QED
  BY <1>6, <1>7, <1>11

-----------------------------------------------------------------------------
(* The invariant holds in every reachable state.                           *)
LEMMA InputInitial ==
  ASSUME InputInit
  PROVE  InputIInv
<1> USE InputAssumption
<1>1. InputTypeOK
  <2>1. 1 \in Pins /\ Half \in 0..DebounceTicks
    BY DEF Pins, Half
  <2>2. 0 \in 0..LongCounts /\ Len(<<>>) <= TimerQueue
    OBVIOUS
  <2>3. sent \in [Pins -> Seq(Types)] /\ commands \in Seq({"start", "stop"} \X Pins)
    BY DEF InputInit
  <2>4. QED
    BY <2>1, <2>2, <2>3 DEF InputInit, InputTypeOK, Locations
<1>2. Phases /\ TimerPhases
  BY DEF InputInit, Phases, TimerPhases, ReleasePcs, TimerOff, Calling, StartsEnd, At
<1>3. ASSUME NEW i \in Pins
      PROVE  /\ InOrder(sent[i]) /\ ~Has(i, "Short") /\ ~Has(i, "Long") /\ sent[i] = <<>>
             /\ counter[i] = 0 /\ ~Releasing(i) /\ ~Calling(i)
  BY DEF InputInit, InOrder, Occurs, Has, Releasing, ReleasePcs, Calling
<1>4. Reports
  BY <1>3 DEF Reports
<1>5. QED
  BY <1>1, <1>2, <1>4 DEF InputIInv

LEMMA InputStep ==
  ASSUME InputIInv, [InputNext]_inputVars
  PROVE  InputIInv'
<1>1. InputTypeOK'
  BY InputTypeStep DEF InputIInv
<1>2. ASSUME \/ Settle \/ Same \/ Continue \/ Wake \/ UNCHANGED inputVars
             \/ \E i \in Pins : Move(i)
      PROVE  Phases' /\ TimerPhases' /\ Reports'
  <2>1. UNCHANGED <<state, counter, timers, sent>>
    BY <1>2 DEF Settle, Same, Continue, Wake, Move, inputVars
  <2>2. \/ UNCHANGED scan
        \/ scanPc \in {"scan", "next", "sleep"} /\ scanPc' \in {"scan", "next", "sleep"}
    BY <1>2 DEF Settle, Same, Continue, Wake, Move, inputVars
  <2>3. QED
    BY <2>1, <2>2, QuietStep
<1>3. Phases' /\ TimerPhases' /\ Reports'
  BY <1>2, DifferStep, TimerStartStep, TimerStopStep, ShortStep, CommandStep, ExpireStep,
     CallbackEndStep DEF InputNext, Thread, Daemon
<1>4. QED
  BY <1>1, <1>3 DEF InputIInv

THEOREM InputInvariance == InputSpec => []InputIInv
BY InputInitial, InputStep, PTL DEF InputSpec

(* Every variable of the input service keeps its type: the debounce and    *)
(* press counters stay within their bounds, the daemon's queue within its  *)
(* length.                                                                 *)
THEOREM InputTypeCorrect == InputSpec => []InputTypeOK
<1>1. InputIInv => InputTypeOK
  BY DEF InputIInv
<1>2. QED
  BY <1>1, InputInvariance, PTL

(* A press is reported short or long, never both, its Short right after    *)
(* its Release and its one Long before every Repeat, however the input     *)
(* thread and the timer daemon interleave.                                 *)
THEOREM PressesAreReportedInOrder == InputSpec => []PressSequence
<1>1. InputIInv => PressSequence
  <2> SUFFICES ASSUME InputIInv, NEW i \in Pins
               PROVE  /\ ~(Has(i, "Short") /\ Has(i, "Long"))
                      /\ \A j \in Count(i, "Short") : j > 1 /\ sent[i][j - 1] = "Release"
                      /\ \A j, l \in Count(i, "Long") : j = l
                      /\ \A j \in Count(i, "Repeat") : \E l \in Count(i, "Long") : l < j
    BY DEF PressSequence
  <2>1. InOrder(sent[i])
    BY DEF InputIInv, Reports
  <2>2. QED
    BY <2>1 DEF InOrder, Occurs, Has, Count
<1>2. QED
  BY <1>1, InputInvariance, PTL

(* Once the thread has dealt with a release, nothing is left of the press: *)
(* it was reported, its count is forgotten, and no callback for the button *)
(* runs or will run, although the stop of its timer may still be queued.   *)
THEOREM ReleasedMeansOver == InputSpec => []PressIsOver
<1>1. InputIInv => PressIsOver
  BY DEF InputIInv, TimerPhases, Reports, PressIsOver, Over, ReleasePcs, TimerOff, Calling, StartsEnd
<1>2. QED
  BY <1>1, InputInvariance, PTL
===============================================================================
