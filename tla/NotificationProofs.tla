------------------------- MODULE NotificationProofs -------------------------
(***************************************************************************)
(* Proofs about Notification for any clients, requests, lights and         *)
(* capacities: the thread never works off a sequence whose caller, in      *)
(* whose frame it may be, has returned, and the lights, the motor and the  *)
(* speaker are what the layers and the kept sequences say.                 *)
(***************************************************************************)
EXTENDS Notification, WellFoundedInduction, TLAPS

-----------------------------------------------------------------------------
Sequence == {r.sequence : r \in Requests} \union {DisplayOff}
Entries == [type : {r.type : r \in Requests} \union {"notification"}, sequence : Sequence,
            back_event : Clients \union {NoClient}]

QueueTypes ==
  /\ queue \in Seq(Entries)
  /\ pc \in [Clients -> {"idle", "put", "wait"}]
  /\ request \in [Clients -> Requests]

(* A call that blocks has one message, and its event is set only after     *)
(* that message was taken.                                                 *)
OneMessageEach ==
  /\ \A i, j \in 1..Len(queue) :
       queue[i].back_event # NoClient /\ queue[i].back_event = queue[j].back_event => i = j
  /\ \A i \in 1..Len(queue) :
       queue[i].back_event # NoClient =>
         pc[queue[i].back_event] = "wait" /\ queue[i].back_event \notin complete

(* Nor is it still set from the call before.                               *)
NotToldYet == \A c \in Clients : pc[c] = "put" => c \notin complete

SequenceIInv == QueueTypes /\ OneMessageEach /\ NotToldYet

-----------------------------------------------------------------------------
(* What Append and Tail do to the queue.                                   *)
LEMMA AppendEntry ==
  ASSUME NEW S, NEW q \in Seq(S), NEW e \in S
  PROVE  /\ Append(q, e) \in Seq(S) /\ Len(Append(q, e)) = Len(q) + 1 /\ Len(q) \in Nat
         /\ \A i \in 1..Len(q) : Append(q, e)[i] = q[i] /\ q[i] \in S
         /\ Append(q, e)[Len(q) + 1] = e
OBVIOUS

LEMMA TailEntry ==
  ASSUME NEW S, NEW q \in Seq(S), q # <<>>
  PROVE  /\ Tail(q) \in Seq(S) /\ Len(Tail(q)) = Len(q) - 1 /\ Len(q) \in Nat \ {0}
         /\ Head(q) = q[1] /\ q[1] \in S /\ 1 \in 1..Len(q)
         /\ \A i \in 1..Len(Tail(q)) : Tail(q)[i] = q[i + 1] /\ i + 1 \in 1..Len(q)
OBVIOUS

LEMMA EntryClients ==
  ASSUME queue \in Seq(Entries)
  PROVE  \A i \in 1..Len(queue) : queue[i].back_event \in Clients \union {NoClient}
<1> SUFFICES ASSUME NEW i \in 1..Len(queue)
             PROVE  queue[i].back_event \in Clients \union {NoClient}
  OBVIOUS
<1>1. queue[i] \in Entries
  OBVIOUS
<1>2. QED
  BY <1>1 DEF Entries


(* The thread works off the first message and tells who waits for it.      *)
LEMMA ProcessStep ==
  ASSUME SequenceIInv, Process
  PROVE  SequenceIInv'
<1>1. /\ queue # <<>> /\ queue' = Tail(queue)
      /\ complete' = complete \union ({Head(queue).back_event} \ {NoClient})
      /\ UNCHANGED <<pc, request>>
  BY DEF Process, clientVars
<1>2. /\ queue' \in Seq(Entries) /\ Head(queue) = queue[1] /\ 1 \in 1..Len(queue)
      /\ \A i \in 1..Len(queue') : queue'[i] = queue[i + 1] /\ i + 1 \in 1..Len(queue) /\ i + 1 # 1
  BY <1>1, TailEntry DEF SequenceIInv, QueueTypes
<1>3. QueueTypes'
  BY <1>1, <1>2 DEF SequenceIInv, QueueTypes
<1>4. \A i, j \in 1..Len(queue') :
        queue'[i].back_event # NoClient /\ queue'[i].back_event = queue'[j].back_event => i = j
  <2>1. SUFFICES ASSUME NEW i \in 1..Len(queue'), NEW j \in 1..Len(queue'),
                        queue'[i].back_event # NoClient,
                        queue'[i].back_event = queue'[j].back_event
                 PROVE  i = j
    OBVIOUS
  <2>2. i + 1 = j + 1
    BY <1>2, <2>1 DEF SequenceIInv, OneMessageEach
  <2>3. QED
    BY <2>2
<1>5. \A i \in 1..Len(queue') :
        queue'[i].back_event # NoClient =>
          pc[queue'[i].back_event] = "wait" /\ queue'[i].back_event \notin complete'
  <2>1. SUFFICES ASSUME NEW i \in 1..Len(queue'), queue'[i].back_event # NoClient
                 PROVE  pc[queue'[i].back_event] = "wait" /\ queue'[i].back_event \notin complete'
    OBVIOUS
  <2>2. queue[i + 1].back_event # queue[1].back_event
    BY <1>2, <2>1 DEF SequenceIInv, OneMessageEach
  <2>3. QED
    BY <1>1, <1>2, <2>1, <2>2 DEF SequenceIInv, OneMessageEach
<1>6. NotToldYet'
  <2>1. Head(queue).back_event # NoClient => pc[Head(queue).back_event] = "wait"
    BY <1>2 DEF SequenceIInv, OneMessageEach
  <2>2. QED
    BY <1>1, <2>1 DEF SequenceIInv, NotToldYet
<1>7. QED
  BY <1>1, <1>3, <1>4, <1>5, <1>6 DEF SequenceIInv, OneMessageEach

(* The daemon's message is nobody's.                                       *)
LEMMA DaemonPutStep ==
  ASSUME SequenceIInv, DaemonPut
  PROVE  SequenceIInv'
<1> DEFINE e == [type |-> "notification", sequence |-> DisplayOff, back_event |-> NoClient]
<1>1. queue' = Append(queue, e) /\ UNCHANGED <<pc, request, complete>>
  BY DEF DaemonPut, clientVars
<1>2. e \in Entries /\ e.back_event = NoClient
  BY DEF Entries, Sequence
<1> HIDE DEF e
<1>3. /\ queue' \in Seq(Entries) /\ queue'[Len(queue) + 1] = e
      /\ \A i \in 1..Len(queue) : queue'[i] = queue[i]
      /\ \A i \in 1..Len(queue') : i \in 1..Len(queue) \/ i = Len(queue) + 1
  BY <1>1, <1>2, AppendEntry DEF SequenceIInv, QueueTypes
<1>4. QueueTypes'
  BY <1>1, <1>3 DEF SequenceIInv, QueueTypes
<1>5. OneMessageEach'
  BY <1>1, <1>2, <1>3 DEF SequenceIInv, OneMessageEach
<1>6. QED
  BY <1>1, <1>4, <1>5 DEF SequenceIInv, NotToldYet

(* A client's message is its own if it blocks.                             *)
LEMMA PutMessage ==
  ASSUME SequenceIInv, NEW c \in Clients, Put(c)
  PROVE  SequenceIInv'
<1> DEFINE b == IF request[c].block THEN c ELSE NoClient
           e == [type |-> request[c].type, sequence |-> request[c].sequence, back_event |-> b]
<1>1. /\ pc[c] = "put" /\ queue' = Append(queue, e)
      /\ pc' = [pc EXCEPT ![c] = IF request[c].block THEN "wait" ELSE "idle"]
      /\ UNCHANGED <<request, complete>>
  BY DEF Put, Enqueue
<1>2. request[c].block => b = c /\ pc'[c] = "wait"
  BY <1>1 DEF SequenceIInv, QueueTypes
<1>3. ~request[c].block => b = NoClient
  OBVIOUS
<1> HIDE DEF b
<1>4. b = NoClient \/ (b = c /\ pc'[c] = "wait")
  BY <1>2, <1>3
<1>5. e \in Entries /\ (e.back_event = NoClient \/ (e.back_event = c /\ pc'[c] = "wait"))
  BY <1>4 DEF Entries, Sequence, SequenceIInv, QueueTypes
<1> HIDE DEF e
<1>6. /\ queue' \in Seq(Entries) /\ queue'[Len(queue) + 1] = e
      /\ \A i \in 1..Len(queue) : queue'[i] = queue[i]
      /\ \A i \in 1..Len(queue') : i \in 1..Len(queue) \/ i = Len(queue) + 1
  BY <1>1, <1>5, AppendEntry DEF SequenceIInv, QueueTypes
<1>7. QueueTypes' /\ c \notin complete
  BY <1>1, <1>6 DEF SequenceIInv, QueueTypes, NotToldYet
<1>8. \A i \in 1..Len(queue) :
        queue[i].back_event # NoClient =>
          queue[i].back_event # c /\ pc'[queue[i].back_event] = "wait"
  <2>1. SUFFICES ASSUME NEW i \in 1..Len(queue), queue[i].back_event # NoClient
                 PROVE  queue[i].back_event # c /\ pc'[queue[i].back_event] = "wait"
    OBVIOUS
  <2>2. queue[i].back_event \in Clients /\ pc[queue[i].back_event] = "wait"
    BY <2>1, EntryClients DEF SequenceIInv, QueueTypes, OneMessageEach
  <2>3. queue[i].back_event # c
    BY <1>1, <2>2
  <2>4. QED
    BY <1>1, <2>2, <2>3 DEF SequenceIInv, QueueTypes
<1>9. OneMessageEach'
  BY <1>1, <1>5, <1>6, <1>7, <1>8 DEF SequenceIInv, OneMessageEach
<1>10. NotToldYet'
  BY <1>1 DEF SequenceIInv, QueueTypes, NotToldYet
<1>11. QED
  BY <1>7, <1>9, <1>10 DEF SequenceIInv

(* A client calls or returns.                                              *)
LEMMA ClientStep ==
  ASSUME SequenceIInv, NEW c \in Clients, Call(c) \/ Return(c)
  PROVE  SequenceIInv'
<1>1. /\ \/ pc[c] = "idle" /\ pc' = [pc EXCEPT ![c] = "put"] /\ complete' = complete \ {c}
            /\ request' \in [Clients -> Requests]
         \/ /\ pc[c] = "wait" /\ c \in complete /\ pc' = [pc EXCEPT ![c] = "idle"]
            /\ UNCHANGED <<complete, request>>
      /\ queue' = queue
  BY DEF Call, Return, SequenceIInv, QueueTypes
<1>2. QueueTypes' /\ NotToldYet'
  BY <1>1 DEF SequenceIInv, QueueTypes, NotToldYet
<1>3. \A i \in 1..Len(queue) :
        queue[i].back_event # NoClient =>
          pc'[queue[i].back_event] = "wait" /\ queue[i].back_event \notin complete'
  <2>1. SUFFICES ASSUME NEW i \in 1..Len(queue), queue[i].back_event # NoClient
                 PROVE  pc'[queue[i].back_event] = "wait" /\ queue[i].back_event \notin complete'
    OBVIOUS
  <2>2. /\ queue[i].back_event \in Clients /\ pc[queue[i].back_event] = "wait"
        /\ queue[i].back_event \notin complete
    BY <2>1, EntryClients DEF SequenceIInv, QueueTypes, OneMessageEach
  <2>3. queue[i].back_event # c
    BY <1>1, <2>2
  <2>4. QED
    BY <1>1, <2>2, <2>3 DEF SequenceIInv, QueueTypes
<1>4. QED
  BY <1>1, <1>2, <1>3 DEF SequenceIInv, OneMessageEach

-----------------------------------------------------------------------------
LEMMA SequenceInit == Init => SequenceIInv
BY DEF Init, SequenceIInv, QueueTypes, OneMessageEach, NotToldYet

LEMMA SequenceNext == SequenceIInv /\ [Next]_vars => SequenceIInv'
<1> SUFFICES ASSUME SequenceIInv, [Next]_vars
             PROVE  SequenceIInv'
  OBVIOUS
<1>1. CASE UNCHANGED vars \/ TimerCommand \/ Expire
  BY <1>1 DEF vars, clientVars, TimerCommand, Expire,
              SequenceIInv, QueueTypes, OneMessageEach, NotToldYet
<1>2. CASE Process
  BY <1>2, ProcessStep
<1>3. CASE DaemonPut
  BY <1>3, DaemonPutStep
<1>4. ASSUME NEW c \in Clients, Call(c) \/ Put(c) \/ Return(c)
      PROVE  SequenceIInv'
  BY <1>4, PutMessage, ClientStep
<1>5. QED
  BY <1>1, <1>2, <1>3, <1>4 DEF Next, Daemon

(* A message and the event its caller waits for belong to the same call.   *)
THEOREM SequenceInvariance == Spec => []SequenceIInv
BY SequenceInit, SequenceNext, PTL DEF Spec

(* The sequence of a call that blocks is worked off before the caller      *)
(* returns, in whose frame it may be.                                      *)
THEOREM SequencesAreLive == Spec => []SequenceIsLive
<1>1. SequenceIInv => SequenceIsLive
  BY DEF SequenceIInv, QueueTypes, OneMessageEach, SequenceIsLive
<1>2. QED
  BY <1>1, SequenceInvariance, PTL

-----------------------------------------------------------------------------
(* The lights.                                                             *)
Light == [value : [Layers -> BOOLEAN], index : Layers, lit : BOOLEAN]
Shows(light) == light.lit = light.value[light.index]

Commands == {q \in Seq({"start", "stop"}) : Len(q) <= TimerQueue}

Named == Lights \union {"vibro", "sound"} \* what a sequence may name
Runs ==
  [lights : [Lights -> Light], motor : BOOLEAN, speaker : BOOLEAN, commands : Commands,
   active : BOOLEAN, values : [Leds -> BOOLEAN], reset : BOOLEAN, mask : SUBSET Named]

(* In the middle of a sequence: what is on was named, in this sequence or  *)
(* in an earlier one that keeps it.                                        *)
RunOK(r) ==
  /\ r \in Runs
  /\ \A l \in Lights : Shows(r.lights[l])
  /\ \A l \in Leds : r.lights[l].index = "notification" => l \in kept \union r.mask
  /\ r.motor => "vibro" \in kept \union r.mask
  /\ r.speaker => "sound" \in kept \union r.mask

LightsTypes ==
  /\ lights \in [Lights -> Light] /\ motor \in BOOLEAN /\ speaker \in BOOLEAN
  /\ commands \in Commands /\ kept \subseteq Named

LightsIInv == LightsTypes /\ LightsShown

LEMMA NamesAre ==
  /\ "display" \notin Leds /\ "vibro" \notin Leds /\ "sound" \notin Leds
  /\ "display" \in Lights /\ Leds \subseteq Lights /\ Lights \subseteq Named
  /\ \A l \in Lights : l \in Leds \/ l = "display"
  /\ "vibro" \in Named /\ "sound" \in Named
BY NotificationAssumption DEF Lights, Named

(* osTimerStart and osTimerStop never make the daemon's queue too long.    *)
LEMMA CommandKeeps ==
  ASSUME NEW r \in Runs, NEW c \in {"start", "stop"}
  PROVE  LET t == Command(r, c)
         IN /\ t \in Runs /\ t.lights = r.lights /\ t.mask = r.mask
            /\ t.motor = r.motor /\ t.speaker = r.speaker
<1> DEFINE q == Append(r.commands, c)
           t == [r EXCEPT !.commands = q]
<1>1. r.commands \in Seq({"start", "stop"}) /\ r.commands \in Commands
  BY DEF Runs, Commands
<1>2. q \in Seq({"start", "stop"}) /\ Len(q) = Len(r.commands) + 1 /\ Len(r.commands) \in Nat
  BY <1>1
<1>3. Command(r, c) = IF Len(r.commands) < TimerQueue THEN t ELSE r
  BY DEF Command
<1> HIDE DEF q
<1>4. CASE Len(r.commands) < TimerQueue
  <2>1. q \in Commands
    <3>1. Len(q) <= TimerQueue
      BY <1>2, <1>4, NotificationAssumption
    <3>2. QED
      BY <1>2, <3>1 DEF Commands
  <2>2. /\ t \in Runs /\ t.lights = r.lights /\ t.mask = r.mask
        /\ t.motor = r.motor /\ t.speaker = r.speaker
    BY <2>1 DEF Runs
  <2> HIDE DEF t
  <2>3. QED
    BY <1>3, <1>4, <2>2
<1>5. CASE ~(Len(r.commands) < TimerQueue)
  BY <1>3, <1>5
<1>6. QED
  BY <1>4, <1>5

(* The three functions that change a light, whatever it showed before.     *)
LEMMA AppliedLight ==
  ASSUME NEW light \in Light, NEW on \in BOOLEAN, Shows(light)
  PROVE  /\ ApplyInternal(light, on) \in Light /\ Shows(ApplyInternal(light, on))
         /\ ApplyInternal(light, on).index = light.index
         /\ ApplyNotification(light, on) \in Light /\ Shows(ApplyNotification(light, on))
         /\ ResetNotification(light) \in Light /\ Shows(ResetNotification(light))
         /\ ResetNotification(light).index = "internal"
<1>1. /\ light.value \in [Layers -> BOOLEAN] /\ light.index \in Layers /\ light.lit \in BOOLEAN
      /\ light = [value |-> light.value, index |-> light.index, lit |-> light.lit]
      /\ "internal" \in Layers /\ "notification" \in Layers /\ "internal" # "notification"
  BY DEF Light, Layers
<1> DEFINE x == ApplyInternal(light, on)
           y == ApplyNotification(light, on)
           z == ResetNotification(light)
<1>2. /\ x \in Light /\ x.value = [light.value EXCEPT !["internal"] = on] /\ x.index = light.index
      /\ x.lit = IF light.index = "internal" THEN on ELSE light.lit
  BY <1>1 DEF ApplyInternal, Light
<1>3. /\ y \in Light /\ y.value = [light.value EXCEPT !["notification"] = on]
      /\ y.index = "notification" /\ y.lit = on
  BY <1>1 DEF ApplyNotification, Light
<1>4. /\ z \in Light /\ z.value = [light.value EXCEPT !["notification"] = FALSE]
      /\ z.index = "internal" /\ z.lit = light.value["internal"]
  BY <1>1 DEF ResetNotification, Light
<1> HIDE DEF x, y, z
<1>5. Shows(x) /\ Shows(y) /\ Shows(z)
  BY <1>1, <1>2, <1>3, <1>4 DEF Shows, Layers
<1>6. QED
  BY <1>2, <1>3, <1>4, <1>5 DEF x, y, z

(* The fields of a run that say whether it is in order.                    *)
LEMMA StaysInOrder ==
  ASSUME NEW r, RunOK(r), NEW t \in Runs, r.mask \subseteq t.mask,
         \A l \in Lights : Shows(t.lights[l]),
         \A l \in Leds : t.lights[l].index = r.lights[l].index \/ l \in t.mask,
         t.motor = r.motor \/ "vibro" \in t.mask,
         t.speaker = r.speaker \/ "sound" \in t.mask
  PROVE  RunOK(t)
BY DEF RunOK

LEMMA StartInOrder == ASSUME LightsIInv PROVE RunOK(Start)
<1>1. /\ Start.lights = lights /\ Start.motor = motor /\ Start.speaker = speaker /\ Start.mask = {}
      /\ Start \in Runs
  BY DEF Start, Runs, LightsIInv, LightsTypes
<1>2. \A l \in Leds : l \notin kept => lights[l].index = "internal"
  BY DEF LightsIInv, LightsShown, NothingLeftOn
<1>3. QED
  BY <1>1, <1>2 DEF RunOK, LightsIInv, LightsShown, LightShowsLayer, NothingLeftOn, Shows

(* All LEDs show their stored values.                                      *)
LEMMA ShowLedsInOrder ==
  ASSUME NEW r, RunOK(r), NEW values \in [Leds -> BOOLEAN]
  PROVE  RunOK([ShowLeds(r, values) EXCEPT !.active = FALSE, !.mask = @ \union Leds])
<1> DEFINE x == [l \in Lights |->
                   IF l \in Leds THEN ApplyNotification(r.lights[l], values[l]) ELSE r.lights[l]]
           t == [ShowLeds(r, values) EXCEPT !.active = FALSE, !.mask = @ \union Leds]
<1>1. r \in Runs /\ r.lights \in [Lights -> Light] /\ \A l \in Lights : Shows(r.lights[l])
  BY DEF RunOK, Runs
<1>2. \A l \in Lights : x[l] \in Light /\ Shows(x[l])
  <2>1. SUFFICES ASSUME NEW l \in Lights PROVE x[l] \in Light /\ Shows(x[l])
    OBVIOUS
  <2>2. r.lights[l] \in Light /\ Shows(r.lights[l])
    BY <1>1
  <2>3. CASE l \in Leds
    <3>1. values[l] \in BOOLEAN
      BY <2>3
    <3>2. QED
      BY <2>2, <2>3, <3>1, AppliedLight
  <2>4. CASE l \notin Leds
    BY <2>2, <2>4
  <2>5. QED
    BY <2>3, <2>4
<1>3. x \in [Lights -> Light]
  BY <1>2
<1>4. \A l \in Leds : l \in Lights
  BY NamesAre
<1>5. ShowLeds(r, values) = [r EXCEPT !.lights = x]
  BY DEF ShowLeds
<1> HIDE DEF x
<1>6. /\ t \in Runs /\ t.lights = x /\ t.mask = r.mask \union Leds
      /\ t.motor = r.motor /\ t.speaker = r.speaker
  BY <1>1, <1>3, <1>4, <1>5, NamesAre DEF Runs
<1> HIDE DEF t
<1>7. RunOK(t)
  BY <1>2, <1>6, StaysInOrder
<1>8. QED
  BY <1>7 DEF t

(* One message.                                                            *)
LEMMA DisplayInOrder ==
  ASSUME NEW r, RunOK(r), NEW on \in BOOLEAN
  PROVE  RunOK(Display(r, on))
<1>1. r \in Runs /\ r.lights["display"] \in Light /\ Shows(r.lights["display"])
  BY NamesAre DEF RunOK, Runs
<1> DEFINE d == r.lights["display"]
<1>2. ASSUME NEW x \in Light, Shows(x),
             NEW t, t = [r EXCEPT !.lights["display"] = x, !.mask = r.mask \union {"display"}]
      PROVE  RunOK(t)
  <2>1. /\ t \in Runs /\ t.lights = [r.lights EXCEPT !["display"] = x]
        /\ t.mask = r.mask \union {"display"} /\ t.motor = r.motor /\ t.speaker = r.speaker
    BY <1>1, <1>2, NamesAre DEF Runs
  <2>2. \A l \in Lights : Shows(t.lights[l])
    BY <1>1, <1>2, <2>1 DEF RunOK, Runs
  <2>3. \A l \in Leds : t.lights[l] = r.lights[l]
    BY <1>1, <2>1, NamesAre DEF Runs
  <2>4. QED
    BY <2>1, <2>2, <2>3, StaysInOrder
<1>3. CASE on
  <2>1. Display(r, on) =
          [r EXCEPT !.lights["display"] = ApplyNotification(d, TRUE), !.mask = r.mask \union {"display"}]
    BY <1>3 DEF Display
  <2>2. ApplyNotification(d, TRUE) \in Light /\ Shows(ApplyNotification(d, TRUE))
    BY <1>1, AppliedLight
  <2>3. QED
    BY <1>2, <2>1, <2>2
<1>4. CASE ~on
  <2> DEFINE dark == [r EXCEPT !.lights["display"] = ResetNotification(d), !.mask = r.mask \union {"display"}]
  <2>1. Display(r, on) = IF timer THEN Command(dark, "stop") ELSE dark
    BY <1>4 DEF Display
  <2>2. ResetNotification(d) \in Light /\ Shows(ResetNotification(d))
    BY <1>1, AppliedLight
  <2>3. RunOK(dark)
    BY <1>2, <2>2
  <2> HIDE DEF dark
  <2>4. RunOK(Command(dark, "stop"))
    <3> DEFINE t == Command(dark, "stop")
    <3>1. dark \in Runs /\ \A l \in Lights : Shows(dark.lights[l])
      BY <2>3 DEF RunOK
    <3>2. /\ t \in Runs /\ t.lights = dark.lights /\ t.mask = dark.mask
          /\ t.motor = dark.motor /\ t.speaker = dark.speaker
      BY <3>1, CommandKeeps
    <3> HIDE DEF t
    <3>3. RunOK(t)
      BY <2>3, <3>1, <3>2, StaysInOrder
    <3>4. QED
      BY <3>3 DEF t
  <2>5. QED
    BY <2>1, <2>3, <2>4
<1>5. QED
  BY <1>3, <1>4

LEMMA MessageInOrder ==
  ASSUME NEW r, RunOK(r), NEW m \in Messages
  PROVE  RunOK(Message(r, m))
<1>1. /\ r \in Runs /\ r.lights \in [Lights -> Light] /\ r.values \in [Leds -> BOOLEAN]
      /\ r.mask \subseteq Named /\ \A l \in Lights : Shows(r.lights[l])
  BY DEF RunOK, Runs
<1>2. m.kind \in {"display", "led", "vibro", "sound", "delay", "do_not_reset"}
  BY DEF Messages
<1>3. CASE m.kind = "display"
  <2>1. Message(r, m) = Display(r, m.on) /\ m.on \in BOOLEAN
    BY <1>3 DEF Message, Messages
  <2>2. QED
    BY <2>1, DisplayInOrder
<1>4. CASE m.kind = "led"
  <2> DEFINE t == [r EXCEPT !.active = TRUE, !.values[m.led] = m.on, !.mask = r.mask \union {m.led}]
  <2>1. m.led \in Leds /\ m.on \in BOOLEAN /\ m.led \in Named
    BY <1>4, NamesAre DEF Messages
  <2>2. Message(r, m) = t
    BY <1>4 DEF Message
  <2>3. /\ t \in Runs /\ t.lights = r.lights /\ r.mask \subseteq t.mask
        /\ t.motor = r.motor /\ t.speaker = r.speaker
    BY <1>1, <2>1 DEF Runs
  <2> HIDE DEF t
  <2>4. QED
    BY <1>1, <2>2, <2>3, StaysInOrder
<1>5. CASE m.kind = "vibro"
  <2> DEFINE t == [r EXCEPT !.motor = m.on, !.mask = r.mask \union {"vibro"}]
  <2>1. m.on \in BOOLEAN
    BY <1>5 DEF Messages
  <2>2. Message(r, m) = t
    BY <1>5 DEF Message
  <2>3. /\ t \in Runs /\ t.lights = r.lights /\ r.mask \subseteq t.mask
        /\ "vibro" \in t.mask /\ t.speaker = r.speaker
    BY <1>1, <2>1, NamesAre DEF Runs
  <2> HIDE DEF t
  <2>4. QED
    BY <1>1, <2>2, <2>3, StaysInOrder
<1>6. CASE m.kind = "sound"
  <2> DEFINE t == [r EXCEPT !.speaker = m.on, !.mask = r.mask \union {"sound"}]
  <2>1. m.on \in BOOLEAN
    BY <1>6 DEF Messages
  <2>2. Message(r, m) = t
    BY <1>6 DEF Message
  <2>3. /\ t \in Runs /\ t.lights = r.lights /\ r.mask \subseteq t.mask
        /\ "sound" \in t.mask /\ t.motor = r.motor
    BY <1>1, <2>1, NamesAre DEF Runs
  <2> HIDE DEF t
  <2>4. QED
    BY <1>1, <2>2, <2>3, StaysInOrder
<1>7. CASE m.kind = "delay"
  <2> DEFINE t == [ShowLeds(r, r.values) EXCEPT !.active = FALSE, !.mask = @ \union Leds]
  <2>1. Message(r, m) = IF r.active THEN t ELSE r
    BY <1>7 DEF Message
  <2>2. RunOK(t)
    BY <1>1, ShowLedsInOrder
  <2> HIDE DEF t
  <2>3. QED
    BY <2>1, <2>2
<1>8. CASE m.kind = "do_not_reset"
  <2> DEFINE t == [r EXCEPT !.reset = FALSE]
  <2>1. Message(r, m) = t
    BY <1>8 DEF Message
  <2>2. /\ t \in Runs /\ t.lights = r.lights /\ t.mask = r.mask
        /\ t.motor = r.motor /\ t.speaker = r.speaker
    BY <1>1 DEF Runs
  <2> HIDE DEF t
  <2>3. QED
    BY <1>1, <2>1, <2>2, StaysInOrder
<1>9. QED
  BY <1>2, <1>3, <1>4, <1>5, <1>6, <1>7, <1>8

(* The messages of the internal layer name nothing.                        *)
LEMMA InternalInOrder ==
  ASSUME NEW r, RunOK(r), NEW m \in Messages
  PROVE  RunOK(InternalMessage(r, m))
<1>1. /\ r \in Runs /\ r.lights \in [Lights -> Light] /\ \A l \in Lights : Shows(r.lights[l])
  BY DEF RunOK, Runs
<1>2. ASSUME NEW k \in Lights, NEW on \in BOOLEAN,
             NEW t, t = [r EXCEPT !.lights[k] = ApplyInternal(r.lights[k], on)]
      PROVE  RunOK(t)
  <2> DEFINE x == ApplyInternal(r.lights[k], on)
  <2>1. x \in Light /\ Shows(x) /\ x.index = r.lights[k].index
    BY <1>1, AppliedLight
  <2>2. t = [r EXCEPT !.lights[k] = x]
    BY <1>2
  <2> HIDE DEF x
  <2>3. /\ t \in Runs /\ t.lights = [r.lights EXCEPT ![k] = x] /\ t.mask = r.mask
        /\ t.motor = r.motor /\ t.speaker = r.speaker
    BY <1>1, <2>1, <2>2 DEF Runs
  <2>4. \A l \in Lights : Shows(t.lights[l]) /\ t.lights[l].index = r.lights[l].index
    BY <1>1, <2>1, <2>3
  <2>5. QED
    BY <2>3, <2>4, NamesAre, StaysInOrder
<1>3. CASE m.kind = "display"
  <2>1. InternalMessage(r, m) = [r EXCEPT !.lights["display"] = ApplyInternal(r.lights["display"], m.on)]
        /\ m.on \in BOOLEAN
    BY <1>3 DEF InternalMessage, Messages
  <2>2. QED
    BY <1>2, <2>1, NamesAre
<1>4. CASE m.kind = "led"
  <2>1. InternalMessage(r, m) = [r EXCEPT !.lights[m.led] = ApplyInternal(r.lights[m.led], m.on)]
        /\ m.on \in BOOLEAN /\ m.led \in Leds
    BY <1>4 DEF InternalMessage, Messages
  <2>2. QED
    BY <1>2, <2>1, NamesAre
<1>5. CASE m.kind # "display" /\ m.kind # "led"
  BY <1>5 DEF InternalMessage
<1>6. QED
  BY <1>3, <1>4, <1>5

Ordered(type, r) == RunOK(r) /\ (type = "internal" => r.mask = {})

LEMMA HandleInOrder ==
  ASSUME NEW type, NEW r, Ordered(type, r), NEW m \in Messages
  PROVE  Ordered(type, Handle(type, r, m))
<1>1. RunOK(r) /\ (type = "internal" => r.mask = {})
  BY DEF Ordered
<1>2. RunOK(Handle(type, r, m))
  BY <1>1, MessageInOrder, InternalInOrder DEF Handle
<1>3. InternalMessage(r, m).mask = r.mask
  BY <1>1 DEF InternalMessage, RunOK, Runs
<1>4. QED
  BY <1>1, <1>2, <1>3 DEF Handle, Ordered

-----------------------------------------------------------------------------
(* A sequence of any length.  What holds of some number holds of a first.  *)
LEMMA SmallestOf ==
  ASSUME NEW S \in SUBSET Nat, S # {}
  PROVE  \E m \in S : \A k \in S : m <= k
<1> DEFINE R == {ss \in Nat \X Nat : ss[1] < ss[2]}
<1>1. IsWellFoundedOn(R, Nat)
  BY NatLessThanWellFounded, Zenon DEF OpToRel
<1> HIDE DEF R
<1>2. \E m \in S : \A k \in S : ~(<<k, m>> \in R)
  BY <1>1, WFMin
<1>3. \E m \in S : \A k \in S : ~(k < m)
  BY <1>2 DEF R
<1>4. QED
  BY <1>3

(* The run of the first n messages.                                        *)
IsRun(f, n, type, s) ==
  f = [i \in 0..n |-> IF i = 0 THEN Start ELSE Handle(type, f[i - 1], s[i])]

LEMMA RunExists ==
  ASSUME NEW type, NEW s, NEW n \in Nat
  PROVE  \E f : IsRun(f, n, type, s)
<1> DEFINE S == {k \in Nat : ~\E f : IsRun(f, k, type, s)}
<1>1. SUFFICES ASSUME S # {} PROVE FALSE
  OBVIOUS
<1>2. PICK m \in S : \A k \in S : m <= k
  <2> HIDE DEF S
  <2>1. S \in SUBSET Nat
    BY DEF S
  <2>2. QED
    BY <1>1, <2>1, SmallestOf
<1>3. CASE m = 0
  <2> DEFINE f == [i \in 0..0 |-> Start]
  <2>1. IsRun(f, 0, type, s)
    BY DEF IsRun
  <2>2. QED
    BY <1>2, <1>3, <2>1
<1>4. CASE m # 0
  <2>1. m - 1 \in Nat /\ ~(m <= m - 1)
    BY <1>2, <1>4
  <2>2. PICK f : IsRun(f, m - 1, type, s)
    BY <1>2, <2>1
  <2> DEFINE g == [i \in 0..m |-> IF i = m THEN Handle(type, f[m - 1], s[m]) ELSE f[i]]
  <2>3. \A i \in 0..m : g[i] = IF i = 0 THEN Start ELSE Handle(type, g[i - 1], s[i])
    <3>1. SUFFICES ASSUME NEW i \in 0..m
                   PROVE  g[i] = IF i = 0 THEN Start ELSE Handle(type, g[i - 1], s[i])
      OBVIOUS
    <3>2. CASE i = m
      <4>1. g[i] = Handle(type, f[m - 1], s[m]) /\ g[m - 1] = f[m - 1]
        BY <1>2, <2>1, <3>2
      <4>2. QED
        BY <1>4, <3>2, <4>1
    <3>3. CASE i # m
      <4>1. i \in 0..(m - 1) /\ g[i] = f[i] /\ (i # 0 => g[i - 1] = f[i - 1])
        BY <1>2, <3>3
      <4>2. f[i] = IF i = 0 THEN Start ELSE Handle(type, f[i - 1], s[i])
        BY <2>2, <4>1 DEF IsRun
      <4>3. QED
        BY <4>1, <4>2
    <3>4. QED
      BY <3>2, <3>3
  <2>4. IsRun(g, m, type, s)
    <3>1. g = [i \in 0..m |-> g[i]]
      OBVIOUS
    <3> HIDE DEF g
    <3>2. QED
      BY <2>3, <3>1 DEF IsRun
  <2>5. QED
    BY <1>2, <2>4
<1>5. QED
  BY <1>3, <1>4

LEMMA RunInOrder ==
  ASSUME LightsIInv, NEW type, NEW s \in Seq(Messages), NEW f, IsRun(f, Len(s), type, s)
  PROVE  \A i \in 0..Len(s) : Ordered(type, f[i])
<1> DEFINE S == {k \in Nat : k \in 0..Len(s) /\ ~Ordered(type, f[k])}
<1>1. SUFFICES ASSUME S # {} PROVE FALSE
  OBVIOUS
<1>2. PICK m \in S : \A k \in S : m <= k
  <2> HIDE DEF S
  <2>1. S \in SUBSET Nat
    BY DEF S
  <2>2. QED
    BY <1>1, <2>1, SmallestOf
<1>3. m \in 0..Len(s) /\ ~Ordered(type, f[m]) /\ Len(s) \in Nat
  BY <1>2
<1>4. f[m] = IF m = 0 THEN Start ELSE Handle(type, f[m - 1], s[m])
  BY <1>3 DEF IsRun
<1>5. CASE m = 0
  <2>1. Ordered(type, Start)
    BY StartInOrder DEF Ordered, Start
  <2>2. QED
    BY <1>3, <1>4, <1>5, <2>1
<1>6. CASE m # 0
  <2>1. m - 1 \in Nat /\ m - 1 \in 0..Len(s) /\ ~(m <= m - 1) /\ m \in 1..Len(s)
    BY <1>3, <1>6
  <2>2. Ordered(type, f[m - 1])
    BY <1>2, <2>1
  <2>3. s[m] \in Messages
    BY <2>1
  <2>4. QED
    BY <1>3, <1>4, <1>6, <2>2, <2>3, HandleInOrder
<1>7. QED
  BY <1>5, <1>6

LEMMA WorkedInOrder ==
  ASSUME LightsIInv, NEW type, NEW s \in Seq(Messages)
  PROVE  Ordered(type, Worked(type, s))
<1> DEFINE run == CHOOSE f : IsRun(f, Len(s), type, s)
<1>1. Worked(type, s) = run[Len(s)]
  BY DEF Worked, IsRun
<1>2. Len(s) \in Nat
  OBVIOUS
<1>3. IsRun(run, Len(s), type, s)
  BY <1>2, RunExists
<1> HIDE DEF run
<1>4. Ordered(type, run[Len(s)])
  BY <1>2, <1>3, RunInOrder
<1>5. QED
  BY <1>1, <1>4

-----------------------------------------------------------------------------
(* The end of a sequence.                                                  *)
LEMMA ShowLastInOrder ==
  ASSUME NEW r, RunOK(r)
  PROVE  RunOK(ShowLast(r))
<1> DEFINE values == IF InternalNotEmpty(r) THEN Off ELSE r.values
           t == [ShowLeds(r, values) EXCEPT !.active = FALSE, !.mask = @ \union Leds]
<1>1. values \in [Leds -> BOOLEAN]
  BY DEF RunOK, Runs, Off
<1>2. ShowLast(r) = IF ~r.active THEN r ELSE t
  BY DEF ShowLast
<1> HIDE DEF values
<1>3. RunOK(t)
  BY <1>1, ShowLedsInOrder
<1> HIDE DEF t
<1>4. QED
  BY <1>2, <1>3

(* After the reset nothing is left of what the sequence named, or all of   *)
(* it is kept.                                                             *)
LEMMA ResetInOrder ==
  ASSUME NEW r, RunOK(r), NEW t, t = Reset(r),
         NEW k, k = IF r.reset THEN kept \ r.mask ELSE kept \union r.mask
  PROVE  /\ t \in Runs /\ \A l \in Lights : Shows(t.lights[l])
         /\ \A l \in Leds \ k : t.lights[l].index = "internal"
         /\ t.motor => "vibro" \in k
         /\ t.speaker => "sound" \in k
<1>1. /\ r \in Runs /\ r.lights \in [Lights -> Light] /\ r.mask \subseteq Named
      /\ r.motor \in BOOLEAN /\ r.speaker \in BOOLEAN
      /\ \A l \in Lights : Shows(r.lights[l]) /\ r.lights[l].index \in {"internal", "notification"}
  BY DEF RunOK, Runs, Light, Layers
<1>2. CASE ~r.reset
  <2>1. t = r /\ k = kept \union r.mask
    BY <1>2 DEF Reset
  <2>2. QED
    BY <1>1, <2>1, NamesAre DEF RunOK
<1>3. CASE r.reset
  <2> DEFINE x == [l \in Lights |->
                     IF l \in r.mask \intersect Leds THEN ResetNotification(r.lights[l]) ELSE r.lights[l]]
             quiet == [r EXCEPT !.lights = [l \in Lights |->
                                  IF l \in r.mask \intersect Leds THEN ResetNotification(@[l]) ELSE @[l]],
                                !.motor = @ /\ "vibro" \notin r.mask,
                                !.speaker = @ /\ "sound" \notin r.mask]
  <2>1. t = (IF "display" \in r.mask THEN Command(quiet, "start") ELSE quiet) /\ k = kept \ r.mask
    BY <1>3 DEF Reset
  <2>2. \A l \in Lights : x[l] \in Light /\ Shows(x[l])
    <3>1. SUFFICES ASSUME NEW l \in Lights PROVE x[l] \in Light /\ Shows(x[l])
      OBVIOUS
    <3>2. r.lights[l] \in Light /\ Shows(r.lights[l])
      BY <1>1
    <3>3. ResetNotification(r.lights[l]) \in Light /\ Shows(ResetNotification(r.lights[l]))
      BY <3>2, FALSE \in BOOLEAN, AppliedLight
    <3>4. QED
      BY <3>2, <3>3
  <2>3. \A l \in Leds : l \in r.mask => x[l].index = "internal"
    <3>1. SUFFICES ASSUME NEW l \in Leds, l \in r.mask PROVE x[l].index = "internal"
      OBVIOUS
    <3>2. l \in Lights /\ r.lights[l] \in Light /\ Shows(r.lights[l])
      BY <1>1, NamesAre
    <3>3. QED
      BY <3>1, <3>2, FALSE \in BOOLEAN, AppliedLight
  <2>4. \A l \in Leds : l \notin r.mask => x[l] = r.lights[l]
    BY NamesAre
  <2>5. x \in [Lights -> Light]
    BY <2>2
  <2>6. quiet.lights = x
    BY <1>1 DEF Runs
  <2>7. /\ quiet.motor = (r.motor /\ "vibro" \notin r.mask)
        /\ quiet.speaker = (r.speaker /\ "sound" \notin r.mask)
    BY <1>1 DEF Runs
  <2>8. quiet \in Runs
    <3> DEFINE a == r.motor /\ "vibro" \notin r.mask
               b == r.speaker /\ "sound" \notin r.mask
    <3>1. quiet = [r EXCEPT !.lights = x, !.motor = a, !.speaker = b]
      OBVIOUS
    <3>2. a \in BOOLEAN /\ b \in BOOLEAN
      OBVIOUS
    <3> HIDE DEF x, a, b, quiet
    <3>3. QED
      BY <1>1, <2>5, <3>1, <3>2 DEF Runs
  <2> HIDE DEF quiet, x
  <2>9. /\ t \in Runs /\ t.lights = quiet.lights /\ t.motor = quiet.motor /\ t.speaker = quiet.speaker
    <3> DEFINE started == Command(quiet, "start")
    <3>1. /\ started \in Runs /\ started.lights = quiet.lights
          /\ started.motor = quiet.motor /\ started.speaker = quiet.speaker
      BY <2>8, CommandKeeps
    <3>2. t = started \/ t = quiet
      BY <2>1
    <3> HIDE DEF started
    <3>3. QED
      BY <2>8, <3>1, <3>2
  <2>10. ASSUME NEW l \in Leds \ k
         PROVE  t.lights[l].index = "internal"
    <3>1. CASE l \in r.mask
      BY <2>3, <2>6, <2>9, <3>1
    <3>2. CASE l \notin r.mask
      <4>1. l \notin kept /\ l \in Lights /\ t.lights[l] = r.lights[l]
        BY <2>1, <2>4, <2>6, <2>9, <2>10, <3>2, NamesAre
      <4>2. QED
        BY <1>1, <3>2, <4>1 DEF RunOK
    <3>3. QED
      BY <3>1, <3>2
  <2>11. (t.motor => "vibro" \in k) /\ (t.speaker => "sound" \in k)
    BY <2>1, <2>7, <2>9 DEF RunOK
  <2>12. QED
    BY <2>2, <2>6, <2>9, <2>10, <2>11
<1>4. QED
  BY <1>2, <1>3

(* The thread works off a message of either kind.                          *)
LEMMA ShowInOrder ==
  ASSUME LightsIInv, NEW message, message.sequence \in Seq(Messages), Show(message)
  PROVE  LightsIInv'
<1>1. CASE message.type = "internal"
  <2> DEFINE r == Worked("internal", message.sequence)
  <2>1. Become(r) /\ kept' = kept
    BY <1>1 DEF Show
  <2>2. RunOK(r) /\ r.mask = {}
    BY WorkedInOrder DEF Ordered
  <2> HIDE DEF r
  <2>3. lights' = r.lights /\ motor' = r.motor /\ speaker' = r.speaker /\ commands' = r.commands
    BY <2>1 DEF Become
  <2>4. r \in Runs /\ \A l \in Leds : r.lights[l].index \in {"internal", "notification"}
    BY <2>2, NamesAre DEF RunOK, Runs, Light, Layers
  <2>5. LightsTypes' /\ LightShowsLayer'
    BY <2>1, <2>2, <2>3, <2>4 DEF LightsIInv, RunOK, Runs, LightsTypes, LightShowsLayer, Shows
  <2>6. NothingLeftOn'
    BY <2>1, <2>2, <2>3, <2>4 DEF RunOK, NothingLeftOn
  <2>7. QED
    BY <2>5, <2>6 DEF LightsIInv, LightsShown
<1>2. CASE message.type # "internal"
  <2> DEFINE worked == Worked("notification", message.sequence)
             shown == ShowLast(worked)
             r == Reset(shown)
             k == IF shown.reset THEN kept \ shown.mask ELSE kept \union shown.mask
  <2>1. Become(r) /\ kept' = k
    BY <1>2 DEF Show, Notify
  <2>2. RunOK(shown)
    BY WorkedInOrder, ShowLastInOrder DEF Ordered
  <2> HIDE DEF worked, shown
  <2>0. k \subseteq Named
    BY <2>2 DEF RunOK, Runs, LightsIInv, LightsTypes
  <2>3. /\ r \in Runs /\ \A l \in Lights : Shows(r.lights[l])
        /\ \A l \in Leds \ k : r.lights[l].index = "internal"
        /\ r.motor => "vibro" \in k
        /\ r.speaker => "sound" \in k
    BY <2>2, ResetInOrder
  <2> HIDE DEF r, k
  <2>4. lights' = r.lights /\ motor' = r.motor /\ speaker' = r.speaker /\ commands' = r.commands
    BY <2>1 DEF Become
  <2>5. QED
    BY <2>0, <2>1, <2>3, <2>4
       DEF LightsIInv, LightsTypes, LightsShown, LightShowsLayer, NothingLeftOn, Shows, Runs
<1>3. QED
  BY <1>1, <1>2

(* Only the notification thread touches the lights.                        *)
LEMMA LightsNext ==
  ASSUME SequenceIInv, LightsIInv, [Next]_vars
  PROVE  LightsIInv'
<1>1. CASE Process
  <2>1. queue # <<>> /\ Show(Head(queue)) /\ queue \in Seq(Entries)
    BY <1>1 DEF Process, SequenceIInv, QueueTypes
  <2>2. Head(queue) \in Entries
    BY <2>1, TailEntry
  <2>3. Head(queue).sequence \in Sequence
    BY <2>2 DEF Entries
  <2>4. DisplayOff \in Seq(Messages)
    <3>1. [kind |-> "display", on |-> FALSE] \in Messages
      BY DEF Messages
    <3>2. QED
      BY <3>1 DEF DisplayOff
  <2>5. Head(queue).sequence \in Seq(Messages)
    BY <2>3, <2>4, NotificationAssumption DEF Sequence
  <2>6. QED
    BY <2>1, <2>5, ShowInOrder
<1>2. CASE TimerCommand
  <2>1. UNCHANGED <<lights, motor, speaker, kept>> /\ commands # <<>> /\ commands' = Tail(commands)
    BY <1>2 DEF TimerCommand, hardware
  <2>2. commands' \in Commands
    <3>1. commands \in Seq({"start", "stop"}) /\ Len(commands) <= TimerQueue
      BY DEF LightsIInv, LightsTypes, Commands
    <3>2. /\ Tail(commands) \in Seq({"start", "stop"})
          /\ Len(Tail(commands)) = Len(commands) - 1 /\ Len(commands) \in Nat
      BY <2>1, <3>1, TailEntry, Zenon
    <3>3. Len(Tail(commands)) <= TimerQueue
      BY <3>1, <3>2, NotificationAssumption
    <3>4. QED
      BY <2>1, <3>2, <3>3 DEF Commands
  <2>3. QED
    BY <2>1, <2>2 DEF LightsIInv, LightsTypes, LightsShown, LightShowsLayer, NothingLeftOn
<1>3. ASSUME UNCHANGED <<lights, motor, speaker, commands, kept>>
      PROVE  LightsIInv'
  BY <1>3 DEF LightsIInv, LightsTypes, LightsShown, LightShowsLayer, NothingLeftOn
<1>4. CASE Expire \/ DaemonPut \/ UNCHANGED vars
  BY <1>3, <1>4 DEF Expire, DaemonPut, vars, hardware, daemonVars
<1>5. ASSUME NEW c \in Clients, Call(c) \/ Put(c) \/ Return(c)
      PROVE  LightsIInv'
  BY <1>3, <1>5 DEF Call, Put, Return, hardware, daemonVars
<1>6. QED
  BY <1>1, <1>2, <1>4, <1>5 DEF Next, Daemon

LEMMA LightsInit == Init => LightsIInv
<1>1. SUFFICES ASSUME Init PROVE LightsIInv
  OBVIOUS
<1> DEFINE dark == [value |-> [layer \in Layers |-> FALSE], index |-> "internal", lit |-> FALSE]
<1>2. dark \in Light /\ Shows(dark) /\ dark.index = "internal"
  BY DEF Light, Layers, Shows
<1> HIDE DEF dark
<1>3. lights = [l \in Lights |-> dark] /\ motor = FALSE /\ speaker = FALSE /\ commands = <<>> /\ kept = {}
  BY <1>1 DEF Init, dark
<1>4. LightsTypes
  <2>1. <<>> \in Commands
    BY NotificationAssumption DEF Commands
  <2>2. lights \in [Lights -> Light]
    BY <1>2, <1>3
  <2>3. QED
    BY <1>3, <2>1, <2>2 DEF LightsTypes
<1>5. LightShowsLayer
  BY <1>2, <1>3 DEF LightShowsLayer, Shows
<1>6. NothingLeftOn
  BY <1>2, <1>3, NamesAre DEF NothingLeftOn
<1>7. QED
  BY <1>4, <1>5, <1>6 DEF LightsIInv, LightsShown

(* For any sequences of any length, from any clients in any order: a light *)
(* shows the layer its index names, and nothing an application started     *)
(* outlasts its notification unless a sequence keeps it.                   *)
THEOREM LightsAreShown == Spec => []LightsShown
<1>1. SequenceIInv /\ LightsIInv /\ [Next]_vars => LightsIInv'
  BY LightsNext
<1>2. LightsIInv => LightsShown
  BY DEF LightsIInv
<1>3. QED
  BY <1>1, <1>2, LightsInit, SequenceInvariance, PTL DEF Spec

-----------------------------------------------------------------------------
(* The types, the two queues' capacities among them.                       *)
OtherTypes ==
  /\ Len(queue) <= Capacity
  /\ {timer, daemon} \subseteq BOOLEAN
  /\ complete \subseteq Clients
  /\ sent \in 0..MaxRequests

LEMMA OtherTypesNext ==
  ASSUME SequenceIInv, OtherTypes, [Next]_vars
  PROVE  OtherTypes'
<1>1. queue \in Seq(Entries) /\ Len(queue) \in Nat
  BY DEF SequenceIInv, QueueTypes
<1>2. CASE Process
  <2>1. /\ queue # <<>> /\ queue' = Tail(queue) /\ UNCHANGED <<timer, daemon, sent>>
        /\ complete' = complete \union ({Head(queue).back_event} \ {NoClient})
    BY <1>2 DEF Process, clientVars
  <2>2. Len(Tail(queue)) = Len(queue) - 1 /\ Head(queue) \in Entries
    BY <1>1, <2>1, TailEntry
  <2>3. Head(queue).back_event \in Clients \union {NoClient}
    BY <2>2 DEF Entries
  <2>4. Len(queue') <= Capacity
    BY <1>1, <2>1, <2>2, NotificationAssumption DEF OtherTypes
  <2>5. complete' \subseteq Clients
    BY <2>1, <2>3 DEF OtherTypes
  <2>6. QED
    BY <2>1, <2>4, <2>5 DEF OtherTypes
<1>3. CASE TimerCommand \/ Expire
  <2>1. UNCHANGED <<queue, complete, sent>> /\ timer' \in BOOLEAN /\ daemon' \in BOOLEAN
    BY <1>3 DEF TimerCommand, Expire, clientVars, OtherTypes
  <2>2. QED
    BY <2>1 DEF OtherTypes
<1>4. ASSUME NEW e, queue' = Append(queue, e), Len(queue) < Capacity
      PROVE  Len(queue') <= Capacity
  <2>1. Len(queue') = Len(queue) + 1
    BY <1>1, <1>4
  <2>2. QED
    BY <1>1, <1>4, <2>1, NotificationAssumption
<1>5. CASE DaemonPut
  <2>1. Len(queue') <= Capacity
    BY <1>4, <1>5 DEF DaemonPut
  <2>2. QED
    BY <1>5, <2>1 DEF DaemonPut, clientVars, OtherTypes
<1>6. ASSUME NEW c \in Clients, Call(c)
      PROVE  OtherTypes'
  <2>1. sent' \in 0..MaxRequests
    BY <1>6, NotificationAssumption DEF Call, OtherTypes
  <2>2. QED
    BY <1>6, <2>1 DEF Call, daemonVars, OtherTypes
<1>7. ASSUME NEW c \in Clients, Put(c)
      PROVE  OtherTypes'
  <2>1. Len(queue') <= Capacity
    BY <1>4, <1>7 DEF Put, Enqueue
  <2>2. QED
    BY <1>7, <2>1 DEF Put, daemonVars, OtherTypes
<1>8. ASSUME NEW c \in Clients, Return(c)
      PROVE  OtherTypes'
  BY <1>8 DEF Return, daemonVars, OtherTypes
<1>9. CASE UNCHANGED vars
  BY <1>9 DEF vars, daemonVars, clientVars, OtherTypes
<1>10. QED
  BY <1>2, <1>3, <1>5, <1>6, <1>7, <1>8, <1>9 DEF Next, Daemon

(* Every variable keeps its type, and neither the service's queue nor the  *)
(* timer daemon's, where a sequence leaves its commands without waiting    *)
(* for room, outgrows its capacity.                                        *)
THEOREM NotificationTypeCorrect == Spec => []TypeOK
<1>1. Init => OtherTypes
  <2>1. 0 <= Capacity /\ 0 \in 0..MaxRequests /\ Len(<<>>) = 0
    BY NotificationAssumption
  <2>2. QED
    BY <2>1 DEF Init, OtherTypes
<1>2. SequenceIInv /\ OtherTypes /\ [Next]_vars => OtherTypes'
  BY OtherTypesNext
<1>3. SequenceIInv /\ LightsIInv /\ OtherTypes => TypeOK
  <2> SUFFICES ASSUME SequenceIInv, LightsIInv, OtherTypes PROVE TypeOK
    OBVIOUS
  <2>1. \A j \in DOMAIN queue :
          /\ queue[j].type \in Layers
          /\ queue[j].sequence \in {r.sequence : r \in Requests} \union {DisplayOff}
          /\ queue[j].back_event \in Clients \union {NoClient}
    <3>1. SUFFICES ASSUME NEW j \in DOMAIN queue
                   PROVE  /\ queue[j].type \in Layers
                          /\ queue[j].sequence \in {r.sequence : r \in Requests} \union {DisplayOff}
                          /\ queue[j].back_event \in Clients \union {NoClient}
      OBVIOUS
    <3>2. queue[j] \in Entries
      BY DEF SequenceIInv, QueueTypes
    <3>3. queue[j].type \in {r.type : r \in Requests} \union {"notification"}
      BY <3>2 DEF Entries
    <3>4. {r.type : r \in Requests} \union {"notification"} \subseteq Layers
      BY NotificationAssumption DEF Layers
    <3>5. QED
      BY <3>2, <3>3, <3>4 DEF Entries, Sequence
  <2>2. /\ lights \in [Lights -> [value : [Layers -> BOOLEAN], index : Layers, lit : BOOLEAN]]
        /\ {motor, speaker} \subseteq BOOLEAN
        /\ commands \in Seq({"start", "stop"}) /\ Len(commands) <= TimerQueue
        /\ kept \subseteq Lights \union {"vibro", "sound"}
    BY DEF LightsIInv, LightsTypes, Light, Commands, Named
  <2>3. pc \in [Clients -> {"idle", "put", "wait"}] /\ request \in [Clients -> Requests]
    BY DEF SequenceIInv, QueueTypes
  <2>4. QED
    BY <2>1, <2>2, <2>3 DEF OtherTypes, TypeOK
<1>4. SequenceIInv /\ LightsIInv /\ [Next]_vars => LightsIInv'
  BY LightsNext
<1>5. QED
  BY <1>1, <1>2, <1>3, <1>4, LightsInit, SequenceInvariance, PTL DEF Spec
=============================================================================
