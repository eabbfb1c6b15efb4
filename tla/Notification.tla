---------------------------- MODULE Notification ----------------------------
(***************************************************************************)
(* applications/notification: a thread that takes sequences of messages    *)
(* from a queue and drives the LEDs, the display's backlight, the motor    *)
(* and the speaker with them.  A light has two layers: what an application *)
(* shows for a moment (notification) lies over what lasts (internal).  A   *)
(* one-shot timer turns the display off; its callback runs in FreeRTOS's   *)
(* timer daemon and puts a message in the same queue.  Only the thread     *)
(* touches the lights, so a sequence is one step, whatever it delays.  A   *)
(* brightness is on or off: both factors of the settings are 1.0.          *)
(***************************************************************************)
EXTENDS Naturals, Sequences

CONSTANTS Clients, NoClient, \* threads that send notifications
          Leds,       \* the LEDs of app->led
          Requests,   \* what a client may send: [type, sequence, block]
          Capacity,   \* of app->queue: 8 in the code
          TimerQueue, \* configTIMER_QUEUE_LENGTH: 10 in the firmware
          MaxRequests \* bound on the requests of the clients

Lights == Leds \union {"display"}
Layers == {"internal", "notification"}

(* What a NotificationMessage of a sequence may be.                        *)
Messages ==
  [kind : {"display", "vibro", "sound"}, on : BOOLEAN]
    \union [kind : {"led"}, led : Leds, on : BOOLEAN]
    \union [kind : {"delay", "do_not_reset"}]

ASSUME NotificationAssumption ==
  /\ Capacity \in Nat \ {0} /\ TimerQueue \in Nat \ {0} /\ MaxRequests \in Nat
  /\ NoClient \notin Clients
  /\ {"display", "vibro", "sound"} \intersect Leds = {}
  /\ Requests \subseteq [type : Layers, sequence : Seq(Messages), block : BOOLEAN]

VARIABLES
  lights,   \* per light the values of its layers, its index and what is lit
  motor, speaker, \* BOOLEAN
  queue,    \* app->queue
  timer,    \* the display timer runs
  commands, \* start and stop commands in the timer daemon's queue
  daemon,   \* the daemon is in notification_display_timer, waiting to put
  pc,       \* where each client is
  request,  \* what it sends
  complete, \* the clients whose back_event is set
  sent,     \* requests until now
  kept      \* what was last named in a sequence with DoNotReset

hardware == <<lights, motor, speaker>>
daemonVars == <<timer, commands, daemon>>
clientVars == <<pc, request, sent>>
vars == <<hardware, queue, daemonVars, clientVars, complete, kept>>

DisplayOff == <<[kind |-> "display", on |-> FALSE]>>

TypeOK ==
  /\ lights \in [Lights -> [value : [Layers -> BOOLEAN], index : Layers, lit : BOOLEAN]]
  /\ {motor, speaker, timer, daemon} \subseteq BOOLEAN
  /\ Len(queue) <= Capacity
  /\ \A j \in DOMAIN queue :
       /\ queue[j].type \in Layers
       /\ queue[j].sequence \in {r.sequence : r \in Requests} \union {DisplayOff}
       /\ queue[j].back_event \in Clients \union {NoClient}
  /\ commands \in Seq({"start", "stop"}) /\ Len(commands) <= TimerQueue
  /\ pc \in [Clients -> {"idle", "put", "wait"}] /\ request \in [Clients -> Requests]
  /\ complete \subseteq Clients
  /\ sent \in 0..MaxRequests
  /\ kept \subseteq Lights \union {"vibro", "sound"}

Init ==
  /\ lights = [l \in Lights |->
       [value |-> [layer \in Layers |-> FALSE], index |-> "internal", lit |-> FALSE]]
  /\ motor = FALSE /\ speaker = FALSE
  /\ queue = <<>>
  /\ timer = FALSE /\ commands = <<>> /\ daemon = FALSE
  /\ pc = [c \in Clients |-> "idle"] /\ request \in [Clients -> Requests]
  /\ complete = {} /\ sent = 0 /\ kept = {}

-----------------------------------------------------------------------------
(* The faulty variants, named Bad..., are each an operation or a guard with *)
(* one mistake, which one of the properties has to notice.                 *)

(* The three functions that change a light.                                *)
ApplyInternal(light, on) ==
  [light EXCEPT !.value["internal"] = on,
                !.lit = IF light.index = "internal" THEN on ELSE @]

ApplyNotification(light, on) ==
  [light EXCEPT !.index = "notification", !.value["notification"] = on, !.lit = on]

ResetNotification(light) ==
  [light EXCEPT !.index = "internal", !.value["notification"] = FALSE,
                !.lit = light.value["internal"]]

(* A sequence is worked off in a record: the hardware and the timer        *)
(* commands so far, the LED values stored, and what is to be reset.        *)
Start ==
  [lights |-> lights, motor |-> motor, speaker |-> speaker, commands |-> commands,
   active |-> FALSE, values |-> [l \in Leds |-> FALSE], reset |-> TRUE, mask |-> {}]

(* osTimerStart and osTimerStop do not wait for room in the daemon's queue. *)
Command(r, c) ==
  IF Len(r.commands) < TimerQueue THEN [r EXCEPT !.commands = Append(@, c)] ELSE r

ShowLeds(r, values) ==
  [r EXCEPT !.lights = [l \in Lights |->
     IF l \in Leds THEN ApplyNotification(@[l], values[l]) ELSE @[l]]]

Off == [l \in Leds |-> FALSE]

InternalNotEmpty(r) ==
  /\ \E l \in Leds : r.lights[l].index = "internal"
  /\ \E l \in Leds : r.lights[l].value["internal"]

(* One message of a sequence; the delay is where stored LEDs are shown.    *)
Display(r, on) ==
  IF on
  THEN [r EXCEPT !.lights["display"] = ApplyNotification(@, TRUE), !.mask = @ \union {"display"}]
  ELSE LET dark == [r EXCEPT !.lights["display"] = ResetNotification(@),
                             !.mask = @ \union {"display"}]
       IN IF timer THEN Command(dark, "stop") ELSE dark

Message(r, m) ==
  CASE m.kind = "display" -> Display(r, m.on)
    [] m.kind = "led" -> [r EXCEPT !.active = TRUE, !.values[m.led] = m.on, !.mask = @ \union {m.led}]
    [] m.kind = "vibro" -> [r EXCEPT !.motor = m.on, !.mask = @ \union {"vibro"}]
    [] m.kind = "sound" -> [r EXCEPT !.speaker = m.on, !.mask = @ \union {"sound"}]
    [] m.kind = "delay" ->
         IF r.active
         THEN [ShowLeds(r, r.values) EXCEPT !.active = FALSE, !.mask = @ \union Leds]
         ELSE r
    [] m.kind = "do_not_reset" -> [r EXCEPT !.reset = FALSE]

(* After the last message: LEDs not shown yet are shown, and turned off    *)
(* again when they hid a lasting light.                                    *)
ShowLast(r) ==
  IF ~r.active THEN r
  ELSE [ShowLeds(r, IF InternalNotEmpty(r) THEN Off ELSE r.values)
          EXCEPT !.active = FALSE, !.mask = @ \union Leds]

BadReset(r) ==
  IF ~r.reset THEN r
  ELSE LET quiet == [r EXCEPT !.lights = [l \in Lights |->
                          IF l \in r.mask THEN ResetNotification(@[l]) ELSE @[l]]]
       IN IF "display" \in r.mask THEN Command(quiet, "start") ELSE quiet \* motor and speaker go on

Reset(r) ==
  IF ~r.reset THEN r
  ELSE LET quiet == [r EXCEPT !.lights = [l \in Lights |->
                                IF l \in r.mask \intersect Leds THEN ResetNotification(@[l]) ELSE @[l]],
                              !.motor = @ /\ "vibro" \notin r.mask,
                              !.speaker = @ /\ "sound" \notin r.mask]
       IN IF "display" \in r.mask THEN Command(quiet, "start") ELSE quiet

(* notification_process_internal_message only knows of lights.             *)
InternalMessage(r, m) ==
  CASE m.kind = "display" -> [r EXCEPT !.lights["display"] = ApplyInternal(@, m.on)]
    [] m.kind = "led" -> [r EXCEPT !.lights[m.led] = ApplyInternal(@, m.on)]
    [] OTHER -> r

(* The messages of a sequence one after the other, the null at its end     *)
(* left out.                                                               *)
Handle(type, r, m) == IF type = "internal" THEN InternalMessage(r, m) ELSE Message(r, m)

Worked(type, sequence) ==
  LET run[n \in 0..Len(sequence)] ==
        IF n = 0 THEN Start ELSE Handle(type, run[n - 1], sequence[n])
  IN run[Len(sequence)]

Become(r) ==
  /\ lights' = r.lights /\ motor' = r.motor /\ speaker' = r.speaker
  /\ commands' = r.commands

Notify(sequence) ==
  \E worked \in {Worked("notification", sequence)} :
    \E shown \in {ShowLast(worked)} :
      /\ \E r \in {Reset(shown)} : Become(r)
      /\ kept' = IF shown.reset THEN kept \ shown.mask ELSE kept \union shown.mask

Show(message) ==
  IF message.type = "internal"
  THEN /\ \E r \in {Worked("internal", message.sequence)} : Become(r)
       /\ UNCHANGED kept
  ELSE Notify(message.sequence)

-----------------------------------------------------------------------------
(* notification_app: one turn of the loop.                                 *)
BadProcess ==
  /\ queue # <<>>
  /\ Show(Head(queue))
  /\ queue' = Tail(queue)
  /\ UNCHANGED complete \* the waiting client is not told
  /\ UNCHANGED <<timer, daemon, clientVars>>

Process ==
  /\ queue # <<>>
  /\ Show(Head(queue))
  /\ queue' = Tail(queue)
  /\ complete' = complete \union ({Head(queue).back_event} \ {NoClient})
  /\ UNCHANGED <<timer, daemon, clientVars>>

(* The timer daemon: a command, an expiry, and the callback's message,     *)
(* for which it waits until there is room.                                 *)
TimerCommand ==
  /\ ~daemon /\ commands # <<>>
  /\ timer' = (Head(commands) = "start")
  /\ commands' = Tail(commands)
  /\ UNCHANGED <<hardware, queue, daemon, clientVars, complete, kept>>

BadExpire ==
  /\ ~daemon /\ timer
  /\ timer' = FALSE \* and the callback gives up when the queue is full
  /\ daemon' = (Len(queue) < Capacity)
  /\ UNCHANGED <<hardware, queue, commands, clientVars, complete, kept>>

Expire ==
  /\ ~daemon /\ timer
  /\ timer' = FALSE
  /\ daemon' = TRUE
  /\ UNCHANGED <<hardware, queue, commands, clientVars, complete, kept>>

DaemonPut ==
  /\ daemon
  /\ Len(queue) < Capacity
  /\ queue' = Append(queue, [type |-> "notification", sequence |-> DisplayOff, back_event |-> NoClient])
  /\ daemon' = FALSE
  /\ UNCHANGED <<hardware, timer, commands, clientVars, complete, kept>>

(* notification_message, notification_internal_message and the variants    *)
(* that wait for the end of the notification.                              *)
Call(c) ==
  /\ pc[c] = "idle" /\ sent < MaxRequests
  /\ \E r \in Requests : request' = [request EXCEPT ![c] = r]
  /\ pc' = [pc EXCEPT ![c] = "put"]
  /\ complete' = complete \ {c}
  /\ sent' = sent + 1
  /\ UNCHANGED <<hardware, queue, daemonVars, kept>>

Enqueue(c) ==
  /\ Len(queue) < Capacity
  /\ queue' = Append(queue,
       [type |-> request[c].type, sequence |-> request[c].sequence,
        back_event |-> IF request[c].block THEN c ELSE NoClient])

BadPut(c) ==
  /\ pc[c] = "put" /\ Enqueue(c)
  /\ pc' = [pc EXCEPT ![c] = "idle"] \* returns without waiting
  /\ UNCHANGED <<hardware, daemonVars, request, sent, complete, kept>>

Put(c) ==
  /\ pc[c] = "put" /\ Enqueue(c)
  /\ pc' = [pc EXCEPT ![c] = IF request[c].block THEN "wait" ELSE "idle"]
  /\ UNCHANGED <<hardware, daemonVars, request, sent, complete, kept>>

Return(c) ==
  /\ pc[c] = "wait" /\ c \in complete
  /\ pc' = [pc EXCEPT ![c] = "idle"]
  /\ UNCHANGED <<hardware, queue, daemonVars, request, sent, complete, kept>>

-----------------------------------------------------------------------------
Daemon == TimerCommand \/ Expire \/ DaemonPut

Next ==
  \/ Process
  \/ Daemon
  \/ \E c \in Clients : Call(c) \/ Put(c) \/ Return(c)

(* The threads are scheduled and a timer that runs expires; who waits for  *)
(* room in the queue gets it in turn.                                      *)
Fairness ==
  /\ WF_vars(Process)
  /\ WF_vars(TimerCommand) /\ WF_vars(Expire) /\ SF_vars(DaemonPut)
  /\ \A c \in Clients : SF_vars(Put(c)) /\ WF_vars(Return(c))

Spec == Init /\ [][Next]_vars /\ Fairness

-----------------------------------------------------------------------------
(* A light shows the layer its index names: what the internal layer says   *)
(* shows through whenever no notification is over it, whatever order the   *)
(* messages of several clients came in.                                    *)
LightShowsLayer == \A l \in Lights : lights[l].lit = lights[l].value[lights[l].index]

(* Nothing an application started outlasts its notification unless the     *)
(* last sequence that named it says do_not_reset.  (The display is reset   *)
(* by its timer.)                                                          *)
NothingLeftOn ==
  /\ \A l \in Leds \ kept : lights[l].index = "internal"
  /\ motor => "vibro" \in kept
  /\ speaker => "sound" \in kept

(* What the user sees and hears is what the layers say, and nothing else.  *)
LightsShown == LightShowsLayer /\ NothingLeftOn

(* The sequence of a call that blocks may be in the caller's frame, as in  *)
(* cli_command_led: the message is dealt with before the caller returns.   *)
SequenceIsLive ==
  \A j \in DOMAIN queue :
    queue[j].back_event # NoClient => pc[queue[j].back_event] = "wait"

(* A call that blocks returns.                                             *)
BlockReturns == \A c \in Clients : pc[c] = "wait" ~> pc[c] = "idle"

(* A display lit by a notification goes off again, unless a sequence with  *)
(* do_not_reset keeps it, as long as the timer daemon's queue has room for *)
(* every command: a start that is dropped leaves it lit.                   *)
DisplayLit == lights["display"].index = "notification" /\ "display" \notin kept

DisplayGoesOff == DisplayLit ~> ~DisplayLit
==============================================================================
