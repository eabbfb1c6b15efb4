---------------------------- MODULE InputService ----------------------------
(***************************************************************************)
(* applications/input/input.c: the thread that scans the buttons, the GPIO *)
(* interrupt that wakes it, and the periodic timer of each button, whose   *)
(* callback runs in FreeRTOS's timer daemon and turns a held button into   *)
(* Long and Repeat events.  Starting and stopping a timer are commands in  *)
(* the daemon's queue.  Time is left out: an active timer may expire       *)
(* whenever the daemon is free.  An event counts as published when         *)
(* notify_pubsub is called; module Gui models what happens to it then.     *)
(***************************************************************************)
EXTENDS Naturals, Sequences

CONSTANTS NPins,      \* input_pins_count
          DebounceTicks, \* INPUT_DEBOUNCE_TICKS: 20 in the code
          LongCounts, \* INPUT_LONG_PRESS_COUNTS: 4 in the code
          TimerQueue  \* configTIMER_QUEUE_LENGTH: 10 in the firmware

ASSUME InputAssumption ==
  /\ {NPins, LongCounts, TimerQueue} \subseteq Nat \ {0}
  /\ DebounceTicks \in Nat /\ DebounceTicks >= 2

Pins == 1..NPins

VARIABLES
  pinLevel, \* what each GPIO pin reads: TRUE is pressed
  isrFlag,  \* INPUT_THREAD_FLAG_ISR pending
  state, debounce, counter, \* fields of each InputPinState
  active,   \* each button's timer is running
  commands, \* the timer daemon's queue
  daemon,   \* the event the timer callback is about to publish, or "free"
  daemonPin, \* the pin that callback is for
  draining, \* the daemon is in the middle of its queue
  scanPc, pin,  \* where the input thread is, and the pin it looks at
  changing, \* is_changing
  sent      \* the events published for each pin since its last Press

scan == <<scanPc, pin, changing>>
timers == <<active, commands, daemon, daemonPin, draining>>
inputVars == <<pinLevel, isrFlag, state, debounce, counter, timers, scan, sent>>

Half == DebounceTicks \div 2
Types == {"Press", "Release", "Short", "Long", "Repeat"}
Locations == {"scan", "timer_start", "timer_stop", "timer_wait", "short", "next", "sleep"}

InputTypeOK ==
  /\ pinLevel \in [Pins -> BOOLEAN] /\ isrFlag \in BOOLEAN
  /\ state \in [Pins -> BOOLEAN]
  /\ debounce \in [Pins -> 0..DebounceTicks]
  /\ counter \in [Pins -> 0..LongCounts]
  /\ active \in [Pins -> BOOLEAN]
  /\ commands \in Seq({"start", "stop"} \X Pins) /\ Len(commands) <= TimerQueue
  /\ daemon \in {"free", "quiet", "Long", "Repeat"} /\ daemonPin \in Pins
  /\ draining \in BOOLEAN
  /\ scanPc \in Locations /\ pin \in Pins /\ changing \in BOOLEAN
  /\ sent \in [Pins -> Seq(Types)]

InputInit ==
  /\ pinLevel \in [Pins -> BOOLEAN]
  /\ isrFlag = FALSE
  /\ state = pinLevel
  /\ debounce = [i \in Pins |-> Half]
  /\ counter = [i \in Pins |-> 0]
  /\ active = [i \in Pins |-> FALSE]
  /\ commands = <<>>
  /\ daemon = "free" /\ daemonPin = 1 /\ draining = FALSE
  /\ scanPc = "scan" /\ pin = 1 /\ changing = FALSE
  /\ sent = [i \in Pins |-> <<>>]

-----------------------------------------------------------------------------
(* The faulty variants, named Bad..., are each an operation or a guard with *)
(* one mistake, which one of the properties has to notice.                 *)

(* What notify_pubsub adds to the record of a press: a Press begins a new  *)
(* record, and one Repeat stands for any number of them.                   *)
After(events, type) ==
  IF type = "Press" THEN <<type>>
  ELSE IF type = "Repeat" /\ events # <<>> /\ events[Len(events)] = "Repeat" THEN events
  ELSE Append(events, type)

Publish(i, type) == sent' = [sent EXCEPT ![i] = After(@, type)]

-----------------------------------------------------------------------------
(* A button moves; the pin's interrupt raises the thread's flag.         *)
Move(i) ==
  /\ pinLevel' = [pinLevel EXCEPT ![i] = ~@]
  /\ isrFlag' = TRUE
  /\ UNCHANGED <<state, debounce, counter, timers, scan, sent>>

(* One turn of the for loop.  A counter strictly between its bounds moves  *)
(* by one; at a bound a level that differs from the state is an event.     *)
Settling(i) == debounce[i] > 0 /\ debounce[i] < DebounceTicks

Settle ==
  /\ scanPc = "scan" /\ Settling(pin)
  /\ debounce' = [debounce EXCEPT ![pin] = IF pinLevel[pin] THEN @ + 1 ELSE @ - 1]
  /\ changing' = TRUE
  /\ scanPc' = "next"
  /\ UNCHANGED <<pinLevel, isrFlag, state, counter, timers, pin, sent>>

Same ==
  /\ scanPc = "scan" /\ ~Settling(pin) /\ state[pin] = pinLevel[pin]
  /\ scanPc' = "next"
  /\ UNCHANGED <<pinLevel, isrFlag, state, debounce, counter, timers, pin, changing, sent>>

Differ ==
  /\ scanPc = "scan" /\ ~Settling(pin) /\ state[pin] # pinLevel[pin]
  /\ state' = [state EXCEPT ![pin] = pinLevel[pin]]
  /\ Publish(pin, IF pinLevel[pin] THEN "Press" ELSE "Release")
  /\ scanPc' = IF pinLevel[pin] THEN "timer_start" ELSE "timer_stop"
  /\ UNCHANGED <<pinLevel, isrFlag, debounce, counter, timers, pin, changing>>

(* Waits, for ever if need be, for room in the daemon's queue.             *)
SendCommand(command) ==
  /\ Len(commands) < TimerQueue
  /\ commands' = Append(commands, <<command, pin>>)

(* input_timer_start.                                                      *)
TimerStart ==
  /\ scanPc = "timer_start"
  /\ SendCommand("start")
  /\ scanPc' = "next"
  /\ UNCHANGED <<pinLevel, isrFlag, state, debounce, counter, active, daemon, daemonPin,
                 draining, pin, changing, sent>>

(* input_timer_stop: queue the command and poll until the timer is not     *)
(* active.                                                                 *)
BadTimerStop ==
  /\ scanPc = "timer_stop"
  /\ SendCommand("stop")
  /\ scanPc' = "short" \* without polling
  /\ UNCHANGED <<pinLevel, isrFlag, state, debounce, counter, active, daemon, daemonPin,
                 draining, pin, changing, sent>>

TimerStop ==
  /\ scanPc = "timer_stop"
  /\ SendCommand("stop")
  /\ scanPc' = "timer_wait"
  /\ UNCHANGED <<pinLevel, isrFlag, state, debounce, counter, active, daemon, daemonPin,
                 draining, pin, changing, sent>>

TimerWait ==
  /\ scanPc = "timer_wait" /\ ~active[pin]
  /\ scanPc' = "short"
  /\ UNCHANGED <<pinLevel, isrFlag, state, debounce, counter, timers, pin, changing, sent>>

Short ==
  /\ scanPc = "short"
  /\ IF counter[pin] < LongCounts THEN Publish(pin, "Short") ELSE UNCHANGED sent
  /\ counter' = [counter EXCEPT ![pin] = 0]
  /\ scanPc' = "next"
  /\ UNCHANGED <<pinLevel, isrFlag, state, debounce, timers, pin, changing>>

BadContinue ==
  /\ scanPc = "next"
  /\ IF pin < NPins THEN pin' = pin + 1 /\ scanPc' = "scan" /\ UNCHANGED <<changing, isrFlag>>
                    ELSE pin' = 1 /\ scanPc' = (IF changing THEN "scan" ELSE "sleep")
                         /\ changing' = FALSE
                         /\ isrFlag' = FALSE \* old wakeups are cleared before the wait
  /\ UNCHANGED <<pinLevel, state, debounce, counter, timers, sent>>

(* The end of a turn: the next pin, or after the last one osDelay(1) when  *)
(* something is settling and the flag wait when nothing is.                *)
Continue ==
  /\ scanPc = "next"
  /\ IF pin < NPins THEN pin' = pin + 1 /\ scanPc' = "scan" /\ UNCHANGED changing
                    ELSE pin' = 1 /\ scanPc' = (IF changing THEN "scan" ELSE "sleep")
                         /\ changing' = FALSE
  /\ UNCHANGED <<pinLevel, isrFlag, state, debounce, counter, timers, sent>>

Wake ==
  /\ scanPc = "sleep" /\ isrFlag
  /\ isrFlag' = FALSE
  /\ scanPc' = "scan"
  /\ UNCHANGED <<pinLevel, state, debounce, counter, timers, pin, changing, sent>>

-----------------------------------------------------------------------------
(* The timer daemon carries out a command, in the order of its queue; it   *)
(* empties the queue before it looks at the timers again.                  *)
Command ==
  /\ daemon = "free" /\ commands # <<>>
  /\ active' = [active EXCEPT ![commands[1][2]] = commands[1][1] = "start"]
  /\ commands' = Tail(commands)
  /\ draining' = (Len(commands) > 1)
  /\ UNCHANGED <<pinLevel, isrFlag, state, debounce, counter, daemon, daemonPin, scan, sent>>

(* A timer expires: input_press_timer_callback up to notify_pubsub.        *)
Expire(i) ==
  /\ daemon = "free" /\ ~draining /\ active[i]
  /\ daemonPin' = i
  /\ IF counter[i] < LongCounts
     THEN /\ counter' = [counter EXCEPT ![i] = @ + 1]
          /\ daemon' = IF counter[i] + 1 = LongCounts THEN "Long" ELSE "quiet"
     ELSE UNCHANGED counter /\ daemon' = "Repeat"
  /\ UNCHANGED <<pinLevel, isrFlag, state, debounce, active, commands, draining, scan, sent>>

(* The callback publishes what it has to publish and returns.              *)
CallbackEnd ==
  /\ daemon # "free"
  /\ IF daemon = "quiet" THEN UNCHANGED sent ELSE Publish(daemonPin, daemon)
  /\ daemon' = "free"
  /\ daemonPin' = 1
  /\ UNCHANGED <<pinLevel, isrFlag, state, debounce, counter, active, commands, draining, scan>>

-----------------------------------------------------------------------------
Thread ==
  \/ Settle \/ Same \/ Differ \/ TimerStart \/ TimerStop \/ TimerWait \/ Short
  \/ Continue \/ Wake

Daemon == Command \/ CallbackEnd

InputNext ==
  \/ Thread
  \/ Daemon
  \/ \E i \in Pins : Move(i) \/ Expire(i)

(* The input thread and the timer daemon are scheduled.  Nothing is said   *)
(* of the user, nor of when a timer expires; a command that waits in the   *)
(* daemon's queue is carried out even if timers keep expiring.             *)
InputFairness == WF_inputVars(Thread) /\ SF_inputVars(Command) /\ WF_inputVars(CallbackEnd)

InputSpec == InputInit /\ [][InputNext]_inputVars /\ InputFairness

-----------------------------------------------------------------------------
Has(i, type) == \E j \in DOMAIN sent[i] : sent[i][j] = type
Count(i, type) == {j \in DOMAIN sent[i] : sent[i][j] = type}

(* "Short event, emitted after InputTypeRelease done withing               *)
(* INPUT_LONG_PRESS interval" and "Repeat event, emmited ... after         *)
(* InputTypeLong event": a press is either short or long; its Short comes  *)
(* once, after the Release; its one Long comes before the Repeats.  The    *)
(* thread and the timer's callback, which both publish for a button, never *)
(* mix these up.                                                           *)
PressSequence ==
  \A i \in Pins :
    /\ ~(Has(i, "Short") /\ Has(i, "Long"))
    /\ \A j \in Count(i, "Short") : j > 1 /\ sent[i][j - 1] = "Release"
    /\ \A j, l \in Count(i, "Long") : j = l
    /\ \A j \in Count(i, "Repeat") : \E l \in Count(i, "Long") : l < j

(* Once the thread has dealt with a release, the press is over: it was     *)
(* reported as Short or Long, and nothing is published for the button      *)
(* until it is pressed again.  Its timer is off, or was never started yet  *)
(* when input_timer_stop polled it; then the daemon finds the stop in its  *)
(* queue before it looks at the timer.                                     *)
StopFollows(i, j) ==
  \E k \in DOMAIN commands : k > j /\ commands[k] = <<"stop", i>>

PressIsOver ==
  \A i \in Pins :
    ~state[i] /\ ~(pin = i /\ scanPc \in {"timer_stop", "timer_wait", "short"}) =>
      /\ sent[i] # <<>> => Has(i, "Short") \/ Has(i, "Long")
      /\ counter[i] = 0
      /\ ~(daemon # "free" /\ daemonPin = i)
      /\ active[i] => draining /\ StopFollows(i, 0)
      /\ \A j \in DOMAIN commands : commands[j] = <<"start", i>> => StopFollows(i, j)

(* No movement of a button is missed: a button that stays down or up is    *)
(* seen so, whenever the last movement came.                               *)
SeesButtons ==
  \A i \in Pins : \A b \in BOOLEAN : <>[](pinLevel[i] = b) => <>[](state[i] = b)
==============================================================================
