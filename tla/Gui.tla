-------------------------------- MODULE Gui --------------------------------
(***************************************************************************)
(* The path of an input event from the threads that publish it to the      *)
(* application that handles it, and the way back of a redraw:              *)
(*   core/furi/pubsub.c            notify_pubsub, under the PubSub's mutex *)
(*   applications/gui/gui.c        the GUI thread, its queue and its flags *)
(*   applications/gui/view_port.c  what can be drawn and gets input        *)
(*   applications/gui/view_dispatcher.c  an application with a queue       *)
(* Events are numbered in the order they are published.  An application    *)
(* holds the GUI mutex only for the moment in which it changes a layer,    *)
(* which is one step here; the GUI thread holds it during the callbacks.   *)
(***************************************************************************)
EXTENDS Naturals, Sequences, SequencesExt

CONSTANTS Publishers, \* threads that call notify_pubsub: input, timer daemon, CLI
          Apps,       \* applications that run a ViewDispatcher with a queue
          NoApp,
          Layer,      \* the layer each application's view port is in
          GuiQueue,   \* capacity of gui->input_queue: 8 in the code
          AppQueue,   \* capacity of view_dispatcher->queue: 8 in the code
          MaxEvents   \* bound on the events published

(* The layers that get input, in the order in which they are looked at.    *)
Layers == <<"Fullscreen", "Main", "None">>

ASSUME GuiAssumption ==
  /\ {GuiQueue, AppQueue} \subseteq Nat \ {0}
  /\ MaxEvents \in Nat
  /\ Layer \in [Apps -> ToSet(Layers)]
  /\ NoApp \notin Apps

VARIABLES
  published, \* how many events there have been
  publisher, \* where each publisher is in notify_pubsub
  hand,      \* the event each publisher is publishing
  input_queue, flags, \* the GUI thread's queue and its thread flags
  gui,       \* where the GUI thread is
  taken,     \* the flags osThreadFlagsWait returned and not yet served
  event,     \* the event the GUI thread took from its queue
  port,      \* the application whose callback the GUI thread calls
  layers,    \* gui->layers, the last view port of a layer is on top
  enabled,   \* view_port->is_enabled: the dispatcher has a current view
  app,       \* where each application's thread is
  queue,     \* view_dispatcher->queue; 0 is the Stop message
  stale,     \* applications whose model has changed since they were drawn
  screen,    \* the application drawn last
  handled,   \* the last event each application handled
  failed     \* a furi_assert failed and the firmware stopped

pubVars == <<published, publisher, hand>>
guiVars == <<gui, taken, event, port, screen>>
appVars == <<layers, enabled, app, handled>>
vars == <<pubVars, input_queue, flags, guiVars, appVars, queue, stale, failed>>

Stop == 0

TypeOK ==
  /\ published \in 0..MaxEvents
  /\ publisher \in [Publishers -> {"idle", "put", "flag"}]
  /\ hand \in [Publishers -> 0..MaxEvents]
  /\ input_queue \in Seq(1..MaxEvents) /\ Len(input_queue) <= GuiQueue
  /\ flags \subseteq {"input", "draw"} /\ taken \subseteq {"input", "draw"}
  /\ gui \in {"wait", "drain", "dispatch", "callback", "draw", "redraw", "drawing"}
  /\ event \in 0..MaxEvents
  /\ {port, screen} \subseteq Apps \union {NoApp}
  /\ layers \in [ToSet(Layers) -> Seq(Apps)]
  /\ enabled \in [Apps -> BOOLEAN]
  /\ app \in [Apps -> {"out", "attached", "update", "run", "hide", "stop", "free"}]
  /\ queue \in [Apps -> Seq(0..MaxEvents)] /\ \A a \in Apps : Len(queue[a]) <= AppQueue
  /\ stale \subseteq Apps
  /\ handled \in [Apps -> 0..MaxEvents]
  /\ failed \in BOOLEAN

Init ==
  /\ published = 0
  /\ publisher = [p \in Publishers |-> "idle"] /\ hand = [p \in Publishers |-> 0]
  /\ input_queue = <<>> /\ flags = {} /\ taken = {}
  /\ gui = "wait" /\ event = 0 /\ port = NoApp /\ screen = NoApp
  /\ layers = [l \in ToSet(Layers) |-> <<>>]
  /\ enabled = [a \in Apps |-> FALSE]
  /\ app = [a \in Apps |-> "out"] /\ queue = [a \in Apps |-> <<>>]
  /\ stale = {}
  /\ handled = [a \in Apps |-> 0]
  /\ failed = FALSE

-----------------------------------------------------------------------------
(* The faulty variants, named Bad..., are each an operation or a guard with *)
(* one mistake, which one of the properties has to notice.                 *)

(* notify_pubsub and its subscriber gui_input_events_callback: take the    *)
(* PubSub's mutex, put, set the flag, release the mutex.                   *)
BadPubSubFree == TRUE \* the subscribers are called without the mutex

PubSubFree == \A p \in Publishers : publisher[p] = "idle"

Publish(p) ==
  /\ ~failed /\ publisher[p] = "idle" /\ PubSubFree
  /\ published < MaxEvents
  /\ published' = published + 1
  /\ hand' = [hand EXCEPT ![p] = published + 1]
  /\ publisher' = [publisher EXCEPT ![p] = "put"]
  /\ UNCHANGED <<input_queue, flags, guiVars, appVars, queue, stale, failed>>

Put(p) ==
  /\ ~failed /\ publisher[p] = "put"
  /\ Len(input_queue) < GuiQueue
  /\ input_queue' = Append(input_queue, hand[p])
  /\ publisher' = [publisher EXCEPT ![p] = "flag"]
  /\ UNCHANGED <<published, hand, flags, guiVars, appVars, queue, stale, failed>>

SetInput(p) ==
  /\ ~failed /\ publisher[p] = "flag"
  /\ flags' = flags \union {"input"}
  /\ publisher' = [publisher EXCEPT ![p] = "idle"]
  /\ hand' = [hand EXCEPT ![p] = 0]
  /\ UNCHANGED <<published, input_queue, guiVars, appVars, queue, stale, failed>>

-----------------------------------------------------------------------------
(* gui_view_port_find_enabled over the layers that get input: the topmost  *)
(* enabled view port of the first layer that has one.                      *)
Enabled(l) == {j \in DOMAIN layers[l] : enabled[layers[l][j]]}
Topmost(l) == layers[l][Max(Enabled(l))]

Top ==
  LET found == {i \in DOMAIN Layers : Enabled(Layers[i]) # {}}
  IN IF found = {} THEN NoApp ELSE Topmost(Layers[Min(found)])

(* gui_task, from osThreadFlagsWait to the next.                           *)
Wake ==
  /\ ~failed /\ gui = "wait" /\ flags # {}
  /\ flags' = {}
  /\ IF "input" \in flags THEN gui' = "drain" /\ taken' = flags \ {"input"}
                          ELSE gui' = "draw" /\ UNCHANGED taken
  /\ UNCHANGED <<pubVars, input_queue, event, port, screen, appVars, queue, stale, failed>>

Get ==
  /\ ~failed /\ gui = "drain" /\ input_queue # <<>>
  /\ event' = Head(input_queue)
  /\ input_queue' = Tail(input_queue)
  /\ gui' = "dispatch"
  /\ UNCHANGED <<pubVars, flags, taken, port, screen, appVars, queue, stale, failed>>

BadDrained ==
  /\ ~failed /\ gui = "drain"
  /\ gui' = IF "draw" \in taken THEN "draw" ELSE "wait" \* after one event
  /\ UNCHANGED <<pubVars, input_queue, flags, taken, event, port, screen, appVars, queue, stale, failed>>

Drained ==
  /\ ~failed /\ gui = "drain" /\ input_queue = <<>>
  /\ gui' = IF "draw" \in taken THEN "draw" ELSE "wait"
  /\ taken' = {}
  /\ UNCHANGED <<pubVars, input_queue, flags, event, port, screen, appVars, queue, stale, failed>>

(* gui_input: under the mutex from here to the end of the input callback.  *)
Dispatch ==
  /\ ~failed /\ gui = "dispatch"
  /\ port' = Top
  /\ IF Top = NoApp THEN gui' = "drain" /\ event' = 0
                    ELSE gui' = "callback" /\ UNCHANGED event
  /\ UNCHANGED <<pubVars, input_queue, flags, taken, screen, appVars, queue, stale, failed>>

(* view_dispatcher_input_callback waits for room in the queue.             *)
InputCallback ==
  /\ ~failed /\ gui = "callback"
  /\ Len(queue[port]) < AppQueue
  /\ queue' = [queue EXCEPT ![port] = Append(@, event)]
  /\ gui' = "drain" /\ port' = NoApp /\ event' = 0
  /\ UNCHANGED <<pubVars, input_queue, flags, taken, screen, appVars, stale, failed>>

(* A draw call starts with forgetting the requests that arrived until now. *)
ClearDraw ==
  /\ ~failed /\ gui = "draw"
  /\ flags' = flags \ {"draw"}
  /\ gui' = "redraw"
  /\ UNCHANGED <<pubVars, input_queue, taken, event, port, screen, appVars, queue, stale, failed>>

(* gui_redraw: under the mutex from here to the end of the draw callback.  *)
Redraw ==
  /\ ~failed /\ gui = "redraw"
  /\ port' = Top
  /\ gui' = "drawing"
  /\ UNCHANGED <<pubVars, input_queue, flags, taken, event, screen, appVars, queue, stale, failed>>

BadDrawCallback ==
  /\ ~failed /\ gui = "drawing"
  /\ screen' = port
  /\ stale' = stale \ {port}
  /\ flags' = flags \ {"draw"} \* the requests are forgotten after the drawing
  /\ gui' = "wait" /\ port' = NoApp
  /\ UNCHANGED <<pubVars, input_queue, taken, event, appVars, queue, failed>>

DrawCallback ==
  /\ ~failed /\ gui = "drawing"
  /\ screen' = port
  /\ stale' = stale \ {port}
  /\ gui' = "wait" /\ port' = NoApp
  /\ UNCHANGED <<pubVars, input_queue, flags, taken, event, appVars, queue, failed>>

(* The GUI thread holds gui->mutex.                                        *)
Locked == gui \in {"callback", "drawing"}

-----------------------------------------------------------------------------
At(a, location) == ~failed /\ app[a] = location
Goto(a, location) == app' = [app EXCEPT ![a] = location]

(* view_dispatcher_alloc, _enable_queue and _attach_to_gui.                *)
Attach(a) ==
  /\ At(a, "out") /\ ~Locked
  /\ layers' = [layers EXCEPT ![Layer[a]] = Append(@, a)]
  /\ flags' = flags \union {"draw"}
  /\ Goto(a, "attached")
  /\ UNCHANGED <<pubVars, input_queue, guiVars, enabled, handled, queue, stale, failed>>

(* view_dispatcher_switch_to_view: the current view changes, the view port *)
(* is enabled and an update is due.                                        *)
Show(a) ==
  /\ At(a, "attached")
  /\ enabled' = [enabled EXCEPT ![a] = TRUE]
  /\ stale' = stale \union {a}
  /\ Goto(a, "update")
  /\ UNCHANGED <<pubVars, input_queue, flags, guiVars, layers, handled, queue, failed>>

(* view_port_update, and gui_update with it.                               *)
Update(a) ==
  /\ At(a, "update")
  /\ flags' = flags \union {"draw"}
  /\ Goto(a, "run")
  /\ UNCHANGED <<pubVars, input_queue, guiVars, layers, enabled, handled, queue, stale, failed>>

(* view_dispatcher_run takes an input message; its view handles it.        *)
Receive(a) ==
  /\ At(a, "run") /\ queue[a] # <<>> /\ Head(queue[a]) # Stop
  /\ queue' = [queue EXCEPT ![a] = Tail(@)]
  /\ handled' = [handled EXCEPT ![a] = Head(queue[a])]

Ignore(a) ==
  /\ Receive(a)
  /\ UNCHANGED <<pubVars, input_queue, flags, guiVars, layers, enabled, app, stale, failed>>

(* The view changes its model and commits it with an update.               *)
Change(a) ==
  /\ Receive(a) /\ enabled[a]
  /\ stale' = stale \union {a}
  /\ Goto(a, "update")
  /\ UNCHANGED <<pubVars, input_queue, flags, guiVars, layers, enabled, failed>>

(* A Short of Back for which view_previous says VIEW_NONE: no current view *)
(* and the view port disabled.                                             *)
Leave(a) ==
  /\ Receive(a) /\ enabled[a]
  /\ enabled' = [enabled EXCEPT ![a] = FALSE]
  /\ Goto(a, "hide")
  /\ UNCHANGED <<pubVars, input_queue, flags, guiVars, layers, stale, failed>>

(* The same with no current view: furi_assert(view) in view_previous.      *)
LeaveAgain(a) ==
  /\ Receive(a) /\ ~enabled[a]
  /\ failed' = TRUE
  /\ UNCHANGED <<pubVars, input_queue, flags, guiVars, layers, enabled, app, stale>>

Hide(a) ==
  /\ At(a, "hide")
  /\ flags' = flags \union {"draw"}
  /\ Goto(a, "stop")
  /\ UNCHANGED <<pubVars, input_queue, guiVars, layers, enabled, handled, queue, stale, failed>>

(* view_dispatcher_stop, which the application's own thread calls: it      *)
(* waits for room in the queue only this thread empties.                   *)
PutStop(a) ==
  /\ At(a, "stop")
  /\ Len(queue[a]) < AppQueue
  /\ queue' = [queue EXCEPT ![a] = Append(@, Stop)]
  /\ Goto(a, "run")
  /\ UNCHANGED <<pubVars, input_queue, flags, guiVars, layers, enabled, handled, stale, failed>>

TakeStop(a) ==
  /\ At(a, "run") /\ queue[a] # <<>> /\ Head(queue[a]) = Stop
  /\ queue' = [queue EXCEPT ![a] = Tail(@)]
  /\ Goto(a, "free")
  /\ UNCHANGED <<pubVars, input_queue, flags, guiVars, layers, enabled, handled, stale, failed>>

(* view_dispatcher_free: gui_remove_view_port and everything freed; the    *)
(* application can be started again.  A view port is in one place, as      *)
(* gui_add_view_port asserts.                                              *)
BadFree(a) ==
  /\ At(a, "free") \* without the mutex
  /\ layers' = [layers EXCEPT ![Layer[a]] = RemoveFirst(@, a)]
  /\ queue' = [queue EXCEPT ![a] = <<>>]
  /\ Goto(a, "out")
  /\ UNCHANGED <<pubVars, input_queue, flags, guiVars, enabled, handled, stale, failed>>

Free(a) ==
  /\ At(a, "free") /\ ~Locked
  /\ layers' = [layers EXCEPT ![Layer[a]] = RemoveFirst(@, a)]
  /\ queue' = [queue EXCEPT ![a] = <<>>]
  /\ Goto(a, "out")
  /\ UNCHANGED <<pubVars, input_queue, flags, guiVars, enabled, handled, stale, failed>>

-----------------------------------------------------------------------------
Publisher(p) == Publish(p) \/ Put(p) \/ SetInput(p)

GuiThread ==
  \/ Wake \/ Get \/ Drained \/ Dispatch \/ InputCallback
  \/ ClearDraw \/ Redraw \/ DrawCallback

App(a) ==
  \/ Attach(a) \/ Show(a) \/ Update(a)
  \/ Ignore(a) \/ Change(a) \/ Leave(a) \/ LeaveAgain(a)
  \/ Hide(a) \/ PutStop(a) \/ TakeStop(a) \/ Free(a)

Next ==
  \/ \E p \in Publishers : Publisher(p)
  \/ GuiThread
  \/ \E a \in Apps : App(a)

(* Every thread is scheduled, and who waits for a mutex or for room in a   *)
(* queue is served in turn.  Whether an application is started, and what   *)
(* it does with an event, is left open.                                    *)
Fairness ==
  /\ WF_vars(GuiThread) /\ SF_vars(InputCallback)
  /\ \A p \in Publishers : SF_vars(Put(p)) /\ WF_vars(SetInput(p))
  /\ \A a \in Apps :
       /\ WF_vars(Show(a) \/ Update(a) \/ Hide(a) \/ TakeStop(a))
       /\ WF_vars(Ignore(a) \/ Change(a) \/ Leave(a) \/ LeaveAgain(a))
       /\ SF_vars(PutStop(a)) /\ SF_vars(Free(a))

Spec == Init /\ [][Next]_vars /\ Fairness

-----------------------------------------------------------------------------
(* gui_task: "Process till queue become empty".  An event is never left in *)
(* the queue of a GUI thread that waits for a flag nobody is to set.       *)
NoStrandedInput ==
  gui = "wait" /\ input_queue # <<>> =>
    "input" \in flags \/ \E p \in Publishers : publisher[p] = "flag"

(* When nothing is under way the screen shows the application that would   *)
(* get the input, as its model is now: no request to redraw is lost        *)
(* between a flag, a callback and a change.                                *)
ScreenIsCurrent ==
  /\ gui = "wait" /\ "draw" \notin flags
  /\ \A a \in Apps : app[a] \notin {"update", "hide"}
  => screen = Top /\ Top \notin stale

(* view_port.h: "Ensure that view_port was unregistered in GUI system      *)
(* before use" of view_port_free: the GUI thread is never in a callback of *)
(* an application that has freed its view port and its queue.              *)
CallbackIsLive ==
  Locked /\ port # NoApp =>
    app[port] # "out" /\ \E j \in DOMAIN layers[Layer[port]] : layers[Layer[port]][j] = port

(* An application handles events in the order in which they were published, *)
(* whichever threads published them: a Release never before its Press.     *)
HandledInOrder ==
  [][\A a \in Apps : handled'[a] # handled[a] => handled'[a] > handled[a]]_vars

(* view_dispatcher.h: "Stop ViewDispatcher".  An application that decides  *)
(* to stop leaves view_dispatcher_run and frees what it has, unless the    *)
(* firmware stopped before.                                                *)
StopStops == \A a \in Apps : app[a] = "stop" ~> app[a] = "out" \/ failed
=============================================================================
