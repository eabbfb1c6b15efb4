------------------------------- MODULE NfcApp -------------------------------
(***************************************************************************)
(* applications/nfc: the application's thread (nfc.c), the GUI thread that *)
(* runs its view callbacks, and the worker threads it starts for a search, *)
(* an EMV read or an emulation (nfc_worker.c).  A worker is told to stop   *)
(* by overwriting its state, and says that it has ended the same way: no   *)
(* thread is joined.  All three write into one message queue.              *)
(* The four loops of the worker differ in when they report: detect after   *)
(* each pass, emv at the start of the next one, quiet (both emulations and *)
(* the field) never.  The radio is a choice of what a pass finds.  A       *)
(* report is marked stale, and so is a find, when the next worker starts.  *)
(***************************************************************************)
EXTENDS Naturals, Sequences

CONSTANTS Workers, \* worker threads that can be alive at once
          QueueMax \* the message queue's capacity: 8

ASSUME NfcAssumption == QueueMax \in Nat \ {0}

VARIABLES
  nfcState,   \* worker->state
  nfcQueue,   \* message_queue
  nfcView,    \* the view dispatcher's current view
  nfcPc,      \* where the application's thread is
  request,    \* the state nfc_start is about to hand to the worker
  workerPc,   \* where each worker thread is
  mode,       \* the loop each worker thread is in
  last,       \* what its last pass found
  found,      \* model->found: what each view shows; old: an earlier worker's
  nextView,   \* the view a key's callback returned and the GUI has yet to set
  freed       \* nfc_free has run

nfcVars == <<nfcState, nfcQueue, nfcView, nfcPc, request, workerPc, mode, last,
             found, nextView, freed>>

Searches == {"detect", "emv"}
Modes == Searches \union {"quiet"}
Views == Modes \union {"menu", "error", "none"}
Message(type) == [type |-> type]
Report(m, r, stale) == [type |-> "report", mode |-> m, found |-> r, stale |-> stale]
Messages == {Message(type) : type \in Modes \union {"stop", "exit"}}
            \union {Report(m, r, stale) : m \in Searches, r \in BOOLEAN, stale \in BOOLEAN}

NfcTypeOK ==
  /\ nfcState \in Modes \union {"ready", "broken", "stop"}
  /\ nfcQueue \in Seq(Messages) /\ Len(nfcQueue) <= QueueMax
  /\ nfcView \in Views
  /\ nfcPc \in {"get", "start", "done"}
  /\ request \in Modes
  /\ workerPc \in [Workers -> {"none", "begin", "hello", "loop", "search", "report", "end"}]
  /\ mode \in [Workers -> Modes]
  /\ last \in [Workers -> BOOLEAN]
  /\ found \in [Searches -> {"none", "new", "old"}]
  /\ nextView \in {"menu", "none", "ignore"}
  /\ freed \in BOOLEAN

(* nfc_alloc: the radio is either initialised or broken.                   *)
NfcInit ==
  /\ nfcState \in {"ready", "broken"}
  /\ nfcQueue = <<>>
  /\ nfcView = "menu"
  /\ nfcPc = "get"
  /\ request = "quiet"
  /\ workerPc = [w \in Workers |-> "none"]
  /\ mode = [w \in Workers |-> "quiet"]
  /\ last = [w \in Workers |-> FALSE]
  /\ found = [m \in Searches |-> "none"]
  /\ nextView = "ignore"
  /\ freed = FALSE

-----------------------------------------------------------------------------
(* The GUI thread.                                                         *)

Room == Len(nfcQueue) < QueueMax
Send(m) == Room /\ nfcQueue' = Append(nfcQueue, m)
workers == <<workerPc, mode, last>>
app == <<nfcState, nfcPc, request, found, freed>>

(* The menu's items and, for Back, nfc_view_exit or nfc_view_stop.         *)
KeyMessages(view) ==
  CASE view = "menu"                   -> Modes \union {"exit"}
    [] view \in Modes \union {"error"} -> {"stop"}
    [] OTHER                           -> {}

Key ==
  /\ nextView = "ignore"
  /\ ~freed
  /\ \E m \in KeyMessages(nfcView) :
       /\ Send(Message(m))
       /\ nextView' = CASE m = "stop" -> "menu" [] m = "exit" -> "none" [] OTHER -> "ignore"
  /\ UNCHANGED <<app, workers, nfcView>>

SwitchView ==
  /\ nextView # "ignore"
  /\ nfcView' = nextView
  /\ nextView' = "ignore"
  /\ UNCHANGED <<app, workers, nfcQueue>>

-----------------------------------------------------------------------------
(* The application's thread, nfc_task.                                     *)

Get(type) ==
  /\ nfcPc = "get"
  /\ nfcQueue # <<>> /\ Head(nfcQueue).type = type
  /\ nfcQueue' = Tail(nfcQueue)

Clear(m) == IF m \in Searches THEN [found EXCEPT ![m] = "none"] ELSE found

(* A mode's message: its model is cleared and nfc_start looks at the state *)
(* of the worker; a worker that has not ended yet makes it do nothing.     *)
GetMode(m) ==
  /\ Get(m)
  /\ found' = Clear(m)
  /\ CASE nfcState = "broken" -> nfcView' = "error" /\ UNCHANGED <<nfcPc, request>>
       [] nfcState = "ready"  -> nfcView' = m /\ nfcPc' = "start" /\ request' = m
       [] OTHER               -> UNCHANGED <<nfcView, nfcPc, request>>
  /\ UNCHANGED <<nfcState, workers, nextView, freed>>

(* nfc_worker_start, which does not look at what osThreadNew returns.      *)
MakeOld == [m \in Searches |-> IF found[m] = "new" THEN "old" ELSE found[m]]
MakeStale(m) == IF m.type = "report" THEN [m EXCEPT !.stale = TRUE] ELSE m

StartWorker ==
  /\ nfcPc = "start"
  /\ nfcState' = request
  /\ \/ \E w \in Workers :
          /\ workerPc[w] = "none"
          /\ workerPc' = [workerPc EXCEPT ![w] = "begin"]
          /\ nfcQueue' = [i \in DOMAIN nfcQueue |-> MakeStale(nfcQueue[i])]
          /\ found' = MakeOld
     \/ UNCHANGED <<workerPc, nfcQueue, found>> \* no memory for a thread
  /\ nfcPc' = "get"
  /\ UNCHANGED <<nfcView, request, mode, last, nextView, freed>>

(* nfc_worker_stop.                                                        *)
BadGetStop ==
  /\ Get("stop")
  /\ nfcState' = IF nfcState = "broken" THEN "broken" ELSE "ready" \* does not wait for the worker
  /\ UNCHANGED <<nfcView, nfcPc, request, workers, found, nextView, freed>>

GetStop ==
  /\ Get("stop")
  /\ nfcState' = IF nfcState = "broken" THEN "broken" ELSE "stop"
  /\ UNCHANGED <<nfcView, nfcPc, request, workers, found, nextView, freed>>

GetReport ==
  /\ Get("report")
  /\ LET m == Head(nfcQueue) IN
       found' = [found EXCEPT ![m.mode] = IF ~m.found THEN "none" ELSE IF m.stale THEN "old" ELSE "new"]
  /\ UNCHANGED <<nfcState, nfcView, nfcPc, request, workers, nextView, freed>>

(* nfc_free frees the worker and the queue, the current view is removed.   *)
(* The model ends there: a worker that is left goes on in freed memory.    *)
GetExit ==
  /\ Get("exit")
  /\ freed' = TRUE
  /\ nfcView' = "none"
  /\ nfcPc' = "done"
  /\ UNCHANGED <<nfcState, request, workers, found, nextView>>

AppThread ==
  \/ (\E m \in Modes : GetMode(m)) \/ StartWorker \/ GetStop \/ GetReport \/ GetExit

-----------------------------------------------------------------------------
(* A worker thread.                                                        *)

notWorker == <<nfcView, nfcPc, request, found, nextView, freed>>
WorkerAt(w, location) == workerPc[w] = location /\ ~freed
WorkerGoto(w, location) == workerPc' = [workerPc EXCEPT ![w] = location]

(* nfc_worker_task chooses its loop by the state it finds: a stop that was *)
(* faster leaves it none, and an emulation may fail to begin.              *)
Choose(w, first) ==
  /\ WorkerAt(w, "begin")
  /\ \/ /\ nfcState \in Modes
        /\ mode' = [mode EXCEPT ![w] = nfcState]
        /\ WorkerGoto(w, first)
     \/ nfcState \notin Searches /\ UNCHANGED mode /\ WorkerGoto(w, "end")
  /\ last' = [last EXCEPT ![w] = FALSE]
  /\ UNCHANGED <<nfcState, nfcQueue, notWorker>>

BadBeginLoop(w) == Choose(w, "loop") \* the screen is not updated before the search
BeginLoop(w) == Choose(w, IF nfcState = "detect" THEN "hello" ELSE "loop")

BadNextPass(w) ==
  /\ WorkerAt(w, "loop")
  /\ WorkerGoto(w, IF nfcState = "ready" THEN "end" \* until the state is Ready
                   ELSE CASE mode[w] = "detect" -> "search"
                          [] mode[w] = "emv"    -> "report"
                          [] mode[w] = "quiet"  -> "loop")
  /\ UNCHANGED <<nfcState, nfcQueue, mode, last, notWorker>>

NextPass(w) ==
  /\ WorkerAt(w, "loop")
  /\ WorkerGoto(w, IF nfcState # mode[w] THEN "end"
                   ELSE CASE mode[w] = "detect" -> "search"
                          [] mode[w] = "emv"    -> "report"
                          [] mode[w] = "quiet"  -> "loop")
  /\ UNCHANGED <<nfcState, nfcQueue, mode, last, notWorker>>

Search(w) ==
  /\ WorkerAt(w, "search")
  /\ \E r \in BOOLEAN : last' = [last EXCEPT ![w] = r]
  /\ WorkerGoto(w, IF mode[w] = "detect" THEN "report" ELSE "loop")
  /\ UNCHANGED <<nfcState, nfcQueue, mode, notWorker>>

PutReport(w) ==
  /\ WorkerAt(w, "hello") \/ WorkerAt(w, "report")
  /\ Send(Report(mode[w], last[w], FALSE))
  /\ WorkerGoto(w, IF workerPc[w] = "report" /\ mode[w] = "emv" THEN "search" ELSE "loop")
  /\ UNCHANGED <<nfcState, mode, last, notWorker>>

(* Ready is the last that the thread says of itself; what is left is its   *)
(* part of the insomnia level and osThreadExit.                            *)
EndLoop(w) ==
  /\ WorkerAt(w, "end")
  /\ nfcState' = "ready"
  /\ WorkerGoto(w, "none")
  /\ UNCHANGED <<nfcQueue, mode, last, notWorker>>

WorkerThread(w) == BeginLoop(w) \/ NextPass(w) \/ Search(w) \/ PutReport(w) \/ EndLoop(w)

NfcNext == Key \/ SwitchView \/ AppThread \/ \E w \in Workers : WorkerThread(w)

(* Every thread runs while it can, and the radio's own loops end: a reader *)
(* that talks to an emulation goes away.  Nothing is assumed of the user.  *)
NfcFairness ==
  /\ WF_nfcVars(SwitchView) /\ WF_nfcVars(AppThread)
  /\ \A w \in Workers : SF_nfcVars(WorkerThread(w))

NfcSpec == NfcInit /\ [][NfcNext]_nfcVars /\ NfcFairness

-----------------------------------------------------------------------------

(* At most one worker thread is in its loop, although it is told to stop   *)
(* by a plain store, never joined, and the next one may be asked for at    *)
(* once: two would share the radio and the state.                          *)
OneWorker == \A v, w \in Workers : workerPc[v] # "none" /\ workerPc[w] # "none" => v = w

(* "Update screen before start searching": while a pass of a search runs,  *)
(* the view shows an earlier worker's find only as long as a report of     *)
(* this worker, which will replace it, waits in the queue.                 *)
FoundIsFresh ==
  \A w \in Workers : workerPc[w] = "search" /\ found[mode[w]] = "old" =>
    \E i \in DOMAIN nfcQueue : nfcQueue[i].type = "report" /\ ~nfcQueue[i].stale

(* A worker that is told to stop, wherever it is in its loop and however   *)
(* full the queue, ends its loop.                                          *)
WorkerStops ==
  \A w \in Workers :
    (nfcState = "stop" /\ workerPc[w] # "none") ~> (workerPc[w] = "none" \/ freed)
=============================================================================
