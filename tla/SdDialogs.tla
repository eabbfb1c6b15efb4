------------------------------ MODULE SdDialogs ------------------------------
(***************************************************************************)
(* The dialogs of applications/sd-filesystem: the main loop and its event  *)
(* queue in sd-filesystem.c, the view holder it puts them in, and the file *)
(* list of gui/modules/file_select.c that reads directories from the GUI   *)
(* thread.  Three threads meet here:                                       *)
(*   - the service's, which handles one event at a time and takes the file *)
(*     table's mutex and, inside it, the GUI's to attach or remove a view; *)
(*   - the GUI thread, which holds the GUI's mutex while a key is handled  *)
(*     and inside it takes the table's mutex to scroll the file list;      *)
(*   - a client, which asks for a file and waits for the answer.           *)
(* FormatInProgress is set and replaced within one handler: no event meets *)
(* it, and it is no value of sdState here.  CheckError and ShowError are   *)
(* one screen.  The list of files is module Lists.                         *)
(***************************************************************************)
EXTENDS Naturals, Sequences

CONSTANT EventMax \* the capacity of event_queue: 8

ASSUME DialogsAssumption == EventMax \in Nat \ {0}

VARIABLES
  sdState,   \* sd_app_state
  holder,    \* view_holder: none, hidden (its view port disabled) or shown
  events,    \* event_queue
  answers,   \* result_receiver, a queue of one
  mounted,   \* info.status = SD_OK
  tableLock, \* the holder of info.mutex
  guiMutex,  \* the holder of the GUI's mutex
  appPc,     \* where the service's thread is in a handler
  handled,   \* the event it handles
  keyPc,     \* where the GUI thread is in a key's callback
  clientPc,  \* where the client is in sd_api_file_select
  answer,    \* what the last call of the client returned
  faulted,   \* view_holder_stop got NULL
  doubled    \* history: a key came before the last one was answered, or a
             \* failed listing reported itself twice

dialogsVars == <<sdState, holder, events, answers, mounted, tableLock, guiMutex,
                 appPc, handled, keyPc, clientPc, answer, faulted, doubled>>

Asks == {"format", "info", "eject"} \* the items of the SD card menu
Screens == Asks \union {"file_select", "error"}
States == Screens \union {"background", "completed", "ejected"}
Events == Screens \union {"ok", "back"}

DialogsTypeOK ==
  /\ sdState \in States
  /\ holder \in {"none", "hidden", "shown"}
  /\ events \in Seq(Events) /\ Len(events) <= EventMax
  /\ answers \in Seq(BOOLEAN) /\ Len(answers) <= 1
  /\ {mounted, answer, faulted, doubled} \subseteq BOOLEAN
  /\ tableLock \in {"none", "main"}
  /\ guiMutex \in {"none", "gui"}
  /\ appPc \in {"loop", "alloc", "attach", "list", "own_back", "refuse", "refuse_reset",
                "show", "accept", "stop", "free", "detach", "format", "eject"}
  /\ handled \in Events
  /\ keyPc \in {"idle", "list"} \union Events
  /\ clientPc \in {"idle", "ask", "wait", "check"}

DialogsInit ==
  /\ sdState = "background" /\ holder = "none"
  /\ events = <<>> /\ answers = <<>>
  /\ mounted \in BOOLEAN
  /\ tableLock = "none" /\ guiMutex = "none"
  /\ appPc = "loop" /\ handled = "back"
  /\ keyPc = "idle" /\ clientPc = "idle"
  /\ answer = FALSE
  /\ faulted = FALSE /\ doubled = FALSE

-----------------------------------------------------------------------------
(* The service's thread.                                                   *)

others == <<keyPc, clientPc, answer>>
locks == <<tableLock, guiMutex>>
CanPut == Len(events) < EventMax

(* switch(event.type).  An OK that no state waits for is dropped; a Back   *)
(* resets in every state, which the background is no exception to.         *)
HandlerOf(e) ==
  CASE e = "ok"    -> IF sdState = "file_select" THEN "accept"
                      ELSE IF sdState \in {"format", "eject"} THEN sdState
                      ELSE "loop"
    [] e = "back"  -> IF sdState = "file_select" THEN "refuse_reset" ELSE "stop"
    [] e = "error" -> IF mounted THEN "loop" ELSE "alloc"
    [] OTHER       -> "alloc"

(* A file can be asked for in a directory that cannot be made.             *)
TakeEvent ==
  /\ appPc = "loop" /\ ~faulted
  /\ events # <<>>
  /\ handled' = Head(events)
  /\ events' = Tail(events)
  /\ \/ appPc' = HandlerOf(Head(events))
     \/ Head(events) = "file_select" /\ appPc' = "refuse"
  /\ UNCHANGED <<sdState, holder, answers, mounted, locks, others, faulted, doubled>>

(* The loop mounts a card that was put in and unmounts one that has gone.  *)
Detect ==
  /\ appPc = "loop" /\ ~faulted
  /\ tableLock = "none"
  /\ mounted' \in BOOLEAN
  /\ UNCHANGED <<sdState, holder, events, answers, locks, appPc, handled, others, faulted, doubled>>

(* try_to_alloc_view_holder: one dialog at a time.                         *)
Alloc ==
  /\ appPc = "alloc"
  /\ tableLock = "none"
  /\ IF holder = "none"
     THEN tableLock' = "main" /\ appPc' = "attach"
     ELSE /\ UNCHANGED tableLock
          /\ appPc' = IF handled = "file_select" THEN "refuse" ELSE "loop"
  /\ UNCHANGED <<sdState, holder, events, answers, mounted, guiMutex, handled, others, faulted, doubled>>

(* gui_add_view_port takes the GUI's mutex.                                *)
BadAttach ==
  /\ appPc = "attach"
  /\ guiMutex = "none"
  /\ holder' = "hidden" \* without _fs_unlock
  /\ appPc' = IF handled = "file_select" THEN "list" ELSE "show"
  /\ UNCHANGED <<sdState, events, answers, mounted, locks, handled, others, faulted, doubled>>

Attach ==
  /\ appPc = "attach"
  /\ guiMutex = "none"
  /\ holder' = "hidden"
  /\ tableLock' = "none"
  /\ appPc' = IF handled = "file_select" THEN "list" ELSE "show"
  /\ UNCHANGED <<sdState, events, answers, mounted, guiMutex, handled, others, faulted, doubled>>

(* file_select_init reads the directory; when it fails it calls the back   *)
(* callback, and the handler then refuses and resets as well.              *)
ListFiles ==
  /\ appPc = "list"
  /\ tableLock = "none"
  /\ appPc' \in {"show", "own_back"}
  /\ UNCHANGED <<sdState, holder, events, answers, mounted, locks, handled, others, faulted, doubled>>

OwnBack ==
  /\ appPc = "own_back"
  /\ CanPut
  /\ events' = Append(events, "back")
  /\ appPc' = "refuse_reset"
  /\ doubled' = TRUE
  /\ UNCHANGED <<sdState, holder, answers, mounted, locks, handled, others, faulted>>

Show ==
  /\ appPc = "show"
  /\ holder' = "shown"
  /\ sdState' = handled
  /\ appPc' = "loop"
  /\ UNCHANGED <<events, answers, mounted, locks, handled, others, faulted, doubled>>

(* The answer to the client; the queue holds one.                          *)
BadAnswer ==
  /\ appPc \in {"accept", "refuse", "refuse_reset"}
  /\ answers = <<>>
  /\ answers' = <<appPc = "accept">>
  /\ appPc' = "loop" \* without app_reset_state
  /\ UNCHANGED <<sdState, holder, events, mounted, locks, handled, others, faulted, doubled>>

Answer ==
  /\ appPc \in {"accept", "refuse", "refuse_reset"}
  /\ answers = <<>>
  /\ answers' = <<appPc = "accept">>
  /\ appPc' = IF appPc = "refuse" THEN "loop" ELSE "stop"
  /\ UNCHANGED <<sdState, holder, events, mounted, locks, handled, others, faulted, doubled>>

(* app_reset_state: view_holder_stop does not check its argument.          *)
Stop ==
  /\ appPc = "stop"
  /\ IF holder = "none"
     THEN faulted' = TRUE /\ UNCHANGED <<holder, appPc>>
     ELSE holder' = "hidden" /\ appPc' = "free" /\ UNCHANGED faulted
  /\ UNCHANGED <<sdState, events, answers, mounted, locks, handled, others, doubled>>

FreeHolder ==
  /\ appPc = "free"
  /\ tableLock = "none"
  /\ tableLock' = "main"
  /\ appPc' = "detach"
  /\ UNCHANGED <<sdState, holder, events, answers, mounted, guiMutex, handled, others, faulted, doubled>>

(* gui_remove_view_port takes the GUI's mutex, inside the table's.         *)
Detach ==
  /\ appPc = "detach"
  /\ guiMutex = "none"
  /\ tableLock' = "none"
  /\ holder' = "none"
  /\ sdState' = "background"
  /\ appPc' = "loop"
  /\ UNCHANGED <<events, answers, mounted, guiMutex, handled, others, faulted, doubled>>

FormatOrEject ==
  /\ appPc \in {"format", "eject"}
  /\ tableLock = "none"
  /\ mounted' \in (IF appPc = "format" THEN BOOLEAN ELSE {FALSE})
  /\ sdState' = IF appPc = "format" THEN "completed" ELSE "ejected"
  /\ appPc' = "loop"
  /\ UNCHANGED <<holder, events, answers, locks, handled, others, faulted, doubled>>

AppStep ==
  \/ TakeEvent \/ Alloc \/ Attach \/ ListFiles \/ OwnBack \/ Show
  \/ Answer \/ Stop \/ FreeHolder \/ Detach \/ FormatOrEject

-----------------------------------------------------------------------------
(* The GUI thread handles a key, holding the GUI's mutex.                  *)

service == <<sdState, holder, answers, mounted, tableLock, appPc, handled, clientPc, answer,
             faulted>>

(* The keys the screen has: Back always, OK where the dialog has a right   *)
(* button or a file is selected, Up and Down in the file list.  With no    *)
(* screen of the service the user may be in its menu.                      *)
Keys ==
  IF holder = "shown"
  THEN {"back"}
       \union (IF sdState \in {"format", "eject", "file_select"} THEN {"ok"} ELSE {})
       \union (IF sdState = "file_select" THEN {"list"} ELSE {})
  ELSE Asks

(* No earlier key waits to be handled.                                     *)
Answered ==
  appPc = "loop" /\ \A i \in DOMAIN events : events[i] \in {"file_select", "error"}

PressKey(k) ==
  /\ keyPc = "idle" /\ guiMutex = "none"
  /\ ~faulted
  /\ k \in Keys
  /\ doubled' = (doubled \/ ~Answered)
  /\ keyPc' = k
  /\ guiMutex' = "gui"
  /\ UNCHANGED <<service, events>>

(* osMessageQueuePut(..., osWaitForever) in the callback.                  *)
BadPutKey ==
  /\ keyPc \in Events
  /\ CanPut
  /\ events' = IF Len(events) + 1 < EventMax
               THEN Append(Append(events, keyPc), keyPc) \* also for the key's release
               ELSE Append(events, keyPc)
  /\ keyPc' = "idle"
  /\ guiMutex' = "none"
  /\ UNCHANGED <<service, doubled>>

PutKey ==
  /\ keyPc \in Events
  /\ CanPut
  /\ events' = Append(events, keyPc)
  /\ keyPc' = "idle"
  /\ guiMutex' = "none"
  /\ UNCHANGED <<service, doubled>>

(* file_select_fill_strings takes the table's mutex; when the directory    *)
(* cannot be read the callback reports a Back.                             *)
Scroll ==
  /\ keyPc = "list"
  /\ tableLock = "none"
  /\ \/ keyPc' = "idle" /\ guiMutex' = "none"
     \/ keyPc' = "back" /\ UNCHANGED guiMutex
  /\ UNCHANGED <<service, events, doubled>>

KeyStep == PutKey \/ Scroll

-----------------------------------------------------------------------------
(* A client's sd_api_file_select.                                          *)

rest == <<sdState, holder, mounted, locks, appPc, handled, keyPc, faulted, doubled>>

Ask ==
  /\ clientPc = "idle" /\ ~faulted
  /\ clientPc' = "ask"
  /\ UNCHANGED <<rest, events, answers, answer>>

PutAsk ==
  /\ clientPc \in {"ask", "check"}
  /\ CanPut
  /\ events' = Append(events, IF clientPc = "ask" THEN "file_select" ELSE "error")
  /\ clientPc' = IF clientPc = "ask" THEN "wait" ELSE "idle"
  /\ UNCHANGED <<rest, answers, answer>>

(* A refusal is followed by sd_api_check_error.                            *)
GetAnswer ==
  /\ clientPc = "wait"
  /\ answers # <<>>
  /\ answer' = Head(answers)
  /\ answers' = Tail(answers)
  /\ clientPc' = IF Head(answers) THEN "idle" ELSE "check"
  /\ UNCHANGED <<rest, events>>

ClientStep == PutAsk \/ GetAnswer

DialogsNext ==
  \/ Detect \/ AppStep
  \/ (\E k \in Events \union {"list"} : PressKey(k)) \/ KeyStep
  \/ Ask \/ ClientStep

(* The threads run while they can; the user does not leave a dialog for    *)
(* ever.                                                                   *)
DialogsFairness ==
  /\ WF_dialogsVars(AppStep) /\ WF_dialogsVars(KeyStep) /\ WF_dialogsVars(ClientStep)
  /\ SF_dialogsVars(holder = "shown" /\ PressKey("back"))

DialogsSpec == DialogsInit /\ [][DialogsNext]_dialogsVars /\ DialogsFairness

-----------------------------------------------------------------------------
(* Between two events a dialog is on the screen exactly when the state     *)
(* says so.  app_reset_state calls view_holder_stop with no view holder -  *)
(* which ends what can be said here - only if a key was pressed before the *)
(* one ahead of it was answered, or if a list could not be read.           *)
HolderMatchesState ==
  /\ faulted => doubled
  /\ appPc = "loop" => holder = (IF sdState = "background" THEN "none" ELSE "shown")

(* An answer stands in the queue only for a client that waits for it: a    *)
(* later request never gets the answer to an earlier one.                  *)
AnswerIsAwaited ==
  /\ answers # <<>> => clientPc = "wait"
  /\ appPc \in {"accept", "refuse", "refuse_reset"} => clientPc = "wait" /\ answers = <<>>
  /\ sdState = "file_select" /\ appPc = "loop" => clientPc = "wait"

(* The ways in which the threads stop each other for good:                 *)
Deadlocked ==
  \* the table's mutex, then the GUI's; the GUI's, then the table's
  \/ appPc \in {"attach", "detach"} /\ keyPc = "list"
  \* the GUI's mutex; room in the queue that its holder waits for
  \/ appPc \in {"attach", "detach"} /\ keyPc \in Events /\ ~CanPut
  \* the service puts into its own full queue
  \/ appPc = "own_back" /\ ~CanPut

(* The service's thread comes back to its loop from every handler, and a   *)
(* client that asks for a file is answered, unless the threads are in one  *)
(* of these three: between the two mutexes, the queue of events and the    *)
(* queue of answers there is no other way to wait for ever.                *)
NobodyWaitsForEver ==
  /\ (appPc # "loop") ~> (appPc = "loop" \/ faulted \/ Deadlocked)
  /\ (clientPc = "wait") ~> (clientPc # "wait" \/ faulted \/ Deadlocked)
=============================================================================
