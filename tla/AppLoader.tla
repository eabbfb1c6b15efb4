------------------------------ MODULE AppLoader ------------------------------
(***************************************************************************)
(* applications/app-loader over core/furi/thread.c and the insomnia level  *)
(* of api-hal-power.c.  One FuriThread object runs one application at a    *)
(* time.  Three entry points start an application: a menu item and the     *)
(* archive (GUI thread) and a CLI command (CLI thread).  None of them takes *)
(* a lock ("TODO add mutex for contex").  The level that keeps the MCU     *)
(* awake goes up in the menu and CLI entry points and down in the thread's *)
(* state callback, which runs in the application's own OS thread.          *)
(***************************************************************************)
EXTENDS Naturals

CONSTANTS Starters, \* the threads that start applications
          Entries,  \* the entry points each of them uses
          Bodies,   \* OS threads osThreadNew can have alive at once
          Apps, NoApp,
          LevelMax \* the level is modulo LevelMax + 1: 2^32 in the code

OsThreads == Starters \union Bodies

ASSUME LoaderAssumption ==
  /\ LevelMax \in Nat \ {0}
  /\ NoApp \notin Apps
  /\ Entries \in [Starters -> SUBSET {"menu", "cli", "archive"}]
  /\ Starters \intersect Bodies = {}

VARIABLES
  threadState, \* thread->state of the one FuriThread
  callback,    \* thread->callback: the application furi_thread_body will run
  currentApp,  \* state.current_app
  insomnia,    \* api_hal_power.insomnia
  register,    \* the level each thread has loaded and not yet stored
  loaderPc,    \* where each starter and each OS thread is
  entry,       \* the entry point each starter is in
  appOf,       \* the application a starter was asked for or a body runs
  failed,      \* a furi_assert failed and the firmware stopped
  overlapped   \* history: two starters have been past the check together

loaderVars == <<threadState, callback, currentApp, insomnia, register, loaderPc, entry, appOf,
                failed, overlapped>>

StarterPcs == {"idle", "check", "enter", "enter_store", "prepare", "start", "set", "create",
               "fail_exit", "fail_store"}
BodyPcs == {"none", "begin", "run", "return", "exit", "exit_store", "end"}

LoaderTypeOK ==
  /\ threadState \in {"stopped", "starting", "running"}
  /\ callback \in Apps \union {NoApp}
  /\ currentApp \in Apps \union {NoApp}
  /\ insomnia \in 0..LevelMax
  /\ register \in [OsThreads -> 0..LevelMax]
  /\ loaderPc \in [OsThreads -> StarterPcs \union BodyPcs]
  /\ \A c \in Starters : loaderPc[c] \in StarterPcs
  /\ \A b \in Bodies : loaderPc[b] \in BodyPcs
  /\ entry \in [Starters -> {"menu", "cli", "archive"}]
  /\ appOf \in [OsThreads -> Apps \union {NoApp}]
  /\ failed \in BOOLEAN
  /\ overlapped \in BOOLEAN

LoaderInit ==
  /\ threadState = "stopped"
  /\ callback = NoApp
  /\ currentApp = NoApp
  /\ insomnia = 0
  /\ register = [t \in OsThreads |-> 0]
  /\ loaderPc = [t \in OsThreads |-> IF t \in Bodies THEN "none" ELSE "idle"]
  /\ entry = [c \in Starters |-> "menu"]
  /\ appOf = [t \in OsThreads |-> NoApp]
  /\ failed = FALSE
  /\ overlapped = FALSE

-----------------------------------------------------------------------------
(* The faulty variants, named Bad..., are each an operation or a guard with *)
(* one mistake, which one of the properties has to notice.                 *)

ThreadAt(t, location) == ~failed /\ loaderPc[t] = location
ThreadGoto(t, location) == loaderPc' = [loaderPc EXCEPT ![t] = location]

Fail ==
  /\ failed' = TRUE
  /\ UNCHANGED <<threadState, callback, currentApp, insomnia, register, loaderPc, entry, appOf, overlapped>>

(* insomnia++ and insomnia--: a load and a store of a volatile variable.   *)
Inc(n) == (n + 1) % (LevelMax + 1)
Dec(n) == (n + LevelMax) % (LevelMax + 1)

Change(t, from, store, to, new) ==
  /\ \/ /\ ThreadAt(t, from)
        /\ register' = [register EXCEPT ![t] = insomnia]
        /\ ThreadGoto(t, store)
        /\ UNCHANGED insomnia
     \/ /\ ThreadAt(t, store)
        /\ insomnia' = new
        /\ register' = [register EXCEPT ![t] = 0]
        /\ ThreadGoto(t, to)
  /\ UNCHANGED <<threadState, callback, currentApp, entry, appOf, failed, overlapped>>

-----------------------------------------------------------------------------
(* The user picks an application.                                          *)
AskForApp(c, e, a) ==
  /\ ThreadAt(c, "idle")
  /\ e \in Entries[c]
  /\ entry' = [entry EXCEPT ![c] = e]
  /\ appOf' = [appOf EXCEPT ![c] = a]
  /\ ThreadGoto(c, "check")
  /\ UNCHANGED <<threadState, callback, currentApp, insomnia, register, failed, overlapped>>

(* if(furi_thread_get_state(state.thread) != FuriThreadStateStopped) return *)
PastCheck(c) == loaderPc[c] \in {"enter", "enter_store", "prepare", "start", "set"}

BadCheckStopped(c) ==
  /\ ThreadAt(c, "check")
  /\ ThreadGoto(c, IF threadState = "running" THEN "idle" \* and not when it is starting
             ELSE IF entry[c] = "archive" THEN "prepare" ELSE "enter")
  /\ overlapped' = (overlapped \/ \E d \in Starters \ {c} : PastCheck(d))
  /\ UNCHANGED <<threadState, callback, currentApp, insomnia, register, entry, appOf, failed>>

CheckStopped(c) ==
  /\ ThreadAt(c, "check")
  /\ \/ threadState # "stopped" /\ ThreadGoto(c, "idle") /\ UNCHANGED overlapped
     \/ /\ threadState = "stopped"
        /\ ThreadGoto(c, IF entry[c] = "archive" THEN "prepare" ELSE "enter")
        /\ overlapped' = (overlapped \/ \E d \in Starters \ {c} : PastCheck(d))
  /\ UNCHANGED <<threadState, callback, currentApp, insomnia, register, entry, appOf, failed>>

InsomniaEnter(c) == Change(c, "enter", "enter_store", "prepare", Inc(register[c]))

(* furi_thread_set_name, _stack_size, _context, _callback: each asserts    *)
(* that the thread is stopped.                                             *)
BadPrepare(c) ==
  /\ ThreadAt(c, "prepare")
  /\ \/ threadState # "stopped" /\ Fail
     \/ /\ threadState = "stopped"
        /\ currentApp' = appOf[c]
        /\ callback' = IF callback = NoApp THEN appOf[c] ELSE callback \* the last one's
        /\ ThreadGoto(c, "start")
        /\ UNCHANGED <<threadState, insomnia, register, entry, appOf, failed, overlapped>>

Prepare(c) ==
  /\ ThreadAt(c, "prepare")
  /\ \/ threadState # "stopped" /\ Fail
     \/ /\ threadState = "stopped"
        /\ currentApp' = appOf[c]
        /\ callback' = appOf[c]
        /\ ThreadGoto(c, "start")
        /\ UNCHANGED <<threadState, insomnia, register, entry, appOf, failed, overlapped>>

(* furi_thread_start up to osThreadNew: the assertion and then the store.  *)
Start(c) ==
  /\ ThreadAt(c, "start")
  /\ \/ threadState # "stopped" /\ Fail
     \/ /\ threadState = "stopped"
        /\ ThreadGoto(c, "set")
        /\ UNCHANGED <<threadState, callback, currentApp, insomnia, register, entry, appOf, failed, overlapped>>

SetStarting(c) ==
  /\ ThreadAt(c, "set")
  /\ threadState' = "starting"
  /\ ThreadGoto(c, "create")
  /\ UNCHANGED <<callback, currentApp, insomnia, register, entry, appOf, failed, overlapped>>

(* osThreadNew makes an OS thread, or has no memory for one; then the      *)
(* state goes back and the state callback runs in the starter.             *)
Create(c) ==
  /\ ThreadAt(c, "create")
  /\ \/ \E b \in Bodies :
          /\ loaderPc[b] = "none"
          /\ loaderPc' = [loaderPc EXCEPT ![c] = "idle", ![b] = "begin"]
          /\ UNCHANGED <<threadState, failed>>
     \/ threadState # "starting" /\ Fail
     \/ /\ threadState = "starting"
        /\ threadState' = "stopped"
        /\ ThreadGoto(c, "fail_exit")
        /\ UNCHANGED failed
  /\ UNCHANGED <<callback, currentApp, insomnia, register, entry, appOf, overlapped>>

FailInsomniaExit(c) == Change(c, "fail_exit", "fail_store", "idle", Dec(register[c]))

-----------------------------------------------------------------------------
(* furi_thread_body: assert Starting, set Running, run the callback.       *)
BodyBegin(b) ==
  /\ ThreadAt(b, "begin")
  /\ \/ threadState # "starting" /\ Fail
     \/ /\ threadState = "starting"
        /\ threadState' = "running"
        /\ appOf' = [appOf EXCEPT ![b] = callback]
        /\ ThreadGoto(b, "run")
        /\ UNCHANGED <<callback, currentApp, insomnia, register, entry, failed, overlapped>>

(* The application returns.                                                *)
Return(b) ==
  /\ ThreadAt(b, "run")
  /\ ThreadGoto(b, "return")
  /\ UNCHANGED <<threadState, callback, currentApp, insomnia, register, entry, appOf, failed, overlapped>>

(* Assert Running, set Stopped; then the state callback.                   *)
BodyStop(b) ==
  /\ ThreadAt(b, "return")
  /\ \/ threadState # "running" /\ Fail
     \/ /\ threadState = "running"
        /\ threadState' = "stopped"
        /\ ThreadGoto(b, "exit")
        /\ UNCHANGED <<callback, currentApp, insomnia, register, entry, appOf, failed, overlapped>>

InsomniaExit(b) == Change(b, "exit", "exit_store", "end", Dec(register[b]))

(* osThreadExit.                                                           *)
End(b) ==
  /\ ThreadAt(b, "end")
  /\ appOf' = [appOf EXCEPT ![b] = NoApp]
  /\ ThreadGoto(b, "none")
  /\ UNCHANGED <<threadState, callback, currentApp, insomnia, register, entry, failed, overlapped>>

-----------------------------------------------------------------------------
StarterRuns(c) ==
  CheckStopped(c) \/ InsomniaEnter(c) \/ Prepare(c) \/ Start(c) \/ SetStarting(c) \/ Create(c)
  \/ FailInsomniaExit(c)

BodyRuns(b) == BodyBegin(b) \/ BodyStop(b) \/ InsomniaExit(b) \/ End(b)

LoaderNext ==
  \/ \E c \in Starters : StarterRuns(c) \/ \E e \in Entries[c], a \in Apps : AskForApp(c, e, a)
  \/ \E b \in Bodies : BodyRuns(b) \/ Return(b)

(* The scheduler runs every ready thread.  The user need not pick anything *)
(* and an application need not end.                                        *)
LoaderFairness ==
  /\ \A c \in Starters : WF_loaderVars(StarterRuns(c))
  /\ \A b \in Bodies : WF_loaderVars(BodyRuns(b))

LoaderSpec == LoaderInit /\ [][LoaderNext]_loaderVars /\ LoaderFairness

-----------------------------------------------------------------------------
(* "furi_assert(thread->state == FuriThreadStateStopped)" and its kind in  *)
(* thread.c: starting an application never stops the firmware.             *)
NoAssertFails == ~failed

(* The only way to such an assertion is the one app-loader.c warns of:     *)
(* two threads pass the check of the state before either has changed it.   *)
(* In particular an application that ends while another is started, or a   *)
(* failing osThreadNew, never leads to it.                                 *)
FailsOnlyByOverlap == failed => overlapped

(* Unless starters have overlapped so, two applications never run at once, *)
(* although the state says Stopped before the old OS thread has ended, and *)
(* the one that runs is the one the loader says is running.                *)
OneApp ==
  ~overlapped => \A b \in Bodies : loaderPc[b] = "run" =>
    /\ threadState = "running" /\ appOf[b] = currentApp
    /\ \A o \in Bodies \ {b} : loaderPc[o] \notin {"begin", "run", "return"}

(* "Must be paired with api_hal_power_insomnia_enter": the level never goes *)
(* down from zero.                                                         *)
Paired == [][insomnia = 0 => insomnia' # LevelMax]_loaderVars
==============================================================================
