----------------------------- MODULE ThreadsProofs -----------------------------
(***************************************************************************)
(* Proofs about the loader, the NFC application and the components of      *)
(* MCThreads, and the types of their sum.                                  *)
(*   CliSession, for any number of writers and any buffer: the types, and  *)
(*   that no writer of a configured device is left to sleep.               *)
(*   AppLoader, for any starters, OS threads, applications and entry       *)
(*   points: an assertion of thread.c fails only when two starts overlap,  *)
(*   and one application runs at a time as long as none do.                *)
(*   SdDialogs and NfcApp, for queues of any length and any number of      *)
(*   worker threads.                                                       *)
(***************************************************************************)
EXTENDS MCThreads, AppLoader, NfcApp, TLAPS

-----------------------------------------------------------------------------
(* CliSession.                                                             *)
(* A writer past the test of api_hal_vcp_tx has a batch to send, so that   *)
(* the number of batches never goes below zero.                            *)
BatchLeft == \A w \in Writers : txPc[w] \in {"acquire", "begin", "copy"} => left[w] > 0

(* The permit of a configured device is never lost: it is in the semaphore, *)
(* with a transfer in flight, or with a writer that is about to start one. *)
PermitSomewhere ==
  configured =>
    tx_semaphore = 1 \/ txState \/ \E v \in Writers : txPc[v] \in {"begin", "copy"}

CliIInv == CliTypeOK /\ BatchLeft /\ PermitSomewhere

-----------------------------------------------------------------------------
LEMMA ReceiveType ==
  ASSUME CliTypeOK, NEW c \in Characters \union {"SOH", "EOT"}, Receive(c)
  PROVE  /\ rx_stream' \in Seq(Characters \union {"SOH", "EOT"})
         /\ Len(rx_stream') <= RxBuffer
         /\ underrun' \in BOOLEAN
<1>1. CASE Len(rx_stream) < RxBuffer
  BY SMTT(60), <1>1, CliAssumption DEF CliTypeOK, Receive
<1>2. CASE ~(Len(rx_stream) < RxBuffer)
  <2>1. underrun' = TRUE /\ UNCHANGED rx_stream
    BY <1>2 DEF Receive
  <2>2. underrun' \in BOOLEAN
    BY <2>1
  <2>3. QED
    BY <2>1, <2>2 DEF CliTypeOK
<1>3. QED
  BY <1>1, <1>2

(* A step of the USB stack and its host.                                   *)
LEMMA UsbStep == ASSUME CliIInv, Usb PROVE CliIInv'
<1> USE CliAssumption DEF CliIInv, CliTypeOK, BatchLeft, PermitSomewhere, port, lineVars, Release
<1>1. CASE Connect
  <2>1. configured' \in BOOLEAN /\ txState' \in BOOLEAN /\ alive' \in BOOLEAN
    BY <1>1 DEF Connect
  <2>2. tx_semaphore' = 1 /\ UNCHANGED <<underrun, rx_stream, txPc, left, line, running>>
    BY <1>1 DEF Connect
  <2>3. QED
    BY <2>1, <2>2
<1>2. CASE Disconnect
  <2>1. configured' \in BOOLEAN /\ txState' \in BOOLEAN /\ alive' \in BOOLEAN
    BY <1>2 DEF Disconnect
  <2>2. tx_semaphore' = 1 /\ UNCHANGED <<underrun, rx_stream, txPc, left, line, running>>
    BY <1>2 DEF Disconnect
  <2>3. QED
    BY <2>1, <2>2
<1>3. CASE Complete
  <2>1. configured' \in BOOLEAN /\ txState' \in BOOLEAN /\ alive' \in BOOLEAN
    BY <1>3 DEF Complete
  <2>2. tx_semaphore' = 1 /\ UNCHANGED <<underrun, rx_stream, txPc, left, line, running>>
    BY <1>3 DEF Complete
  <2>3. QED
    BY <2>1, <2>2
<1>4. ASSUME NEW rts \in BOOLEAN, ControlLine(rts) PROVE CliIInv'
  <2>1. /\ rx_stream' \in Seq(Characters \union {"SOH", "EOT"})
        /\ Len(rx_stream') <= RxBuffer /\ underrun' \in BOOLEAN
    BY <1>4, ReceiveType DEF ControlLine
  <2>2. QED
    BY <1>4, <2>1 DEF ControlLine
<1>5. ASSUME NEW c \in Characters, KeyPressed(c) PROVE CliIInv'
  <2>1. /\ rx_stream' \in Seq(Characters \union {"SOH", "EOT"})
        /\ Len(rx_stream') <= RxBuffer /\ underrun' \in BOOLEAN
    BY <1>5, ReceiveType DEF KeyPressed
  <2>2. QED
    BY <1>5, <2>1 DEF KeyPressed
<1>6. QED
  BY <1>1, <1>2, <1>3, <1>4, <1>5 DEF Usb

(* A step of a thread in api_hal_vcp_tx.                                   *)
LEMMA WriterStep ==
  ASSUME CliIInv, NEW w \in Writers, Write(w) \/ Tx(w) \/ Acquire(w)
  PROVE  CliIInv'
<1> USE CliAssumption
    DEF CliIInv, CliTypeOK, BatchLeft, PermitSomewhere, port, lineVars, At, Goto, SendBatches
<1>1. CASE Write(w)
  BY <1>1 DEF Write
<1>2. CASE Check(w)
  BY SMTT(60), <1>2 DEF Check
<1>3. CASE Acquire(w)
  BY <1>3 DEF Acquire
<1>4. CASE Begin(w)
  BY <1>4 DEF Begin
<1>5. CASE Transmit(w)
  <2>1. /\ txPc[w] = "copy" /\ left[w] > 0
        /\ UNCHANGED <<configured, alive, underrun, tx_semaphore, rx_stream, line, running>>
    BY <1>5 DEF Transmit
  <2>2. CASE configured /\ ~txState
    <3>1. txState' = TRUE /\ txPc' = [txPc EXCEPT ![w] = "check"]
          /\ left' = [left EXCEPT ![w] = @ - 1]
      BY <1>5, <2>2 DEF Transmit
    <3>2. txState' \in BOOLEAN
      BY <3>1
    <3>3. left' \in [Writers -> 0..MaxBatches]
      BY <2>1, <3>1
    <3>4. QED
      BY <2>1, <3>1, <3>2, <3>3
  <2>3. CASE ~(configured /\ ~txState)
    <3>1. txPc' = [txPc EXCEPT ![w] = "delay"] /\ UNCHANGED <<txState, left>>
      BY <1>5, <2>3 DEF Transmit
    <3>2. PermitSomewhere'
      BY <2>1, <2>3, <3>1
    <3>3. QED
      BY <2>1, <3>1, <3>2
  <2>4. QED
    BY <2>2, <2>3
<1>6. CASE Delay(w)
  BY <1>6 DEF Delay
<1>7. QED
  BY <1>1, <1>2, <1>3, <1>4, <1>5, <1>6 DEF Tx

LEMMA ReadType ==
  ASSUME CliTypeOK, rx_stream # <<>>, rx_stream' = Tail(rx_stream)
  PROVE  /\ rx_stream' \in Seq(Characters \union {"SOH", "EOT"})
         /\ Len(rx_stream') <= RxBuffer
BY CliAssumption DEF CliTypeOK

(* A step of the CLI thread.  What it sends begins at the test, and it     *)
(* does not touch the semaphore there.                                     *)
LEMMA CliThreadStep == ASSUME CliIInv, CliThread PROVE CliIInv'
<1> USE CliAssumption
    DEF CliIInv, CliTypeOK, BatchLeft, PermitSomewhere, port, lineVars, At, Goto, SendBatches
<1>1. CASE Greet
  BY <1>1, ReadType DEF Greet, Read
<1>2. CASE HangUp
  BY <1>2, ReadType DEF HangUp, Read
<1>3. CASE Type
  BY <1>3, ReadType DEF Type, Read
<1>4. CASE Bell
  BY <1>4, ReadType DEF Bell, Read
<1>5. CASE Enter
  BY <1>5, ReadType DEF Enter, Read
<1>6. CASE Poll
  BY <1>6, ReadType DEF Poll
<1>7. CASE CommandEnd
  <2>1. /\ running' \in BOOLEAN /\ line' \in BOOLEAN /\ txPc[Cli] = "idle"
        /\ UNCHANGED <<configured, txState, alive, underrun, tx_semaphore, rx_stream>>
    BY <1>7 DEF CommandEnd
  <2>2. /\ txPc' = [txPc EXCEPT ![Cli] = "check"]
        /\ left' = [left EXCEPT ![Cli] = 1] /\ 1 \in 0..MaxBatches
    BY <1>7 DEF CommandEnd
  <2>3. QED
    BY <2>1, <2>2
<1>8. QED
  BY <1>1, <1>2, <1>3, <1>4, <1>5, <1>6, <1>7 DEF CliThread

-----------------------------------------------------------------------------
(* The invariant holds in every reachable state.                           *)
THEOREM CliInvariance == CliInit /\ [][CliNext]_cliVars => []CliIInv
<1>1. CliInit => CliIInv
  <2> SUFFICES ASSUME CliInit PROVE CliIInv
    OBVIOUS
  <2>1. CliTypeOK
    <3>1. /\ configured \in BOOLEAN /\ txState \in BOOLEAN /\ alive \in BOOLEAN
          /\ underrun \in BOOLEAN /\ line \in BOOLEAN /\ running \in BOOLEAN
      BY DEF CliInit
    <3>2. /\ tx_semaphore = 1 /\ rx_stream = <<>> /\ txPc = [w \in Writers |-> "idle"]
          /\ left = [w \in Writers |-> 0] /\ 0 \in 0..MaxBatches
      BY CliAssumption DEF CliInit
    <3>3. QED
      BY <3>1, <3>2, CliAssumption DEF CliTypeOK
  <2>2. BatchLeft /\ PermitSomewhere
    BY DEF CliInit, BatchLeft, PermitSomewhere
  <2>3. QED
    BY <2>1, <2>2 DEF CliIInv
<1>2. CliIInv /\ [CliNext]_cliVars => CliIInv'
  <2> SUFFICES ASSUME CliIInv, [CliNext]_cliVars PROVE CliIInv'
    OBVIOUS
  <2>1. CASE CliNext
    BY <2>1, UsbStep, WriterStep, CliThreadStep DEF CliNext
  <2>2. CASE UNCHANGED cliVars
    BY <2>2 DEF cliVars, port, lineVars, CliIInv, CliTypeOK, BatchLeft, PermitSomewhere
  <2>3. QED
    BY <2>1, <2>2
<1>3. QED
  BY <1>1, <1>2, PTL

(* Every variable of the serial port and the CLI keeps its type: the input *)
(* stream within its buffer, the batches of a call within their number.    *)
THEOREM CliTypeCorrect == CliSpec => []CliTypeOK
<1>1. CliIInv => CliTypeOK
  BY DEF CliIInv
<1>2. QED
  BY <1>1, CliInvariance, PTL DEF CliSpec

(* However many threads write and whatever the host does, a thread that    *)
(* waits for the port of a configured device has somebody to wake it.      *)
THEOREM WritersAreNotStranded == CliSpec => []TxNotStranded
<1>1. CliIInv => TxNotStranded
  BY DEF CliIInv, CliTypeOK, PermitSomewhere, TxNotStranded
<1>2. QED
  BY <1>1, CliInvariance, PTL DEF CliSpec

-----------------------------------------------------------------------------
(* AppLoader.                                                              *)

(* The level and the register stay below 2^32 whatever the order of loads  *)
(* and stores.                                                             *)
LEMMA LevelArithmetic ==
  ASSUME NEW n \in 0..LevelMax
  PROVE  Inc(n) \in 0..LevelMax /\ Dec(n) \in 0..LevelMax
BY LoaderAssumption DEF Inc, Dec

(* The part of the loader's behaviours that its types need.                *)
THEOREM LoaderTypeInvariance == LoaderInit /\ [][LoaderNext]_loaderVars => []LoaderTypeOK
<1>1. LoaderInit => LoaderTypeOK
  <2> SUFFICES ASSUME LoaderInit PROVE LoaderTypeOK
    OBVIOUS
  <2>1. 0 \in 0..LevelMax
    BY LoaderAssumption
  <2>2. QED
    BY <2>1, LoaderAssumption
       DEF LoaderInit, LoaderTypeOK, StarterPcs, BodyPcs, OsThreads
<1>2. LoaderTypeOK /\ [LoaderNext]_loaderVars => LoaderTypeOK'
  <2> SUFFICES ASSUME LoaderTypeOK, [LoaderNext]_loaderVars PROVE LoaderTypeOK'
    OBVIOUS
  <2> USE LoaderAssumption DEF LoaderTypeOK, ThreadAt, ThreadGoto, StarterPcs, BodyPcs, OsThreads
  <2>1. ASSUME NEW c \in Starters, NEW e \in Entries[c], NEW a \in Apps, AskForApp(c, e, a)
        PROVE  LoaderTypeOK'
    BY <2>1 DEF AskForApp
  <2>2. ASSUME NEW c \in Starters, CheckStopped(c) PROVE LoaderTypeOK'
    BY <2>2 DEF CheckStopped
  <2>3. ASSUME NEW c \in Starters, InsomniaEnter(c) PROVE LoaderTypeOK'
    BY <2>3, LevelArithmetic DEF InsomniaEnter, Change
  <2>4. ASSUME NEW c \in Starters, Prepare(c) PROVE LoaderTypeOK'
    BY ZenonT(60), <2>4 DEF Prepare, Fail
  <2>5. ASSUME NEW c \in Starters, Start(c) \/ SetStarting(c) PROVE LoaderTypeOK'
    BY ZenonT(60), <2>5 DEF Start, SetStarting, Fail
  <2>6. ASSUME NEW c \in Starters, Create(c) PROVE LoaderTypeOK'
    BY <2>6 DEF Create, Fail
  <2>7. ASSUME NEW c \in Starters, FailInsomniaExit(c) PROVE LoaderTypeOK'
    BY <2>7, LevelArithmetic DEF FailInsomniaExit, Change
  <2>8. ASSUME NEW b \in Bodies, BodyBegin(b) PROVE LoaderTypeOK'
    <3>1. CASE Fail
      BY <2>8, <3>1 DEF Fail
    <3>2. CASE ~Fail
      <4>1. /\ threadState' = "running" /\ appOf' = [appOf EXCEPT ![b] = callback]
            /\ loaderPc' = [loaderPc EXCEPT ![b] = "run"]
            /\ UNCHANGED <<callback, currentApp, insomnia, register, entry, failed, overlapped>>
        BY <2>8, <3>2 DEF BodyBegin
      <4>2. appOf' \in [OsThreads -> Apps \union {NoApp}] /\ overlapped' \in BOOLEAN
        BY <4>1
      <4>3. loaderPc' \in [OsThreads -> StarterPcs \union BodyPcs]
        BY <4>1
      <4>4. /\ \A c \in Starters : loaderPc'[c] \in StarterPcs
            /\ \A o \in Bodies : loaderPc'[o] \in BodyPcs
        BY <4>1
      <4>5. QED
        BY <4>1, <4>2, <4>3, <4>4
    <3>3. QED
      BY <3>1, <3>2
  <2>9. ASSUME NEW b \in Bodies, Return(b) PROVE LoaderTypeOK'
    BY <2>9 DEF Return
  <2>10. ASSUME NEW b \in Bodies, BodyStop(b) PROVE LoaderTypeOK'
    BY <2>10 DEF BodyStop, Fail
  <2>11. ASSUME NEW b \in Bodies, InsomniaExit(b) PROVE LoaderTypeOK'
    BY <2>11, LevelArithmetic DEF InsomniaExit, Change
  <2>12. ASSUME NEW b \in Bodies, End(b) PROVE LoaderTypeOK'
    BY <2>12 DEF End
  <2>13. CASE UNCHANGED loaderVars
    BY <2>13 DEF loaderVars
  <2>14. QED
    BY <2>1, <2>2, <2>3, <2>4, <2>5, <2>6, <2>7, <2>8, <2>9, <2>10, <2>11, <2>12, <2>13
       DEF LoaderNext, StarterRuns, BodyRuns
<1>3. QED
  BY <1>1, <1>2, PTL

(* Every variable of the loader keeps its type.                            *)
THEOREM LoaderTypeCorrect == LoaderSpec => []LoaderTypeOK
BY LoaderTypeInvariance, PTL DEF LoaderSpec

-----------------------------------------------------------------------------
(* The inductive invariant, for any number of starters.                    *)

Alive(b) == loaderPc[b] \in {"begin", "run", "return"}

(* Without an overlap one starter at a time is past the check; nobody else *)
(* starts the thread object it has seen stopped, and between the           *)
(* preparation of osThreadNew and its result it is alone.                  *)
StarterHasThread ==
  \A c \in Starters :
    /\ PastCheck(c) => threadState = "stopped"
    /\ loaderPc[c] = "create" => threadState = "starting" /\ \A b \in Bodies : ~Alive(b)
    /\ loaderPc[c] \in {"start", "set", "create"} => callback = currentApp
    /\ \A d \in Starters \ {c} :
         /\ PastCheck(c) => ~PastCheck(d)
         /\ loaderPc[c] = "create" => loaderPc[d] # "create"

(* The state says where the one OS thread that is alive is.                *)
StateOfBody ==
  /\ threadState = "stopped" => \A b \in Bodies : ~Alive(b)
  /\ \A b \in Bodies :
       /\ loaderPc[b] = "begin" => threadState = "starting" /\ callback = currentApp
       /\ loaderPc[b] \in {"run", "return"} => threadState = "running"
       /\ loaderPc[b] = "run" => appOf[b] = currentApp
       /\ \A o \in Bodies \ {b} : Alive(b) => ~Alive(o)

LoaderIInv ==
  /\ LoaderTypeOK
  /\ ~overlapped => NoAssertFails /\ StarterHasThread /\ StateOfBody

(* A step of a starter keeps the invariant.                                *)
LEMMA StarterStep ==
  ASSUME NEW c \in Starters, LoaderIInv, LoaderTypeOK',
         \/ StarterRuns(c)
         \/ \E e \in Entries[c], a \in Apps : AskForApp(c, e, a)
  PROVE  LoaderIInv'
<1> USE LoaderAssumption
    DEF LoaderTypeOK, ThreadAt, ThreadGoto, OsThreads, Alive, LoaderIInv, NoAssertFails,
        StarterHasThread, StateOfBody, PastCheck
<1>1. ASSUME NEW e \in Entries[c], NEW a \in Apps, AskForApp(c, e, a) PROVE LoaderIInv'
  BY <1>1 DEF AskForApp
<1>2. CASE CheckStopped(c)
  BY <1>2 DEF CheckStopped
<1>3. CASE InsomniaEnter(c)
  BY <1>3 DEF InsomniaEnter, Change
<1>4. CASE Prepare(c)
  BY <1>4 DEF Prepare, Fail
<1>5. CASE Start(c)
  BY <1>5 DEF Start, Fail
<1>6. CASE SetStarting(c)
  BY <1>6 DEF SetStarting
<1>7. CASE Create(c)
  BY <1>7 DEF Create, Fail
<1>8. CASE FailInsomniaExit(c)
  BY <1>8 DEF FailInsomniaExit, Change
<1>9. QED
  BY <1>1, <1>2, <1>3, <1>4, <1>5, <1>6, <1>7, <1>8 DEF StarterRuns

(* So does a step of an application's thread.                              *)
LEMMA BodyStep ==
  ASSUME LoaderIInv, LoaderTypeOK', NEW b \in Bodies, BodyRuns(b) \/ Return(b)
  PROVE  LoaderIInv'
<1> USE LoaderAssumption
    DEF LoaderTypeOK, ThreadAt, ThreadGoto, OsThreads, Alive, LoaderIInv, NoAssertFails,
        StarterHasThread, StateOfBody, PastCheck
<1>1. CASE BodyBegin(b)
  BY <1>1 DEF BodyBegin, Fail
<1>2. CASE Return(b)
  BY <1>2 DEF Return
<1>3. CASE BodyStop(b)
  BY <1>3 DEF BodyStop, Fail
<1>4. CASE InsomniaExit(b)
  BY <1>4 DEF InsomniaExit, Change
<1>5. CASE End(b)
  BY <1>5 DEF End
<1>6. QED
  BY <1>1, <1>2, <1>3, <1>4, <1>5 DEF BodyRuns

(* The invariant holds in every reachable state.                           *)
THEOREM LoaderInvariance == LoaderSpec => []LoaderIInv
<1>1. LoaderInit /\ LoaderTypeOK => LoaderIInv
  BY LoaderAssumption DEF LoaderInit, LoaderIInv, NoAssertFails, StarterHasThread,
     StateOfBody, Alive, OsThreads, PastCheck
<1>2. LoaderIInv /\ LoaderTypeOK' /\ [LoaderNext]_loaderVars => LoaderIInv'
  <2> SUFFICES ASSUME LoaderIInv, LoaderTypeOK', [LoaderNext]_loaderVars
               PROVE  LoaderIInv'
    OBVIOUS
  <2>1. CASE LoaderNext
    BY <2>1, StarterStep, BodyStep DEF LoaderNext
  <2>2. CASE UNCHANGED loaderVars
    BY <2>2 DEF loaderVars, LoaderIInv, LoaderTypeOK, NoAssertFails, StarterHasThread,
                StateOfBody, Alive, PastCheck
  <2>3. QED
    BY <2>1, <2>2
<1>3. QED
  BY <1>1, <1>2, LoaderTypeCorrect, PTL DEF LoaderSpec

(* Whatever the number of threads that start applications, a furi_assert of *)
(* thread.c can only fail after two of them have been past the loader's    *)
(* check together.                                                         *)
THEOREM AssertionsNeedOverlap == LoaderSpec => []FailsOnlyByOverlap
<1>1. LoaderIInv => FailsOnlyByOverlap
  BY DEF LoaderIInv, FailsOnlyByOverlap, NoAssertFails
<1>2. QED
  BY <1>1, LoaderInvariance, PTL

(* Until then one application runs at a time, and it is the one the loader *)
(* names.                                                                  *)
THEOREM OneAppRuns == LoaderSpec => []OneApp
<1>1. LoaderIInv => OneApp
  BY DEF LoaderIInv, StateOfBody, OneApp, Alive
<1>2. QED
  BY <1>1, LoaderInvariance, PTL

-----------------------------------------------------------------------------
(* SdDialogs: the inductive invariant.                                     *)

(* Where the service's thread is in a handler says what is on the screen.  *)
ScreenOfHandler ==
  /\ appPc \in {"loop", "alloc", "refuse", "accept", "format", "eject"} =>
       holder = (IF sdState = "background" THEN "none" ELSE "shown")
  /\ appPc \in {"accept", "format", "eject"} => sdState # "background"
  /\ appPc = "attach" => holder = "none" /\ sdState = "background"
  /\ appPc \in {"list", "own_back", "show"} => holder = "hidden" /\ sdState = "background"
  /\ appPc = "refuse_reset" => holder # "none"
  /\ appPc \in {"alloc", "attach", "show"} => handled \in Screens
  /\ appPc \in {"list", "own_back"} => handled = "file_select"

(* A client's request is in one place: in the queue, in a handler, on the  *)
(* screen or answered; and that client waits.                              *)
Some(S) == \E i \in DOMAIN events : events[i] \in S
AtMostOne(S) == \A i, j \in DOMAIN events : events[i] \in S /\ events[j] \in S => i = j

InQueue == Some({"file_select"})
InHandler ==
  \/ appPc \in {"accept", "refuse", "refuse_reset", "list", "own_back"}
  \/ appPc \in {"alloc", "attach", "show"} /\ handled = "file_select"
OnScreen == appPc \in {"loop", "alloc", "refuse"} /\ sdState = "file_select"

OneRequest ==
  /\ AtMostOne({"file_select"}) /\ keyPc # "file_select"
  /\ InQueue \/ InHandler \/ OnScreen \/ answers # <<>> => clientPc = "wait"
  /\ ~(InQueue /\ InHandler) /\ ~(InQueue /\ OnScreen) /\ ~(InQueue /\ answers # <<>>)
  /\ ~(InHandler /\ OnScreen) /\ ~(InHandler /\ answers # <<>>) /\ ~(OnScreen /\ answers # <<>>)

(* While every key waited for the answer to the last one, at most one that *)
(* may close the screen is on its way, and the screen it was pressed on is *)
(* there until it is handled.                                              *)
Closers == {"ok", "back", "list"}
BackComes == keyPc \in {"back", "list"} \/ Some({"back"})

OneClosing ==
  /\ ~faulted
  /\ appPc = "stop" => holder # "none"
  /\ AtMostOne(Closers)
  /\ keyPc \in Closers => ~Some(Closers)
  /\ BackComes => sdState # "background" /\ appPc \in {"loop", "alloc", "refuse"}

DialogsIInv ==
  /\ DialogsTypeOK /\ ScreenOfHandler /\ OneRequest
  /\ ~doubled => OneClosing

-----------------------------------------------------------------------------
(* NfcApp: the inductive invariant.                                        *)

(* Only the searches report.                                               *)
SearchesReport ==
  \A w \in Workers : workerPc[w] \in {"hello", "search", "report"} => mode[w] \in Searches

(* A worker that may be started has no other beside it.                    *)
NoWorkerRuns == \A w \in Workers : workerPc[w] = "none"
Alone ==
  /\ OneWorker
  /\ nfcState \in {"ready", "broken"} => NoWorkerRuns
  /\ nfcPc = "start" => nfcState = "ready"

(* The queue keeps the reports in order: all stale ones before the others. *)
FreshAt(i) == nfcQueue[i].type = "report" /\ ~nfcQueue[i].stale
StaleAt(i) == nfcQueue[i].type = "report" /\ nfcQueue[i].stale
HasFresh == \E i \in DOMAIN nfcQueue : FreshAt(i)
HasStale == \E i \in DOMAIN nfcQueue : StaleAt(i)
FreshOf(m) == \A i \in DOMAIN nfcQueue : FreshAt(i) => nfcQueue[i].mode = m
InOrder == \A i, j \in DOMAIN nfcQueue : StaleAt(i) /\ FreshAt(j) => i < j

(* Once a worker has updated the screen, a stale report or an old find is  *)
(* followed by a report of its own.                                        *)
Updated(w) == workerPc[w] = "search" \/ (mode[w] = "detect" /\ workerPc[w] \in {"loop", "report"})
Follows(w) ==
  /\ workerPc[w] = "begin" => ~HasFresh
  /\ workerPc[w] \notin {"none", "begin"} => FreshOf(mode[w])
  /\ Updated(w) => HasFresh \/ (~HasStale /\ found[mode[w]] # "old")

NfcTypes == NfcTypeOK /\ SearchesReport
NfcIInv == NfcTypes /\ Alone /\ InOrder /\ \A w \in Workers : Follows(w)

-----------------------------------------------------------------------------
(* An element put at the end of a queue, and one taken from its head.      *)
LEMMA QueuePut ==
  ASSUME NEW T, NEW q \in Seq(T), NEW e \in T
  PROVE  /\ Append(q, e) \in Seq(T) /\ Len(Append(q, e)) = Len(q) + 1 /\ Len(q) \in Nat
         /\ DOMAIN q = 1..Len(q) /\ DOMAIN Append(q, e) = 1..(Len(q) + 1)
         /\ Append(q, e)[Len(q) + 1] = e /\ \A i \in 1..Len(q) : Append(q, e)[i] = q[i]
OBVIOUS

LEMMA QueueTake ==
  ASSUME NEW T, NEW q \in Seq(T), q # <<>>
  PROVE  /\ Tail(q) \in Seq(T) /\ Len(Tail(q)) = Len(q) - 1 /\ Len(q) \in Nat /\ Len(q) >= 1
         /\ DOMAIN q = 1..Len(q) /\ DOMAIN Tail(q) = 1..(Len(q) - 1)
         /\ Head(q) = q[1] /\ q[1] \in T
         /\ \A i \in 1..(Len(q) - 1) : Tail(q)[i] = q[i + 1] /\ i + 1 \in 1..Len(q)
OBVIOUS

(* The same for the events of the SD card service.                         *)
LEMMA EventPut ==
  ASSUME DialogsTypeOK, NEW e \in Events, CanPut, events' = Append(events, e)
  PROVE  /\ events' \in Seq(Events) /\ Len(events') <= EventMax
         /\ \A S : Some(S)' <=> Some(S) \/ e \in S
         /\ \A S : AtMostOne(S) /\ (Some(S) => e \notin S) => AtMostOne(S)'
<1> DEFINE n == Len(events)
<1>1. /\ events' \in Seq(Events) /\ Len(events') = n + 1 /\ n \in Nat
      /\ DOMAIN events = 1..n /\ DOMAIN events' = 1..(n + 1)
      /\ events'[n + 1] = e /\ \A i \in 1..n : events'[i] = events[i]
  BY QueuePut DEF DialogsTypeOK
<1>2. n < EventMax /\ EventMax \in Nat
  BY DialogsAssumption DEF CanPut
<1> HIDE DEF n
<1>3. ASSUME NEW S
      PROVE  Some(S)' <=> Some(S) \/ e \in S
  <2>1. Some(S) => Some(S)'
    BY <1>1 DEF Some
  <2>2. e \in S => Some(S)'
    BY <1>1 DEF Some
  <2>3. Some(S)' => Some(S) \/ e \in S
    BY <1>1 DEF Some
  <2>4. QED
    BY <2>1, <2>2, <2>3
<1>4. ASSUME NEW S, AtMostOne(S), Some(S) => e \notin S
      PROVE  AtMostOne(S)'
  BY <1>1, <1>4 DEF AtMostOne, Some
<1>5. QED
  BY <1>1, <1>2, <1>3, <1>4

LEMMA EventTaken ==
  ASSUME DialogsTypeOK, events # <<>>, events' = Tail(events)
  PROVE  /\ events' \in Seq(Events) /\ Len(events') <= EventMax
         /\ Head(events) \in Events
         /\ \A S : (Head(events) \in S => Some(S)) /\ (Some(S)' => Some(S))
         /\ \A S : AtMostOne(S) => AtMostOne(S)' /\ (Head(events) \in S => ~Some(S)')
<1> DEFINE n == Len(events)
<1>1. /\ events' \in Seq(Events) /\ Len(events') = n - 1 /\ n \in Nat /\ n >= 1 /\ n <= EventMax
      /\ DOMAIN events = 1..n /\ DOMAIN events' = 1..(n - 1)
      /\ Head(events) = events[1] /\ events[1] \in Events
      /\ \A i \in 1..(n - 1) : events'[i] = events[i + 1] /\ i + 1 \in 1..n
  BY QueueTake DEF DialogsTypeOK
<1>2. EventMax \in Nat
  BY DialogsAssumption
<1> HIDE DEF n
<1>3. ASSUME NEW S
      PROVE  (Head(events) \in S => Some(S)) /\ (Some(S)' => Some(S))
  BY <1>1 DEF Some
<1>4. ASSUME NEW S, AtMostOne(S)
      PROVE  AtMostOne(S)' /\ (Head(events) \in S => ~Some(S)')
  <2>1. AtMostOne(S)'
    <3>1. SUFFICES ASSUME NEW i \in 1..(n - 1), NEW j \in 1..(n - 1), events'[i] \in S, events'[j] \in S
                   PROVE  i = j
      BY <1>1 DEF AtMostOne
    <3>2. i + 1 = j + 1
      BY <1>1, <1>4, <3>1 DEF AtMostOne
    <3>3. QED
      BY <3>2
  <2>2. ASSUME Head(events) \in S, NEW i \in 1..(n - 1), events'[i] \in S
        PROVE  FALSE
    <3>1. i + 1 = 1
      BY <1>1, <1>4, <2>2 DEF AtMostOne
    <3>2. QED
      BY <3>1
  <2>3. QED
    BY <1>1, <2>1, <2>2 DEF Some
<1>5. QED
  BY <1>1, <1>2, <1>3, <1>4

-----------------------------------------------------------------------------
(* Steps that leave the queue of events alone.                             *)
LEMMA SameEvents ==
  ASSUME UNCHANGED events
  PROVE  \A S : (Some(S)' <=> Some(S)) /\ (AtMostOne(S)' <=> AtMostOne(S))
BY DEF Some, AtMostOne

(* The service takes an event.                                             *)
LEMMA TakeEventStep == ASSUME DialogsIInv, TakeEvent PROVE DialogsIInv'
<1> DEFINE e == Head(events)
<1>1. /\ appPc = "loop" /\ ~faulted /\ events # <<>> /\ handled' = e /\ events' = Tail(events)
      /\ UNCHANGED <<sdState, holder, answers, mounted, tableLock, guiMutex, keyPc, clientPc,
                     answer, faulted, doubled>>
      /\ appPc' = HandlerOf(e) \/ (e = "file_select" /\ appPc' = "refuse")
  BY DEF TakeEvent, locks, others
<1>2. /\ events' \in Seq(Events) /\ Len(events') <= EventMax /\ e \in Events
      /\ \A S : (e \in S => Some(S)) /\ (Some(S)' => Some(S))
      /\ \A S : AtMostOne(S) => AtMostOne(S)' /\ (e \in S => ~Some(S)')
  BY <1>1, EventTaken DEF DialogsIInv
<1> HIDE DEF e
<1>3. \/ appPc' = "format" /\ e = "ok" /\ sdState = "format"
      \/ appPc' = "eject" /\ e = "ok" /\ sdState = "eject"
      \/ appPc' = "accept" /\ e = "ok" /\ sdState = "file_select"
      \/ appPc' = "loop" /\ e \in {"ok", "error"}
      \/ appPc' = "refuse_reset" /\ e = "back" /\ sdState = "file_select"
      \/ appPc' = "stop" /\ e = "back" /\ sdState # "file_select"
      \/ appPc' = "refuse" /\ e = "file_select"
      \/ appPc' = "alloc" /\ e \in Screens
  <2>1. CASE appPc' = HandlerOf(e) /\ e = "ok"
    <3>1. HandlerOf("ok") = IF sdState = "file_select" THEN "accept"
                            ELSE IF sdState \in {"format", "eject"} THEN sdState ELSE "loop"
      BY Zenon DEF HandlerOf
    <3>2. QED
      BY <2>1, <3>1
  <2>2. CASE appPc' = HandlerOf(e) /\ e = "back"
    <3>1. HandlerOf("back") = IF sdState = "file_select" THEN "refuse_reset" ELSE "stop"
      BY Zenon DEF HandlerOf
    <3>2. QED
      BY <2>2, <3>1
  <2>3. CASE appPc' = HandlerOf(e) /\ e = "error"
    <3>1. HandlerOf("error") = IF mounted THEN "loop" ELSE "alloc"
      BY Zenon DEF HandlerOf
    <3>2. QED
      BY <2>3, <3>1 DEF Screens
  <2>4. CASE appPc' = HandlerOf(e) /\ e \in Screens \ {"error"}
    <3>1. HandlerOf(e) = "alloc"
      BY <2>4 DEF HandlerOf, Screens, Asks
    <3>2. QED
      BY <2>4, <3>1
  <2>5. QED
    BY <1>1, <1>2, <2>1, <2>2, <2>3, <2>4 DEF Events
<1>4. DialogsTypeOK'
  BY <1>1, <1>2, <1>3 DEF DialogsIInv, DialogsTypeOK
<1>5. ScreenOfHandler'
  BY <1>1, <1>3 DEF DialogsIInv, ScreenOfHandler
<1>6. OneRequest'
  BY <1>1, <1>2, <1>3 DEF DialogsIInv, OneRequest, InQueue, InHandler, OnScreen
<1>7. ASSUME ~doubled
      PROVE  OneClosing'
  <2>1. OneClosing /\ ScreenOfHandler
    BY <1>7 DEF DialogsIInv
  <2>2. e \in {"ok", "back"} => ~Some(Closers)' /\ keyPc \notin Closers
    BY <1>2, <2>1 DEF OneClosing, Closers
  <2>3. Some({"back"})' => Some(Closers)'
    BY DEF Some, Closers
  <2>4. e = "back" => holder = "shown"
    BY <1>1, <1>2, <2>1 DEF OneClosing, ScreenOfHandler, BackComes
  <2>5. QED
    BY <1>1, <1>2, <1>3, <2>1, <2>2, <2>3, <2>4 DEF OneClosing, BackComes, Closers
<1>8. QED
  BY <1>1, <1>4, <1>5, <1>6, <1>7 DEF DialogsIInv

(* It takes a screen or finds it taken.                                    *)
LEMMA AllocStep == ASSUME DialogsIInv, Alloc PROVE DialogsIInv'
<1>1. /\ appPc = "alloc"
      /\ \/ holder = "none" /\ tableLock' = "main" /\ appPc' = "attach"
         \/ /\ holder # "none" /\ UNCHANGED tableLock
            /\ appPc' = IF handled = "file_select" THEN "refuse" ELSE "loop"
      /\ UNCHANGED <<sdState, holder, events, answers, mounted, guiMutex, handled, keyPc, clientPc,
                     answer, doubled, faulted>>
  BY DEF Alloc, others
<1>2. \A S : (Some(S)' <=> Some(S)) /\ (AtMostOne(S)' <=> AtMostOne(S))
  BY <1>1, SameEvents
<1>3. DialogsTypeOK' /\ ScreenOfHandler'
  BY <1>1 DEF DialogsIInv, DialogsTypeOK, ScreenOfHandler
<1>4. OneRequest'
  BY <1>1, <1>2 DEF DialogsIInv, OneRequest, InQueue, InHandler, OnScreen, ScreenOfHandler
<1>5. OneClosing => OneClosing'
  BY <1>1, <1>2 DEF DialogsIInv, OneClosing, BackComes, ScreenOfHandler
<1>6. QED
  BY <1>1, <1>3, <1>4, <1>5 DEF DialogsIInv

(* It puts the dialog on the screen.                                       *)
LEMMA ShowSteps == ASSUME DialogsIInv, Attach \/ ListFiles \/ Show PROVE DialogsIInv'
<1>1. /\ UNCHANGED <<events, answers, mounted, guiMutex, handled, keyPc, clientPc, answer,
                     doubled, faulted>>
      /\ \/ /\ appPc = "attach" /\ holder' = "hidden" /\ tableLock' = "none" /\ sdState' = sdState
            /\ appPc' = IF handled = "file_select" THEN "list" ELSE "show"
         \/ /\ appPc = "list" /\ UNCHANGED <<sdState, holder, tableLock>>
            /\ appPc' = "show" \/ appPc' = "own_back"
         \/ /\ appPc = "show" /\ holder' = "shown" /\ sdState' = handled /\ appPc' = "loop"
            /\ UNCHANGED tableLock
  BY DEF Attach, ListFiles, Show, others, locks
<1>2. \A S : (Some(S)' <=> Some(S)) /\ (AtMostOne(S)' <=> AtMostOne(S))
  BY <1>1, SameEvents
<1>3. DialogsTypeOK' /\ ScreenOfHandler'
  BY <1>1 DEF DialogsIInv, DialogsTypeOK, ScreenOfHandler, States, Screens, Asks
<1>4. OneRequest'
  BY <1>1, <1>2 DEF DialogsIInv, OneRequest, InQueue, InHandler, OnScreen
<1>5. OneClosing => OneClosing'
  BY <1>1, <1>2 DEF OneClosing, BackComes
<1>6. QED
  BY <1>1, <1>3, <1>4, <1>5 DEF DialogsIInv

(* A list that cannot be read reports a Back of its own.                   *)
LEMMA OwnBackStep == ASSUME DialogsIInv, OwnBack PROVE DialogsIInv'
<1>1. /\ appPc = "own_back" /\ appPc' = "refuse_reset" /\ CanPut /\ events' = Append(events, "back")
      /\ UNCHANGED <<sdState, holder, answers, mounted, tableLock, guiMutex, handled, keyPc,
                     clientPc, answer, faulted>>
      /\ doubled' = TRUE
  BY DEF OwnBack, others, locks
<1>2. /\ events' \in Seq(Events) /\ Len(events') <= EventMax
      /\ Some({"file_select"})' <=> Some({"file_select"})
      /\ AtMostOne({"file_select"}) => AtMostOne({"file_select"})'
  <2>1. "back" \in Events
    BY DEF Events
  <2>2. QED
    BY <1>1, <2>1, EventPut DEF DialogsIInv
<1>3. DialogsTypeOK' /\ ScreenOfHandler'
  BY <1>1, <1>2 DEF DialogsIInv, DialogsTypeOK, ScreenOfHandler
<1>4. OneRequest'
  BY <1>1, <1>2 DEF DialogsIInv, OneRequest, InQueue, InHandler, OnScreen
<1>5. QED
  BY <1>1, <1>3, <1>4 DEF DialogsIInv

(* It answers the client.                                                  *)
LEMMA AnswerStep == ASSUME DialogsIInv, Answer PROVE DialogsIInv'
<1>1. /\ appPc \in {"accept", "refuse", "refuse_reset"} /\ answers' = <<appPc = "accept">>
      /\ appPc' = IF appPc = "refuse" THEN "loop" ELSE "stop"
      /\ UNCHANGED <<sdState, holder, events, mounted, tableLock, guiMutex, handled, keyPc,
                     clientPc, answer, doubled, faulted>>
  BY DEF Answer, others, locks
<1>2. \A S : (Some(S)' <=> Some(S)) /\ (AtMostOne(S)' <=> AtMostOne(S))
  BY <1>1, SameEvents
<1>3. answers' \in Seq(BOOLEAN) /\ Len(answers') <= 1
  <2>1. (appPc = "accept") \in BOOLEAN
    OBVIOUS
  <2>2. QED
    BY <1>1, <2>1
<1>4. DialogsTypeOK' /\ ScreenOfHandler'
  BY <1>1, <1>3 DEF DialogsIInv, DialogsTypeOK, ScreenOfHandler
<1>5. OneRequest'
  <2>1. InHandler /\ ~InHandler' /\ ~OnScreen'
    BY <1>1 DEF DialogsIInv, OneRequest, InHandler, OnScreen
  <2>2. InQueue' <=> InQueue
    BY <1>2 DEF InQueue
  <2>3. QED
    BY <1>1, <1>2, <2>1, <2>2 DEF DialogsIInv, OneRequest
<1>6. OneClosing => OneClosing'
  BY <1>1, <1>2 DEF DialogsIInv, OneClosing, BackComes, ScreenOfHandler
<1>7. QED
  BY <1>1, <1>4, <1>5, <1>6 DEF DialogsIInv

(* It takes the screen away: app_reset_state.                              *)
LEMMA ResetSteps == ASSUME DialogsIInv, Stop \/ FreeHolder \/ Detach PROVE DialogsIInv'
<1>1. /\ UNCHANGED <<events, answers, mounted, guiMutex, handled, keyPc, clientPc, answer, doubled>>
      /\ \/ /\ appPc = "stop" /\ holder = "none" /\ faulted' = TRUE
            /\ UNCHANGED <<sdState, holder, tableLock, appPc>>
         \/ /\ appPc = "stop" /\ holder # "none" /\ holder' = "hidden" /\ appPc' = "free"
            /\ UNCHANGED <<sdState, tableLock, faulted>>
         \/ /\ appPc = "free" /\ tableLock' = "main" /\ appPc' = "detach"
            /\ UNCHANGED <<sdState, holder, faulted>>
         \/ /\ appPc = "detach" /\ tableLock' = "none" /\ holder' = "none" /\ appPc' = "loop"
            /\ sdState' = "background" /\ UNCHANGED faulted
  BY DEF Stop, FreeHolder, Detach, others, locks
<1>2. \A S : (Some(S)' <=> Some(S)) /\ (AtMostOne(S)' <=> AtMostOne(S))
  BY <1>1, SameEvents
<1>3. DialogsTypeOK' /\ ScreenOfHandler'
  <2>1. DialogsTypeOK'
    BY <1>1 DEF DialogsIInv, DialogsTypeOK, States
  <2>2. ScreenOfHandler'
    BY <1>1 DEF DialogsIInv, ScreenOfHandler
  <2>3. QED
    BY <2>1, <2>2
<1>4. OneRequest'
  BY <1>1, <1>2 DEF DialogsIInv, OneRequest, InQueue, InHandler, OnScreen
<1>5. OneClosing => OneClosing'
  BY <1>1, <1>2 DEF OneClosing, BackComes
<1>6. QED
  BY <1>1, <1>3, <1>4, <1>5 DEF DialogsIInv

(* It formats or unmounts the card, or looks whether there is one.         *)
LEMMA CardSteps == ASSUME DialogsIInv, FormatOrEject \/ Detect PROVE DialogsIInv'
<1>1. /\ UNCHANGED <<holder, events, answers, tableLock, guiMutex, handled, keyPc, clientPc, answer,
                     doubled, faulted>>
      /\ mounted' \in BOOLEAN
      /\ \/ /\ appPc \in {"format", "eject"} /\ appPc' = "loop"
            /\ sdState' = (IF appPc = "format" THEN "completed" ELSE "ejected")
         \/ UNCHANGED <<appPc, sdState>>
  BY DEF FormatOrEject, Detect, others, locks
<1>2. \A S : (Some(S)' <=> Some(S)) /\ (AtMostOne(S)' <=> AtMostOne(S))
  BY <1>1, SameEvents
<1>3. DialogsTypeOK' /\ ScreenOfHandler'
  BY <1>1 DEF DialogsIInv, DialogsTypeOK, ScreenOfHandler, States
<1>4. OneRequest'
  BY <1>1, <1>2 DEF DialogsIInv, OneRequest, InQueue, InHandler, OnScreen
<1>5. OneClosing => OneClosing'
  BY <1>1, <1>2 DEF OneClosing, BackComes
<1>6. QED
  BY <1>1, <1>3, <1>4, <1>5 DEF DialogsIInv

(* The user presses a key of the screen there is.                          *)
LEMMA PressStep == ASSUME DialogsIInv, NEW k \in Events \union {"list"}, PressKey(k) PROVE DialogsIInv'
<1>1. /\ keyPc = "idle" /\ guiMutex = "none" /\ k \in Keys /\ keyPc' = k /\ guiMutex' = "gui"
      /\ doubled' = (doubled \/ ~Answered)
      /\ UNCHANGED <<sdState, holder, events, answers, mounted, tableLock, appPc, handled, clientPc,
                     answer, faulted>>
  BY DEF PressKey, service
<1>2. \A S : (Some(S)' <=> Some(S)) /\ (AtMostOne(S)' <=> AtMostOne(S))
  BY <1>1, SameEvents
<1>3. DialogsTypeOK' /\ ScreenOfHandler'
  BY <1>1 DEF DialogsIInv, DialogsTypeOK, ScreenOfHandler
<1>4. OneRequest'
  BY <1>1, <1>2 DEF DialogsIInv, OneRequest, InQueue, InHandler, OnScreen, Keys, Asks
<1>5. ASSUME ~doubled'
      PROVE  OneClosing'
  <2>1. OneClosing /\ ScreenOfHandler /\ appPc = "loop"
    BY <1>1, <1>5 DEF DialogsIInv, Answered
  <2>2. ~Some(Closers) /\ ~Some({"back"})
    BY <1>1, <1>5 DEF Some, Closers, Answered
  <2>3. k \in {"back", "list"} => sdState # "background"
    BY <1>1, <2>1 DEF Keys, Asks, ScreenOfHandler
  <2>4. QED
    BY <1>1, <1>2, <2>1, <2>2, <2>3 DEF OneClosing, BackComes
<1>6. QED
  BY <1>1, <1>3, <1>4, <1>5 DEF DialogsIInv

(* The GUI thread puts the key's event, or scrolls the list of files.      *)
LEMMA PutKeyStep == ASSUME DialogsIInv, PutKey PROVE DialogsIInv'
<1>1. /\ keyPc \in Events /\ CanPut /\ events' = Append(events, keyPc)
      /\ keyPc' = "idle" /\ guiMutex' = "none"
      /\ UNCHANGED <<sdState, holder, answers, mounted, tableLock, appPc, handled, clientPc,
                     answer, doubled, faulted>>
  BY DEF PutKey, service
<1>2. /\ events' \in Seq(Events) /\ Len(events') <= EventMax
      /\ \A S : Some(S)' <=> Some(S) \/ keyPc \in S
      /\ \A S : AtMostOne(S) /\ (Some(S) => keyPc \notin S) => AtMostOne(S)'
  BY <1>1, EventPut DEF DialogsIInv
<1>3. DialogsTypeOK' /\ ScreenOfHandler'
  BY <1>1, <1>2 DEF DialogsIInv, DialogsTypeOK, ScreenOfHandler
<1>4. OneRequest'
  BY <1>1, <1>2 DEF DialogsIInv, OneRequest, InQueue, InHandler, OnScreen
<1>5. OneClosing => OneClosing'
  <2>1. SUFFICES ASSUME OneClosing PROVE OneClosing'
    OBVIOUS
  <2>2. AtMostOne(Closers)'
    BY <1>2, <2>1 DEF OneClosing
  <2>3. BackComes' => BackComes
    BY <1>1, <1>2 DEF BackComes
  <2>4. QED
    BY <1>1, <2>1, <2>2, <2>3 DEF OneClosing, Closers
<1>6. QED
  BY <1>1, <1>3, <1>4, <1>5 DEF DialogsIInv

LEMMA ScrollStep == ASSUME DialogsIInv, Scroll PROVE DialogsIInv'
<1>1. /\ keyPc = "list"
      /\ \/ keyPc' = "idle" /\ guiMutex' = "none"
         \/ keyPc' = "back" /\ UNCHANGED guiMutex
      /\ UNCHANGED <<sdState, holder, events, answers, mounted, tableLock, appPc, handled, clientPc,
                     answer, doubled, faulted>>
  BY DEF Scroll, service
<1>2. \A S : (Some(S)' <=> Some(S)) /\ (AtMostOne(S)' <=> AtMostOne(S))
  BY <1>1, SameEvents
<1>3. DialogsTypeOK' /\ ScreenOfHandler'
  BY <1>1 DEF DialogsIInv, DialogsTypeOK, ScreenOfHandler, Events
<1>4. OneRequest'
  BY <1>1, <1>2 DEF DialogsIInv, OneRequest, InQueue, InHandler, OnScreen
<1>5. OneClosing => OneClosing'
  BY <1>1, <1>2 DEF OneClosing, BackComes, Closers
<1>6. QED
  BY <1>1, <1>3, <1>4, <1>5 DEF DialogsIInv

(* A client asks, puts its request or its error, and gets the answer.      *)
LEMMA AskStep == ASSUME DialogsIInv, Ask PROVE DialogsIInv'
<1>1. /\ clientPc = "idle" /\ clientPc' = "ask"
      /\ UNCHANGED <<sdState, holder, events, answers, mounted, tableLock, guiMutex, appPc, handled,
                     keyPc, faulted, doubled, answer>>
  BY DEF Ask, rest, locks
<1>2. \A S : (Some(S)' <=> Some(S)) /\ (AtMostOne(S)' <=> AtMostOne(S))
  BY <1>1, SameEvents
<1>3. DialogsTypeOK' /\ ScreenOfHandler'
  BY <1>1 DEF DialogsIInv, DialogsTypeOK, ScreenOfHandler
<1>4. OneRequest'
  BY <1>1, <1>2 DEF DialogsIInv, OneRequest, InQueue, InHandler, OnScreen
<1>5. OneClosing => OneClosing'
  BY <1>1, <1>2 DEF OneClosing, BackComes
<1>6. QED
  BY <1>1, <1>3, <1>4, <1>5 DEF DialogsIInv

LEMMA PutAskStep == ASSUME DialogsIInv, PutAsk PROVE DialogsIInv'
<1> DEFINE e == IF clientPc = "ask" THEN "file_select" ELSE "error"
<1>1. /\ clientPc \in {"ask", "check"} /\ CanPut /\ events' = Append(events, e)
      /\ clientPc' = IF clientPc = "ask" THEN "wait" ELSE "idle"
      /\ UNCHANGED <<sdState, holder, answers, mounted, tableLock, guiMutex, appPc, handled,
                     keyPc, faulted, doubled, answer>>
  BY DEF PutAsk, rest, locks
<1>2. e \in Events /\ e \notin Closers
  BY DEF Events, Screens, Closers
<1>3. /\ events' \in Seq(Events) /\ Len(events') <= EventMax
      /\ \A S : Some(S)' <=> Some(S) \/ e \in S
      /\ \A S : AtMostOne(S) /\ (Some(S) => e \notin S) => AtMostOne(S)'
  BY <1>1, <1>2, EventPut DEF DialogsIInv
<1>4. DialogsTypeOK' /\ ScreenOfHandler'
  BY <1>1, <1>3 DEF DialogsIInv, DialogsTypeOK, ScreenOfHandler
<1>5. OneRequest'
  <2>1. ~InQueue /\ ~InHandler /\ ~OnScreen /\ answers = <<>>
    BY <1>1 DEF DialogsIInv, OneRequest
  <2>2. ~InHandler' /\ ~OnScreen' /\ answers' = <<>>
    BY <1>1, <2>1 DEF InHandler, OnScreen
  <2>3. InQueue' <=> clientPc = "ask"
    BY <1>3, <2>1 DEF InQueue
  <2>4. AtMostOne({"file_select"})' /\ keyPc' # "file_select"
    BY <1>1, <1>3, <2>1 DEF DialogsIInv, OneRequest, InQueue
  <2>5. QED
    BY <1>1, <2>2, <2>3, <2>4 DEF OneRequest
<1>6. OneClosing => OneClosing'
  <2>1. (Some(Closers)' <=> Some(Closers)) /\ (Some({"back"})' <=> Some({"back"}))
    BY <1>2, <1>3 DEF Closers
  <2>2. AtMostOne(Closers) => AtMostOne(Closers)'
    BY <1>2, <1>3
  <2>3. QED
    BY <1>1, <2>1, <2>2 DEF OneClosing, BackComes
<1>7. QED
  BY <1>1, <1>4, <1>5, <1>6 DEF DialogsIInv

LEMMA GetAnswerStep == ASSUME DialogsIInv, GetAnswer PROVE DialogsIInv'
<1>1. /\ clientPc = "wait" /\ answers # <<>>
      /\ answer' = Head(answers) /\ answers' = Tail(answers)
      /\ clientPc' \in {"idle", "check"}
      /\ UNCHANGED <<sdState, holder, events, mounted, tableLock, guiMutex, appPc, handled,
                     keyPc, faulted, doubled>>
  BY DEF GetAnswer, rest, locks
<1>2. \A S : (Some(S)' <=> Some(S)) /\ (AtMostOne(S)' <=> AtMostOne(S))
  BY <1>1, SameEvents
<1>3. answers' \in Seq(BOOLEAN) /\ answers' = <<>> /\ answer' \in BOOLEAN
  BY <1>1 DEF DialogsIInv, DialogsTypeOK
<1>4. DialogsTypeOK' /\ ScreenOfHandler'
  BY <1>1, <1>3 DEF DialogsIInv, DialogsTypeOK, ScreenOfHandler
<1>5. OneRequest'
  BY <1>1, <1>2, <1>3 DEF DialogsIInv, OneRequest, InQueue, InHandler, OnScreen
<1>6. OneClosing => OneClosing'
  BY <1>1, <1>2 DEF OneClosing, BackComes
<1>7. QED
  BY <1>1, <1>4, <1>5, <1>6 DEF DialogsIInv

-----------------------------------------------------------------------------
(* The service starts in the background, nothing asked of it.              *)
LEMMA DialogsIInvInit == DialogsInit => DialogsIInv
<1>1. SUFFICES ASSUME DialogsInit PROVE DialogsIInv
  OBVIOUS
<1>2. DialogsTypeOK
  <2>1. /\ events \in Seq(Events) /\ Len(events) <= EventMax
        /\ answers \in Seq(BOOLEAN) /\ Len(answers) <= 1
    BY <1>1, DialogsAssumption DEF DialogsInit
  <2>2. {mounted, answer, faulted, doubled} \subseteq BOOLEAN
    BY <1>1 DEF DialogsInit
  <2>3. /\ sdState \in States /\ handled \in Events
        /\ keyPc \in {"idle", "list"} \union Events
    BY <1>1 DEF DialogsInit, States, Events
  <2>4. QED
    BY <1>1, <2>1, <2>2, <2>3 DEF DialogsInit, DialogsTypeOK
<1>3. ScreenOfHandler
  BY <1>1 DEF DialogsInit, ScreenOfHandler
<1>4. \A S : ~Some(S) /\ AtMostOne(S)
  BY <1>1 DEF DialogsInit, Some, AtMostOne
<1>5. OneRequest /\ OneClosing
  BY <1>1, <1>4 DEF DialogsInit, OneRequest, OneClosing, InQueue, InHandler, OnScreen, BackComes,
                    Closers
<1>6. QED
  BY <1>2, <1>3, <1>5 DEF DialogsIInv

LEMMA DialogsIInvStep == DialogsIInv /\ [DialogsNext]_dialogsVars => DialogsIInv'
<1>1. SUFFICES ASSUME DialogsIInv, [DialogsNext]_dialogsVars PROVE DialogsIInv'
  OBVIOUS
<1>2. CASE AppStep
  BY <1>1, <1>2, TakeEventStep, AllocStep, ShowSteps, OwnBackStep, AnswerStep, ResetSteps, CardSteps
     DEF AppStep
<1>3. CASE Detect
  BY <1>1, <1>3, CardSteps
<1>4. CASE \E k \in Events \union {"list"} : PressKey(k)
  BY <1>1, <1>4, PressStep
<1>5. CASE KeyStep
  BY <1>1, <1>5, PutKeyStep, ScrollStep DEF KeyStep
<1>6. CASE Ask \/ ClientStep
  BY <1>1, <1>6, AskStep, PutAskStep, GetAnswerStep DEF ClientStep
<1>7. CASE UNCHANGED dialogsVars
  BY <1>1, <1>7 DEF dialogsVars, DialogsIInv, DialogsTypeOK, ScreenOfHandler, OneRequest, OneClosing,
                    InQueue, InHandler, OnScreen, BackComes, Some, AtMostOne
<1>8. QED
  BY <1>1, <1>2, <1>3, <1>4, <1>5, <1>6, <1>7 DEF DialogsNext

(* The part of the behaviours of the dialogs that safety needs.            *)
THEOREM DialogsInvariance == DialogsInit /\ [][DialogsNext]_dialogsVars => []DialogsIInv
BY DialogsIInvInit, DialogsIInvStep, PTL

(* For queues of any length: an answer in the queue is for a client that   *)
(* waits for it, whatever the user, the card and the other thread do       *)
(* (app_sd_notify's and sd_api_file_select's use of result_receiver).      *)
THEOREM AnswersAreAwaited == DialogsSpec => []AnswerIsAwaited
<1>1. DialogsIInv => AnswerIsAwaited
  BY DEF DialogsIInv, OneRequest, AnswerIsAwaited, InHandler, OnScreen
<1>2. QED
  BY <1>1, DialogsInvariance, PTL DEF DialogsSpec

(* For queues of any length: the screen is the one sd_app_state names      *)
(* whenever the service waits for an event, and app_reset_state stops a    *)
(* view holder that is not there only after a key that came before the     *)
(* answer to the last one, or after a list that could not be read.         *)
THEOREM ScreenMatchesState == DialogsSpec => []HolderMatchesState
<1>1. DialogsIInv => HolderMatchesState
  BY DEF DialogsIInv, OneClosing, ScreenOfHandler, HolderMatchesState
<1>2. QED
  BY <1>1, DialogsInvariance, PTL DEF DialogsSpec

-----------------------------------------------------------------------------
(* NfcApp: what the messages are made of.                                  *)
LEMMA MessageFields ==
  /\ \A x : Message(x).type = x
  /\ \A m, r, s : /\ Report(m, r, s).type = "report" /\ Report(m, r, s).mode = m
                  /\ Report(m, r, s).found = r /\ Report(m, r, s).stale = s
  /\ \A x \in Modes \union {"stop", "exit"} : Message(x) \in Messages
  /\ \A m \in Searches, r, s \in BOOLEAN : Report(m, r, s) \in Messages
<1>1. \A x : Message(x).type = x
  BY DEF Message
<1>2. \A m, r, s : /\ Report(m, r, s).type = "report" /\ Report(m, r, s).mode = m
                   /\ Report(m, r, s).found = r /\ Report(m, r, s).stale = s
  BY DEF Report
<1>3. \A x \in Modes \union {"stop", "exit"} : Message(x) \in Messages
  BY DEF Messages
<1>4. \A m \in Searches, r, s \in BOOLEAN : Report(m, r, s) \in Messages
  <2>1. SUFFICES ASSUME NEW m \in Searches, NEW r \in BOOLEAN, NEW s \in BOOLEAN
                 PROVE  Report(m, r, s) \in {Report(a, b, c) : a \in Searches, b \in BOOLEAN, c \in BOOLEAN}
    BY DEF Messages
  <2>2. QED
    BY DEF Report
<1>5. QED
  BY <1>1, <1>2, <1>3, <1>4

LEMMA ReportFields ==
  ASSUME NEW m \in Messages, m.type = "report"
  PROVE  m.mode \in Searches /\ m.found \in BOOLEAN /\ m.stale \in BOOLEAN
<1>1. PICK a \in Searches, b \in BOOLEAN, c \in BOOLEAN : m = Report(a, b, c)
  BY MessageFields DEF Messages, Modes, Searches
<1>2. QED
  BY <1>1, MessageFields

(* A report that the start of a worker has made stale.                     *)
LEMMA StaleMessage ==
  ASSUME NEW m \in Messages
  PROVE  MakeStale(m) \in Messages /\ (MakeStale(m).type = "report" => MakeStale(m).stale)
<1>1. CASE m.type = "report"
  <2>1. PICK a \in Searches, b \in BOOLEAN, c \in BOOLEAN : m = Report(a, b, c)
    BY <1>1, MessageFields DEF Messages, Modes, Searches
  <2>2. MakeStale(m) = Report(a, b, TRUE)
    BY <1>1, <2>1 DEF MakeStale, Report
  <2>3. TRUE \in BOOLEAN
    OBVIOUS
  <2>4. Report(a, b, TRUE) \in Messages
    BY <2>1, <2>3, MessageFields
  <2>5. Report(a, b, TRUE).stale = TRUE
    BY DEF Report
  <2>6. QED
    BY <2>2, <2>4, <2>5
<1>2. CASE m.type # "report"
  BY <1>2 DEF MakeStale
<1>3. QED
  BY <1>1, <1>2

(* A message taken from the queue.                                         *)
LEMMA Taken ==
  ASSUME NfcTypeOK, NEW x, Get(x)
  PROVE  /\ nfcPc = "get" /\ nfcQueue # <<>> /\ nfcQueue' = Tail(nfcQueue)
         /\ nfcQueue' \in Seq(Messages) /\ Len(nfcQueue') = Len(nfcQueue) - 1
         /\ Len(nfcQueue) \in Nat /\ Len(nfcQueue) >= 1 /\ Len(nfcQueue') <= QueueMax
         /\ DOMAIN nfcQueue = 1..Len(nfcQueue) /\ DOMAIN nfcQueue' = 1..Len(nfcQueue')
         /\ Head(nfcQueue) = nfcQueue[1] /\ nfcQueue[1] \in Messages /\ nfcQueue[1].type = x
         /\ \A i \in DOMAIN nfcQueue' : nfcQueue'[i] = nfcQueue[i + 1] /\ i + 1 \in DOMAIN nfcQueue
<1>1. nfcQueue \in Seq(Messages) /\ Len(nfcQueue) <= QueueMax /\ QueueMax \in Nat
  BY NfcAssumption DEF NfcTypeOK
<1>2. nfcPc = "get" /\ nfcQueue # <<>> /\ nfcQueue' = Tail(nfcQueue) /\ Head(nfcQueue).type = x
  BY DEF Get
<1>3. QED
  BY <1>1, <1>2, QueueTake

(* A message put into it.                                                  *)
LEMMA Sent ==
  ASSUME NfcTypeOK, NEW m \in Messages, Send(m)
  PROVE  /\ nfcQueue' \in Seq(Messages) /\ Len(nfcQueue') = Len(nfcQueue) + 1
         /\ Len(nfcQueue) \in Nat /\ Len(nfcQueue') <= QueueMax
         /\ DOMAIN nfcQueue = 1..Len(nfcQueue) /\ DOMAIN nfcQueue' = 1..Len(nfcQueue')
         /\ nfcQueue'[Len(nfcQueue')] = m
         /\ \A i \in DOMAIN nfcQueue : nfcQueue'[i] = nfcQueue[i]
<1>1. nfcQueue \in Seq(Messages) /\ QueueMax \in Nat
  BY NfcAssumption DEF NfcTypeOK
<1>2. nfcQueue' = Append(nfcQueue, m) /\ Len(nfcQueue) < QueueMax
  BY DEF Send, Room
<1>3. QED
  BY <1>1, <1>2, QueuePut

-----------------------------------------------------------------------------
(* What puts and gets do to the order of the reports.                      *)

LEMMA KeyPut ==
  ASSUME NfcTypeOK, NEW m \in Messages, m.type # "report", Send(m)
  PROVE  /\ HasFresh' <=> HasFresh
         /\ HasStale' => HasStale
         /\ InOrder => InOrder'
         /\ \A s : FreshOf(s) => FreshOf(s)'
<1> DEFINE n == Len(nfcQueue)
<1>1. /\ n \in Nat /\ DOMAIN nfcQueue = 1..n /\ DOMAIN nfcQueue' = 1..(n + 1)
      /\ nfcQueue'[n + 1] = m /\ \A i \in 1..n : nfcQueue'[i] = nfcQueue[i]
  BY Sent
<1> HIDE DEF n
<1>2. \A i \in 1..(n + 1) : i \in 1..n \/ i = n + 1
  BY <1>1
<1>3. \A i \in 1..n : i \in 1..(n + 1)
  BY <1>1
<1>4. \A i \in DOMAIN nfcQueue' : (FreshAt(i)' \/ StaleAt(i)') =>
        /\ i \in DOMAIN nfcQueue
        /\ FreshAt(i)' => FreshAt(i)
        /\ StaleAt(i)' => StaleAt(i)
        /\ nfcQueue'[i] = nfcQueue[i]
  BY <1>1, <1>2 DEF FreshAt, StaleAt
<1>5. \A i \in DOMAIN nfcQueue : i \in DOMAIN nfcQueue' /\ (FreshAt(i) => FreshAt(i)')
  BY <1>1, <1>3 DEF FreshAt
<1>6. QED
  BY <1>4, <1>5 DEF HasFresh, HasStale, InOrder, FreshOf

LEMMA ReportPut ==
  ASSUME NfcTypeOK, NEW m \in Searches, NEW r \in BOOLEAN, Send(Report(m, r, FALSE))
  PROVE  /\ HasFresh'
         /\ HasStale' => HasStale
         /\ InOrder => InOrder'
         /\ FreshOf(m) => FreshOf(m)'
<1> DEFINE n == Len(nfcQueue)
           q == Report(m, r, FALSE)
<1>1. /\ n \in Nat /\ DOMAIN nfcQueue = 1..n /\ DOMAIN nfcQueue' = 1..(n + 1)
      /\ nfcQueue'[n + 1] = q /\ \A i \in 1..n : nfcQueue'[i] = nfcQueue[i]
  BY Sent, MessageFields
<1>2. q.type = "report" /\ ~q.stale /\ q.mode = m
  <2>1. q.type = "report" /\ q.stale = FALSE /\ q.mode = m
    BY DEF Report
  <2>2. QED
    BY <2>1
<1> HIDE DEF n, q
<1>3. \A i \in 1..(n + 1) : i \in 1..n \/ i = n + 1
  BY <1>1
<1>4. n + 1 \in 1..(n + 1) /\ \A i \in 1..n : i < n + 1
  BY <1>1
<1>5. \A i \in DOMAIN nfcQueue' : StaleAt(i)' => i \in DOMAIN nfcQueue /\ StaleAt(i)
  BY <1>1, <1>2, <1>3 DEF StaleAt
<1>6. \A i \in DOMAIN nfcQueue' : FreshAt(i)' =>
        \/ i \in DOMAIN nfcQueue /\ FreshAt(i) /\ nfcQueue'[i] = nfcQueue[i]
        \/ i = n + 1
  BY <1>1, <1>3 DEF FreshAt
<1>7. HasFresh'
  BY <1>1, <1>2, <1>4 DEF HasFresh, FreshAt
<1>8. InOrder => InOrder'
  BY <1>1, <1>4, <1>5, <1>6 DEF InOrder
<1>9. FreshOf(m) => FreshOf(m)'
  BY <1>1, <1>2, <1>6 DEF FreshOf
<1>10. HasStale' => HasStale
  BY <1>5 DEF HasStale
<1>11. QED
  BY <1>7, <1>8, <1>9, <1>10

LEMMA MessageGone ==
  ASSUME NfcTypeOK, NEW x, Get(x)
  PROVE  /\ InOrder => InOrder'
         /\ HasStale' => HasStale
         /\ HasFresh' => HasFresh
         /\ \A s : FreshOf(s) => FreshOf(s)'
         /\ x # "report" => (HasFresh => HasFresh')
         /\ StaleAt(1) => (HasFresh => HasFresh')
         /\ InOrder /\ FreshAt(1) => ~HasStale'
<1> DEFINE n == Len(nfcQueue)
<1>1. /\ n \in Nat /\ n >= 1 /\ DOMAIN nfcQueue = 1..n /\ DOMAIN nfcQueue' = 1..(n - 1)
      /\ nfcQueue[1].type = x
      /\ \A i \in 1..(n - 1) : nfcQueue'[i] = nfcQueue[i + 1] /\ i + 1 \in 1..n
  BY Taken
<1> HIDE DEF n
<1>2. \A i \in 1..n : i = 1 \/ (i - 1 \in 1..(n - 1) /\ (i - 1) + 1 = i)
  BY <1>1
<1>3. \A i \in DOMAIN nfcQueue' :
        /\ i + 1 \in DOMAIN nfcQueue /\ nfcQueue'[i] = nfcQueue[i + 1]
        /\ (FreshAt(i)' <=> FreshAt(i + 1)) /\ (StaleAt(i)' <=> StaleAt(i + 1))
  BY <1>1 DEF FreshAt, StaleAt
<1>4. InOrder => InOrder'
  <2>1. SUFFICES ASSUME InOrder, NEW i \in 1..(n - 1), NEW j \in 1..(n - 1), StaleAt(i)', FreshAt(j)'
                 PROVE  i < j
    BY <1>1 DEF InOrder
  <2>2. i + 1 < j + 1
    BY <1>1, <1>3, <2>1 DEF InOrder
  <2>3. QED
    BY <2>2
<1>5. HasStale' => HasStale
  BY <1>3 DEF HasStale
<1>6. HasFresh' => HasFresh
  BY <1>3 DEF HasFresh
<1>7. \A s : FreshOf(s) => FreshOf(s)'
  BY <1>3 DEF FreshOf
<1>8. ~FreshAt(1) => (HasFresh => HasFresh')
  <2>1. SUFFICES ASSUME ~FreshAt(1), NEW i \in 1..n, FreshAt(i)
                 PROVE  HasFresh'
    BY <1>1 DEF HasFresh
  <2>2. i - 1 \in 1..(n - 1) /\ (i - 1) + 1 = i
    BY <1>2, <2>1
  <2>3. FreshAt(i - 1)'
    BY <1>1, <1>3, <2>1, <2>2
  <2>4. QED
    BY <1>1, <2>2, <2>3 DEF HasFresh
<1>9. x # "report" => ~FreshAt(1)
  BY <1>1 DEF FreshAt
<1>10. StaleAt(1) => ~FreshAt(1)
  BY DEF FreshAt, StaleAt
<1>11. ASSUME InOrder, FreshAt(1), HasStale' PROVE FALSE
  <2>1. PICK i \in 1..(n - 1) : StaleAt(i + 1) /\ i + 1 \in 1..n
    BY <1>1, <1>3, <1>11 DEF HasStale
  <2>2. 1 \in 1..n
    BY <1>1
  <2>3. i + 1 < 1
    BY <1>1, <1>11, <2>1, <2>2 DEF InOrder
  <2>4. QED
    BY <2>3
<1>12. QED
  BY <1>4, <1>5, <1>6, <1>7, <1>8, <1>9, <1>10, <1>11

(* Steps that leave the queue alone.                                       *)
LEMMA SameReports ==
  ASSUME UNCHANGED nfcQueue
  PROVE  /\ (HasFresh' <=> HasFresh) /\ (HasStale' <=> HasStale) /\ (InOrder' <=> InOrder)
         /\ \A s : FreshOf(s)' <=> FreshOf(s)
BY DEF HasFresh, HasStale, InOrder, FreshOf, FreshAt, StaleAt

-----------------------------------------------------------------------------
(* A key sends a message of its view, for which there is room.             *)
LEMMA KeysOfView ==
  /\ nfcView = "menu" => KeyMessages(nfcView) = Modes \union {"exit"}
  /\ nfcView \in Modes \union {"error"} => KeyMessages(nfcView) = {"stop"}
  /\ nfcView \notin Modes \union {"menu", "error"} => KeyMessages(nfcView) = {}
<1>1. CASE nfcView = "menu"
  BY <1>1 DEF KeyMessages, Modes, Searches
<1>2. CASE nfcView \in Modes \union {"error"}
  BY <1>2 DEF KeyMessages, Modes, Searches
<1>3. CASE nfcView \notin Modes \union {"menu", "error"}
  BY <1>3 DEF KeyMessages
<1>4. QED
  BY <1>1, <1>2, <1>3

LEMMA KeyStep1 == ASSUME NfcIInv, Key PROVE NfcIInv'
<1>1. PICK m \in KeyMessages(nfcView) :
        /\ Send(Message(m))
        /\ nextView' = CASE m = "stop" -> "menu" [] m = "exit" -> "none" [] OTHER -> "ignore"
  BY DEF Key
<1>2. m \in Modes \union {"stop", "exit"}
  BY <1>1, KeysOfView
<1>3. nextView' \in {"menu", "none", "ignore"}
  <2>1. CASE m = "stop"
    BY <1>1, <2>1
  <2>2. CASE m = "exit"
    BY <1>1, <2>2
  <2>3. CASE m # "stop" /\ m # "exit"
    BY <1>1, <2>3
  <2>4. QED
    BY <2>1, <2>2, <2>3
<1>4. UNCHANGED <<nfcState, nfcPc, request, found, freed, workerPc, mode, last, nfcView>>
  BY DEF Key, app, workers
<1>5. Message(m) \in Messages /\ Message(m).type # "report"
  BY <1>2, MessageFields DEF Modes, Searches
<1>6. NfcTypes'
  BY <1>1, <1>3, <1>4, <1>5, Sent DEF NfcIInv, NfcTypes, NfcTypeOK, SearchesReport
<1>7. Alone'
  BY <1>4 DEF NfcIInv, Alone, OneWorker, NoWorkerRuns
<1>8. /\ HasFresh' <=> HasFresh
      /\ HasStale' => HasStale
      /\ InOrder => InOrder'
      /\ \A s : FreshOf(s) => FreshOf(s)'
  BY <1>1, <1>5, KeyPut DEF NfcIInv, NfcTypes
<1>9. ASSUME NEW w \in Workers PROVE Follows(w)'
  BY <1>4, <1>8 DEF NfcIInv, Follows, Updated
<1>10. QED
  BY <1>6, <1>7, <1>8, <1>9 DEF NfcIInv

(* The GUI sets the view that the callback returned.                       *)
LEMMA SwitchStep == ASSUME NfcIInv, SwitchView PROVE NfcIInv'
<1>1. /\ nfcView' = nextView /\ nextView' = "ignore" /\ nextView # "ignore"
      /\ UNCHANGED <<nfcState, nfcPc, request, found, freed, workerPc, mode, last, nfcQueue>>
  BY DEF SwitchView, app, workers
<1>2. NfcTypes'
  BY <1>1 DEF NfcIInv, NfcTypes, NfcTypeOK, SearchesReport, Views
<1>3. Alone'
  BY <1>1 DEF NfcIInv, Alone, OneWorker, NoWorkerRuns
<1>4. InOrder' /\ \A w \in Workers : Follows(w)'
  BY <1>1, SameReports DEF NfcIInv, Follows, Updated
<1>5. QED
  BY <1>2, <1>3, <1>4 DEF NfcIInv

-----------------------------------------------------------------------------
(* The application's thread.                                               *)

LEMMA GetModeStep == ASSUME NfcIInv, NEW m \in Modes, GetMode(m) PROVE NfcIInv'
<1>1. Get(m) /\ found' = Clear(m) /\ UNCHANGED <<nfcState, workerPc, mode, last, nextView, freed>>
  BY DEF GetMode, workers
<1>2. nfcQueue' \in Seq(Messages) /\ Len(nfcQueue') <= QueueMax
  BY <1>1, Taken DEF NfcIInv, NfcTypes
<1>3. /\ found' \in [Searches -> {"none", "new", "old"}]
      /\ \A s \in Searches : found'[s] = "old" => found[s] = "old"
  BY <1>1 DEF Clear, NfcIInv, NfcTypes, NfcTypeOK
<1>4. /\ nfcView' \in {nfcView, "error", m} /\ nfcPc' \in {nfcPc, "start"} /\ request' \in {request, m}
      /\ nfcPc' = "start" => nfcPc = "start" \/ nfcState = "ready"
  <2>1. CASE nfcState = "broken"
    BY <2>1 DEF GetMode
  <2>2. CASE nfcState = "ready"
    BY <2>2 DEF GetMode
  <2>3. CASE nfcState \notin {"broken", "ready"}
    BY <2>3 DEF GetMode
  <2>4. QED
    BY <2>1, <2>2, <2>3
<1>5. NfcTypes'
  BY <1>1, <1>2, <1>3, <1>4 DEF NfcIInv, NfcTypes, NfcTypeOK, SearchesReport, Views
<1>6. Alone'
  BY <1>1, <1>4 DEF NfcIInv, Alone, OneWorker, NoWorkerRuns
<1>7. m # "report"
  BY DEF Modes, Searches
<1>8. /\ InOrder'
      /\ HasStale' => HasStale
      /\ HasFresh' <=> HasFresh
      /\ \A s : FreshOf(s) => FreshOf(s)'
  BY <1>1, <1>7, MessageGone DEF NfcIInv, NfcTypes
<1>9. ASSUME NEW w \in Workers PROVE Follows(w)'
  <2>1. Updated(w) => mode[w] \in Searches
    BY DEF NfcIInv, NfcTypes, SearchesReport, Updated, Searches
  <2>2. QED
    BY <1>1, <1>3, <1>8, <2>1 DEF NfcIInv, Follows, Updated
<1>10. QED
  BY <1>5, <1>6, <1>8, <1>9 DEF NfcIInv

(* A new worker makes every report that waits stale.                       *)
LEMMA StartStep == ASSUME NfcIInv, StartWorker PROVE NfcIInv'
<1>1. /\ nfcPc = "start" /\ nfcState = "ready" /\ nfcPc' = "get" /\ nfcState' = request
      /\ UNCHANGED <<nfcView, request, mode, last, nextView, freed>>
  BY DEF StartWorker, NfcIInv, Alone
<1>2. NoWorkerRuns /\ request \in Modes /\ request \notin {"ready", "broken"}
  BY <1>1 DEF NfcIInv, NfcTypes, NfcTypeOK, Alone, Modes, Searches
<1>3. CASE UNCHANGED <<workerPc, nfcQueue, found>>
  <2>1. NfcTypes'
    BY <1>1, <1>2, <1>3 DEF NfcIInv, NfcTypes, NfcTypeOK, SearchesReport
  <2>2. Alone'
    BY <1>1, <1>2, <1>3 DEF NfcIInv, Alone, OneWorker, NoWorkerRuns
  <2>3. InOrder' /\ \A w \in Workers : Follows(w)'
    BY <1>1, <1>3, SameReports DEF NfcIInv, Follows, Updated
  <2>4. QED
    BY <2>1, <2>2, <2>3 DEF NfcIInv
<1>4. ASSUME NEW v \in Workers, workerPc' = [workerPc EXCEPT ![v] = "begin"],
             nfcQueue' = [i \in DOMAIN nfcQueue |-> MakeStale(nfcQueue[i])], found' = MakeOld
      PROVE  NfcIInv'
  <2>1. nfcQueue \in Seq(Messages) /\ Len(nfcQueue) <= QueueMax
    BY DEF NfcIInv, NfcTypes, NfcTypeOK
  <2>2. /\ nfcQueue' \in Seq(Messages) /\ Len(nfcQueue') = Len(nfcQueue)
        /\ DOMAIN nfcQueue' = DOMAIN nfcQueue
        /\ \A i \in DOMAIN nfcQueue' : ~FreshAt(i)'
    <3>1. \A i \in DOMAIN nfcQueue : /\ MakeStale(nfcQueue[i]) \in Messages
                                     /\ nfcQueue'[i] = MakeStale(nfcQueue[i])
      BY <1>4, <2>1, StaleMessage
    <3>2. /\ nfcQueue' \in [1..Len(nfcQueue) -> Messages] /\ Len(nfcQueue) \in Nat
          /\ DOMAIN nfcQueue = 1..Len(nfcQueue)
      BY <1>4, <2>1, <3>1
    <3>3. nfcQueue' \in Seq(Messages) /\ Len(nfcQueue') = Len(nfcQueue)
      BY <3>2
    <3>4. \A i \in DOMAIN nfcQueue : nfcQueue[i] \in Messages
      BY <2>1
    <3>5. \A i \in DOMAIN nfcQueue' : ~FreshAt(i)'
      BY <3>1, <3>2, <3>4, StaleMessage DEF FreshAt
    <3>6. QED
      BY <3>2, <3>3, <3>5
  <2>3. found' \in [Searches -> {"none", "new", "old"}]
    BY <1>4 DEF MakeOld, NfcIInv, NfcTypes, NfcTypeOK
  <2>4. \A w \in Workers : workerPc'[w] = IF w = v THEN "begin" ELSE "none"
    BY <1>2, <1>4 DEF NfcIInv, NfcTypes, NfcTypeOK, NoWorkerRuns
  <2>5. workerPc' \in [Workers -> {"none", "begin", "hello", "loop", "search", "report", "end"}]
    BY <1>4 DEF NfcIInv, NfcTypes, NfcTypeOK
  <2>6. NfcTypes'
    BY <1>1, <1>2, <2>1, <2>2, <2>3, <2>4, <2>5 DEF NfcIInv, NfcTypes, NfcTypeOK, SearchesReport
  <2>7. Alone'
    BY <1>1, <1>2, <2>4 DEF Alone, OneWorker
  <2>8. ~HasFresh' /\ InOrder'
    BY <2>2 DEF HasFresh, InOrder
  <2>9. \A w \in Workers : Follows(w)'
    BY <2>4, <2>8 DEF Follows, Updated
  <2>10. QED
    BY <2>6, <2>7, <2>8, <2>9 DEF NfcIInv
<1>5. QED
  BY <1>3, <1>4 DEF StartWorker

LEMMA GetStopStep == ASSUME NfcIInv, GetStop \/ GetExit PROVE NfcIInv'
<1>1. /\ Get("stop") \/ Get("exit")
      /\ nfcState' \in {nfcState, "stop"} /\ nfcPc' \in {nfcPc, "done"} /\ nfcView' \in {nfcView, "none"}
      /\ freed' \in {freed, TRUE}
      /\ UNCHANGED <<request, workerPc, mode, last, found, nextView>>
  BY DEF GetStop, GetExit, workers
<1>2. nfcPc = "get" /\ nfcQueue' \in Seq(Messages) /\ Len(nfcQueue') <= QueueMax
  BY <1>1, Taken DEF NfcIInv, NfcTypes
<1>3. NfcTypes'
  BY <1>1, <1>2 DEF NfcIInv, NfcTypes, NfcTypeOK, SearchesReport, Views
<1>4. Alone'
  BY <1>1, <1>2 DEF NfcIInv, Alone, OneWorker, NoWorkerRuns
<1>5. /\ InOrder'
      /\ HasStale' => HasStale
      /\ HasFresh' <=> HasFresh
      /\ \A s : FreshOf(s) => FreshOf(s)'
  BY <1>1, MessageGone DEF NfcIInv, NfcTypes
<1>6. \A w \in Workers : Follows(w)'
  BY <1>1, <1>5 DEF NfcIInv, Follows, Updated
<1>7. QED
  BY <1>3, <1>4, <1>5, <1>6 DEF NfcIInv

(* A report is shown: a stale one is followed by another, a fresh one by   *)
(* no stale one.                                                           *)
LEMMA GetReportStep == ASSUME NfcIInv, GetReport PROVE NfcIInv'
<1> DEFINE m == Head(nfcQueue)
<1>1. /\ Get("report")
      /\ found' = [found EXCEPT ![m.mode] = IF ~m.found THEN "none" ELSE IF m.stale THEN "old" ELSE "new"]
      /\ UNCHANGED <<nfcState, nfcView, nfcPc, request, workerPc, mode, last, nextView, freed>>
  BY DEF GetReport, workers
<1>2. /\ nfcQueue' \in Seq(Messages) /\ Len(nfcQueue') <= QueueMax
      /\ m \in Messages /\ m = nfcQueue[1] /\ m.type = "report" /\ 1 \in DOMAIN nfcQueue
  BY <1>1, Taken DEF NfcIInv, NfcTypes
<1>3. m.mode \in Searches /\ m.stale \in BOOLEAN /\ m.found \in BOOLEAN
  BY <1>2, ReportFields
<1>4. /\ InOrder'
      /\ HasStale' => HasStale
      /\ HasFresh' => HasFresh
      /\ \A s : FreshOf(s) => FreshOf(s)'
      /\ StaleAt(1) => (HasFresh => HasFresh')
      /\ FreshAt(1) => ~HasStale'
  BY <1>1, MessageGone DEF NfcIInv, NfcTypes
<1>5. (StaleAt(1) <=> m.stale) /\ (FreshAt(1) <=> ~m.stale)
  BY <1>2 DEF StaleAt, FreshAt
<1> HIDE DEF m
<1>6. found' \in [Searches -> {"none", "new", "old"}]
  BY <1>1, <1>3 DEF NfcIInv, NfcTypes, NfcTypeOK
<1>7. NfcTypes'
  BY <1>1, <1>2, <1>6 DEF NfcIInv, NfcTypes, NfcTypeOK, SearchesReport
<1>8. Alone'
  BY <1>1 DEF NfcIInv, Alone, OneWorker, NoWorkerRuns
<1>9. ASSUME NEW w \in Workers PROVE Follows(w)'
  <2>1. Follows(w)
    BY DEF NfcIInv
  <2>2. CASE m.stale
    <3>1. HasStale
      BY <1>2, <1>5, <2>2 DEF HasStale
    <3>2. Updated(w) => HasFresh'
      BY <1>4, <1>5, <2>1, <2>2, <3>1 DEF Follows
    <3>3. QED
      BY <1>1, <1>4, <2>1, <3>2 DEF Follows, Updated
  <2>3. CASE ~m.stale
    <3>1. HasFresh /\ ~HasStale'
      BY <1>2, <1>4, <1>5, <2>3 DEF HasFresh
    <3>2. Updated(w) => m.mode = mode[w]
      BY <1>2, <1>5, <2>1, <2>3 DEF Follows, Updated, FreshOf
    <3>3. Updated(w) => found'[mode[w]] # "old"
      BY <1>1, <1>3, <2>3, <3>2 DEF NfcIInv, NfcTypes, NfcTypeOK
    <3>4. QED
      BY <1>1, <1>4, <2>1, <3>1, <3>3 DEF Follows, Updated
  <2>4. QED
    BY <1>3, <2>2, <2>3
<1>10. QED
  BY <1>4, <1>7, <1>8, <1>9 DEF NfcIInv

-----------------------------------------------------------------------------
(* The worker, which is alone.                                             *)
LEMMA WorkerRunsAlone ==
  ASSUME NfcIInv, NEW w \in Workers, workerPc[w] # "none"
  PROVE  /\ nfcState \notin {"ready", "broken"} /\ nfcPc # "start"
         /\ \A v \in Workers \ {w} : workerPc[v] = "none"
BY DEF NfcIInv, Alone, OneWorker, NoWorkerRuns

(* It goes from one place to another, without the queue.                   *)
LEMMA WorkerGoes ==
  ASSUME NfcIInv, NEW w \in Workers, workerPc[w] # "none",
         NEW pc \in {"hello", "loop", "search", "report", "end"},
         workerPc' = [workerPc EXCEPT ![w] = pc],
         NEW b \in BOOLEAN, last' = [last EXCEPT ![w] = b],
         NEW s \in Modes, mode' = [mode EXCEPT ![w] = s],
         workerPc[w] # "begin" => s = mode[w],
         pc \in {"hello", "search", "report"} => s \in Searches,
         Updated(w)' => Updated(w),
         UNCHANGED <<nfcState, nfcQueue, nfcView, nfcPc, request, found, nextView, freed>>
  PROVE  NfcIInv'
<1>1. /\ nfcState \notin {"ready", "broken"} /\ nfcPc # "start"
      /\ \A v \in Workers \ {w} : workerPc[v] = "none"
  BY WorkerRunsAlone
<1>2. /\ workerPc'[w] = pc /\ mode'[w] = s
      /\ \A v \in Workers \ {w} : workerPc'[v] = "none"
  BY <1>1 DEF NfcIInv, NfcTypes, NfcTypeOK
<1>3. /\ workerPc' \in [Workers -> {"none", "begin", "hello", "loop", "search", "report", "end"}]
      /\ mode' \in [Workers -> Modes] /\ last' \in [Workers -> BOOLEAN]
  BY DEF NfcIInv, NfcTypes, NfcTypeOK
<1>4. SearchesReport'
  BY <1>2 DEF SearchesReport
<1>5. NfcTypes'
  BY <1>3, <1>4 DEF NfcIInv, NfcTypes, NfcTypeOK
<1>6. Alone'
  BY <1>1, <1>2 DEF Alone, OneWorker
<1>7. InOrder' /\ (HasFresh' <=> HasFresh) /\ (HasStale' <=> HasStale) /\ \A t : FreshOf(t)' <=> FreshOf(t)
  BY SameReports DEF NfcIInv
<1>8. Follows(w)'
  <2>1. Follows(w)
    BY DEF NfcIInv
  <2>2. FreshOf(s)
    <3>1. CASE workerPc[w] = "begin"
      BY <2>1, <3>1 DEF Follows, HasFresh, FreshOf
    <3>2. CASE workerPc[w] # "begin"
      BY <2>1, <3>2 DEF Follows
    <3>3. QED
      BY <3>1, <3>2
  <2>3. Updated(w)' => s = mode[w]
    BY DEF Updated
  <2>4. QED
    BY <1>2, <1>7, <2>1, <2>2, <2>3 DEF Follows
<1>9. ASSUME NEW v \in Workers \ {w} PROVE Follows(v)'
  BY <1>2 DEF Follows, Updated
<1>10. QED
  BY <1>5, <1>6, <1>7, <1>8, <1>9 DEF NfcIInv

LEMMA WorkerStep == ASSUME NfcIInv, NEW w \in Workers, WorkerThread(w) PROVE NfcIInv'
<1>1. /\ mode \in [Workers -> Modes] /\ last \in [Workers -> BOOLEAN]
      /\ workerPc \in [Workers -> {"none", "begin", "hello", "loop", "search", "report", "end"}]
      /\ mode[w] \in {"detect", "emv", "quiet"} /\ last[w] \in BOOLEAN
  BY DEF NfcIInv, NfcTypes, NfcTypeOK, Modes, Searches
<1>2. CASE BeginLoop(w)
  <2>1. /\ workerPc[w] = "begin" /\ last' = [last EXCEPT ![w] = FALSE]
        /\ UNCHANGED <<nfcState, nfcQueue, nfcView, nfcPc, request, found, nextView, freed>>
    BY <1>2 DEF BeginLoop, Choose, WorkerAt, notWorker
  <2>2. CASE /\ nfcState \in Modes /\ mode' = [mode EXCEPT ![w] = nfcState]
             /\ workerPc' = [workerPc EXCEPT ![w] = IF nfcState = "detect" THEN "hello" ELSE "loop"]
    <3>1. Updated(w)' => Updated(w)
      BY <1>1, <2>2 DEF Updated
    <3>2. CASE nfcState = "detect"
      <4>1. workerPc' = [workerPc EXCEPT ![w] = "hello"] /\ nfcState \in Searches
        BY <2>2, <3>2 DEF Searches
      <4>2. QED
        BY <2>1, <2>2, <3>1, <4>1, WorkerGoes
    <3>3. CASE nfcState # "detect"
      <4>1. workerPc' = [workerPc EXCEPT ![w] = "loop"]
        BY <2>2, <3>3
      <4>2. QED
        BY <2>1, <2>2, <3>1, <4>1, WorkerGoes
    <3>4. QED
      BY <3>2, <3>3
  <2>3. CASE UNCHANGED mode /\ workerPc' = [workerPc EXCEPT ![w] = "end"]
    <3>1. Updated(w)' => Updated(w)
      BY <1>1, <2>3 DEF Updated
    <3>2. mode' = [mode EXCEPT ![w] = mode[w]] /\ mode[w] \in Modes
      BY <1>1, <2>3
    <3>3. QED
      BY <2>1, <2>3, <3>1, <3>2, WorkerGoes
  <2>4. QED
    BY <1>2, <2>2, <2>3 DEF BeginLoop, Choose, WorkerGoto
<1>3. CASE NextPass(w)
  <2> DEFINE pass == CASE mode[w] = "detect" -> "search"
                       [] mode[w] = "emv"    -> "report"
                       [] mode[w] = "quiet"  -> "loop"
             pc == IF nfcState # mode[w] THEN "end" ELSE pass
  <2>1. /\ workerPc[w] = "loop" /\ workerPc' = [workerPc EXCEPT ![w] = pc]
        /\ UNCHANGED <<nfcState, nfcQueue, mode, last, nfcView, nfcPc, request, found, nextView, freed>>
    BY <1>3 DEF NextPass, WorkerGoto, WorkerAt, notWorker
  <2>2. /\ pass \in {"search", "report", "loop"}
        /\ (mode[w] = "quiet" => pass = "loop") /\ (mode[w] = "emv" => pass = "report")
    BY <1>1
  <2> HIDE DEF pass
  <2>3. /\ pc \in {"end", "search", "report", "loop"}
        /\ pc \in {"search", "report"} => mode[w] \in Searches
        /\ pc = "search" => mode[w] = "detect"
    BY <1>1, <2>2 DEF Searches
  <2> HIDE DEF pc
  <2>4. mode' = [mode EXCEPT ![w] = mode[w]] /\ last' = [last EXCEPT ![w] = last[w]] /\ mode[w] \in Modes
    BY <1>1, <2>1
  <2>5. Updated(w)' => Updated(w)
    BY <1>1, <2>1, <2>3 DEF Updated
  <2>6. QED
    BY <1>1, <2>1, <2>3, <2>4, <2>5, WorkerGoes
<1>4. CASE Search(w)
  <2>1. PICK r \in BOOLEAN : last' = [last EXCEPT ![w] = r]
    BY <1>4 DEF Search
  <2>2. /\ workerPc[w] = "search"
        /\ workerPc' = [workerPc EXCEPT ![w] = IF mode[w] = "detect" THEN "report" ELSE "loop"]
        /\ UNCHANGED <<nfcState, nfcQueue, mode, nfcView, nfcPc, request, found, nextView, freed>>
    BY <1>4 DEF Search, WorkerGoto, WorkerAt, notWorker
  <2>3. mode' = [mode EXCEPT ![w] = mode[w]] /\ mode[w] \in Modes /\ (Updated(w)' => Updated(w))
    BY <1>1, <2>2 DEF Updated
  <2>4. CASE mode[w] = "detect"
    <3>1. workerPc' = [workerPc EXCEPT ![w] = "report"] /\ mode[w] \in Searches
      BY <2>2, <2>4 DEF Searches
    <3>2. QED
      BY <2>1, <2>2, <2>3, <3>1, WorkerGoes
  <2>5. CASE mode[w] # "detect"
    <3>1. workerPc' = [workerPc EXCEPT ![w] = "loop"]
      BY <2>2, <2>5
    <3>2. QED
      BY <2>1, <2>2, <2>3, <3>1, WorkerGoes
  <2>6. QED
    BY <2>4, <2>5
<1>5. CASE PutReport(w)
  <2>1. /\ workerPc[w] \in {"hello", "report"} /\ Send(Report(mode[w], last[w], FALSE))
        /\ workerPc' = [workerPc EXCEPT ![w] = IF workerPc[w] = "report" /\ mode[w] = "emv"
                                               THEN "search" ELSE "loop"]
        /\ UNCHANGED <<nfcState, mode, last, nfcView, nfcPc, request, found, nextView, freed>>
    BY <1>5 DEF PutReport, WorkerGoto, WorkerAt, notWorker
  <2>2. /\ nfcState \notin {"ready", "broken"} /\ nfcPc # "start"
        /\ \A v \in Workers \ {w} : workerPc[v] = "none"
    BY <2>1, WorkerRunsAlone
  <2>3. mode[w] \in Searches
    BY <2>1 DEF NfcIInv, NfcTypes, SearchesReport
  <2>4. /\ workerPc'[w] \in {"search", "loop"}
        /\ workerPc' \in [Workers -> {"none", "begin", "hello", "loop", "search", "report", "end"}]
        /\ \A v \in Workers \ {w} : workerPc'[v] = "none"
    BY <1>1, <2>1, <2>2
  <2>5. nfcQueue' \in Seq(Messages) /\ Len(nfcQueue') <= QueueMax
    BY <1>1, <2>1, <2>3, MessageFields, Sent DEF NfcIInv, NfcTypes
  <2>6. SearchesReport'
    BY <2>1, <2>3, <2>4 DEF SearchesReport
  <2>7. NfcTypes'
    BY <2>1, <2>4, <2>5, <2>6 DEF NfcIInv, NfcTypes, NfcTypeOK
  <2>8. Alone'
    BY <2>1, <2>2, <2>4 DEF Alone, OneWorker
  <2>9. /\ HasFresh' /\ InOrder'
        /\ FreshOf(mode[w]) => FreshOf(mode[w])'
    BY <1>1, <2>1, <2>3, ReportPut DEF NfcIInv, NfcTypes
  <2>10. FreshOf(mode[w])
    BY <2>1 DEF NfcIInv, Follows
  <2>11. Follows(w)'
    BY <2>1, <2>4, <2>9, <2>10 DEF Follows, FreshOf, FreshAt
  <2>12. ASSUME NEW v \in Workers \ {w} PROVE Follows(v)'
    BY <2>4 DEF Follows, Updated
  <2>13. QED
    BY <2>7, <2>8, <2>9, <2>11, <2>12 DEF NfcIInv
<1>6. CASE EndLoop(w)
  <2>1. /\ workerPc[w] = "end" /\ nfcState' = "ready" /\ workerPc' = [workerPc EXCEPT ![w] = "none"]
        /\ UNCHANGED <<nfcQueue, mode, last, nfcView, nfcPc, request, found, nextView, freed>>
    BY <1>6 DEF EndLoop, WorkerGoto, WorkerAt, notWorker
  <2>2. nfcPc # "start" /\ \A v \in Workers \ {w} : workerPc[v] = "none"
    BY <2>1, WorkerRunsAlone
  <2>3. \A v \in Workers : workerPc'[v] = "none"
    BY <1>1, <2>1, <2>2
  <2>4. workerPc' \in [Workers -> {"none", "begin", "hello", "loop", "search", "report", "end"}]
    BY <1>1, <2>1
  <2>5. NfcTypes'
    BY <2>1, <2>3, <2>4 DEF NfcIInv, NfcTypes, NfcTypeOK, SearchesReport
  <2>6. Alone'
    BY <2>1, <2>2, <2>3 DEF Alone, OneWorker, NoWorkerRuns
  <2>7. InOrder' /\ \A v \in Workers : Follows(v)'
    BY <2>1, <2>3, SameReports DEF NfcIInv, Follows, Updated
  <2>8. QED
    BY <2>5, <2>6, <2>7 DEF NfcIInv
<1>7. QED
  BY <1>2, <1>3, <1>4, <1>5, <1>6 DEF WorkerThread

-----------------------------------------------------------------------------
LEMMA NfcIInvInit == NfcInit => NfcIInv
<1>1. SUFFICES ASSUME NfcInit PROVE NfcIInv
  OBVIOUS
<1>2. nfcQueue \in Seq(Messages) /\ Len(nfcQueue) <= QueueMax /\ DOMAIN nfcQueue = {}
  BY <1>1, NfcAssumption DEF NfcInit
<1>3. NfcTypes
  BY <1>1, <1>2 DEF NfcInit, NfcTypes, NfcTypeOK, SearchesReport, Modes, Searches, Views
<1>4. Alone
  BY <1>1 DEF NfcInit, Alone, OneWorker, NoWorkerRuns
<1>5. InOrder /\ ~HasFresh /\ \A w \in Workers : Follows(w)
  BY <1>1, <1>2 DEF NfcInit, InOrder, HasFresh, Follows, Updated
<1>6. QED
  BY <1>3, <1>4, <1>5 DEF NfcIInv

LEMMA NfcIInvStep == NfcIInv /\ [NfcNext]_nfcVars => NfcIInv'
<1>1. SUFFICES ASSUME NfcIInv, [NfcNext]_nfcVars PROVE NfcIInv'
  OBVIOUS
<1>2. CASE Key
  BY <1>1, <1>2, KeyStep1
<1>3. CASE SwitchView
  BY <1>1, <1>3, SwitchStep
<1>4. CASE AppThread
  BY <1>1, <1>4, GetModeStep, StartStep, GetStopStep, GetReportStep DEF AppThread
<1>5. CASE \E w \in Workers : WorkerThread(w)
  BY <1>1, <1>5, WorkerStep
<1>6. CASE UNCHANGED nfcVars
  <2>1. /\ UNCHANGED <<nfcState, nfcQueue, nfcView, nfcPc, request, workerPc, mode, last>>
        /\ UNCHANGED <<found, nextView, freed>>
    BY <1>6 DEF nfcVars
  <2>2. NfcTypes' /\ Alone'
    BY <1>1, <2>1 DEF NfcIInv, NfcTypes, NfcTypeOK, SearchesReport, Alone, OneWorker, NoWorkerRuns
  <2>3. InOrder' /\ \A w \in Workers : Follows(w)'
    BY <1>1, <2>1, SameReports DEF NfcIInv, Follows, Updated
  <2>4. QED
    BY <2>2, <2>3 DEF NfcIInv
<1>7. QED
  BY <1>1, <1>2, <1>3, <1>4, <1>5, <1>6 DEF NfcNext

(* The invariant holds in every reachable state, whatever the user and the *)
(* radio do, and whether or not a thread can be made.                      *)
THEOREM NfcInvariance == NfcInit /\ [][NfcNext]_nfcVars => []NfcIInv
BY NfcIInvInit, NfcIInvStep, PTL

(* Until nfc_free there is never a second worker thread beside one that is *)
(* in its loop, and nfc_worker_start finds the state Ready as it asserts.  *)
THEOREM WorkersDoNotOverlap == NfcSpec => [](OneWorker /\ (nfcPc = "start" => nfcState = "ready"))
<1>1. NfcIInv => OneWorker /\ (nfcPc = "start" => nfcState = "ready")
  BY DEF NfcIInv, Alone
<1>2. QED
  BY <1>1, NfcInvariance, PTL DEF NfcSpec

(* While a pass of a search runs, what an earlier worker found is shown    *)
(* only as long as a report of this worker waits in the queue.             *)
THEOREM FindsAreFresh == NfcSpec => []FoundIsFresh
<1>1. NfcIInv => FoundIsFresh
  BY DEF NfcIInv, Follows, Updated, FoundIsFresh, HasFresh, FreshAt
<1>2. QED
  BY <1>1, NfcInvariance, PTL DEF NfcSpec

-----------------------------------------------------------------------------
(* MCThreads: a step of the sum is a step of one component, and the others *)
(* stay where they are.                                                    *)
LEMMA ThreadsStep ==
  [ThreadsNext]_threadsVars => [CliNext]_cliVars /\ [DialogsNext]_dialogsVars
BY DEF ThreadsNext, threadsVars, CliOnly, DialogsOnly

(* The variables of the console and the dialogs keep their types, and      *)
(* every queue and counter its bound.                                      *)
THEOREM ThreadsTypeCorrect == ThreadsSpec => []ThreadsTypeOK
<1>1. ThreadsInit => CliInit /\ DialogsInit
  BY DEF ThreadsInit
<1>2. CliIInv /\ DialogsIInv => ThreadsTypeOK
  BY DEF CliIInv, DialogsIInv, ThreadsTypeOK
<1>3. QED
  BY <1>1, <1>2, ThreadsStep, CliInvariance, DialogsInvariance, PTL
     DEF ThreadsSpec
===============================================================================
