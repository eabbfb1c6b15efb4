# TLA+ models of the Flipper Zero firmware

This directory holds specifications of the parts of the firmware in `src/` that
are concurrent: the services that run in threads of their own, the registry
through which they find each other, and the paths on which they call one
another; and the parts whose indices, tables and decoders a long sequence of
legal calls could lead astray. Each module is written from the C code and is
model-checked with TLC on small instances. All but the composition
`StorageClients` are also the subject of theorems that TLAPS checks for every
value of their constants.

`PROJECT.json` lists the components, the runs with what they check, the lines
each definition stands for, the hazards the properties are for, and what the
runs found.

## The system

FreeRTOS behind CMSIS-RTOS2; threads, mutexes, message queues, thread flags,
semaphores, and software timers whose callbacks all run in one daemon thread.
`furi_check` and, in the default build (`make/toolchain.mk`), `furi_assert` stop
the firmware. There is one flag word per thread, and five subsystems use its
bit 0 for their own purposes.

| component | state | operations | talks to |
|---|---|---|---|
| record registry, `core/furi/record.c` | dictionary: name to data, owner, holders; a mutex | create, destroy, open (blocks), close | raises thread flag 1 of the holders |
| PubSub, ValueMutex, `core/furi` | subscriber list, value; a mutex each | notify under the mutex, subscribe; acquire, read, write | callbacks of subscribers |
| FuriThread, `core/furi/thread.c` | state, callback, context, OS id | setters (only when stopped), start, body | state callback in whichever thread changes the state |
| application loader, `applications/app-loader` | one FuriThread, current application | menu, CLI and archive starts, state callback | insomnia level of `api-hal-power.c` |
| internal storage, `applications/internal-storage` | littlefs volume, queue of commands, boot flag | boot (mount, format), read key, write key | caller's stack frame, thread flag 1 |
| input, `applications/input` | per pin: state, debounce and press counter, timer | scan loop, interrupt, timer callback | publishes `input_events` |
| GUI, `applications/gui` | layers of view ports, queue, flags, mutex | input, redraw, add and remove of view ports | callbacks into applications |
| view dispatcher, `applications/gui/view_dispatcher.c` | current view, queue, view port | attach, run, switch, stop, free | GUI |
| serial port and CLI, `api-hal-vcp.c`, `usbd_cdc_if.c`, `applications/cli` | stream, semaphore, alive; the line | USB callbacks, tx, rx, command line | USB library, every command's callback |
| notification, `applications/notification` | two layers per light, motor, speaker, queue, display timer | messages and sequences, blocking or not | timer daemon, HAL |
| SD card, `applications/sd-filesystem` | table of open files, FatFs volume, status; dialog on the screen, event queue, result queue; a mutex | file calls of any thread, mount, unmount, format; file selection, menu items | FatFs, GUI (two mutexes), clients |
| GUI lists, `applications/gui/modules` | selected row, first row | Up, Down, OK, set the selection | their view's callback |
| NFC, `applications/nfc` | worker state, message queue, views | menu, stop, exit; detect, EMV, two emulations, field | its worker threads, GUI |
| infrared library, `lib/irda` | one decoder per protocol | decode a timing, encode a message | the receiver's interrupt |
| archive, `applications/archive` | file list, index, depth, saved indices, menu | tabs, directories, pin, rename, delete, start | SD card, GUI, loader |
| power, Bluetooth, dolphin, menu | their views and counters | | the above |
| RFID, iButton, sub-GHz, infrared application | scenes, signal timing | | interrupt manager, HAL |

What is hard here: reads after an unlock (registry), pointers to stack frames
handed to another thread (storage, notification), flags shared between
subsystems, counters shared between a thread and the timer daemon (input) or
between threads (insomnia), chains of threads that wait for room in each other's
queues (input, GUI, application), objects freed while another thread may be in
their callbacks (view port), interrupts that change what a writer has just tested
(serial port), power loss (storage), sessions that end in the middle of a
line (CLI), mutexes taken in two orders (SD card dialogs), calls that work on a
slot after the unlock (SD card files), a thread that is told to stop and never
waited for (NFC), transmissions that break off (infrared), and indices that
outlive the list they were chosen in (archive). The list,
line by line, is under `hazards` in `PROJECT.json`.

What makes each correct, in a sentence: the registry hands out only live
pointers and wakes everybody who waits; a storage call is atomic, reports what
happened and survives power loss as the boot code intends; one application runs
at a time and the level counts it; every press is reported exactly once, in a
well-formed sequence of events; every event published reaches the application
on top, in order, and the screen shows its latest model; no writer sleeps for
ever on the serial port; a light shows
what the layers say and nothing stays on by accident; a file call reaches the
caller's file or none, and a dialog is always answered; an NFC view shows what
its own search found; a decoder reports what was sent; a selection goes round
its list and stays on the screen.

## Modules

| module | models | instance |
|---|---|---|
| `RecordService` | what `record.h` promises: publish, withdraw, ask, grant, release as single steps | refined by `FuriRecord` |
| `FuriRecord` | `record.c`; `furi_record_open` in its five steps | `MCFuriRecord` |
| `FuriRecordProofs` | theorems about `FuriRecord` | TLAPS |
| `KeyValueStore` | what `internal-storage.h` promises: a read or write is one step | refined by `InternalStorage` |
| `InternalStorage` | `internal-storage.c` with boot, flash failures, factory reset and power loss | `MCInternalStorage` |
| `StorageClients` | `FuriRecord` and `InternalStorage` composed over one flag bit | itself |
| `InternalStorageProofs` | theorems about `InternalStorage` | TLAPS |
| `AppLoader` | `app-loader.c`, `thread.c`, the insomnia level | `MCAppLoader`, `MCData` |
| `InputService` | `input.c` and the timer daemon | `MCDevices` |
| `InputServiceProofs` | theorems about `InputService` | TLAPS |
| `Gui` | `notify_pubsub`, `gui.c`, `view_port.c`, `view_dispatcher.c` | `MCGui` |
| `GuiProofs` | theorems about `Gui` | TLAPS |
| `CliSession` | `api-hal-vcp.c`, `usbd_cdc_if.c`, `cli.c` | `MCThreads` |
| `Notification` | `notification-app.c`, `notification-app-api.c` | `MCNotification` |
| `NotificationProofs` | theorems about `Notification` | TLAPS |
| `SdFiles` | `sd-filesystem-api.c` and the mounting in `sd-filesystem.c` | `MCData` |
| `SdDialogs` | the event loop of `sd-filesystem.c`, `view_holder.c`, the locks of `file_select.c` | `MCThreads` |
| `NfcApp` | `nfc.c`, `nfc_worker.c` | `MCDevices`, itself |
| `IrdaDecoder` | `lib/irda`: decoders against encoders | `MCData` |
| `IrdaProofs` | theorems about `IrdaDecoder` | TLAPS |
| `Archive` | the browser of `archive.c` | `MCData` |
| `Ring` | what a list promises: next and previous | refined by `Lists`, twice |
| `Lists` | `file_select.c` and `submenu.c` | `MCData` |
| `ThreadsProofs` | theorems about `CliSession`, `SdDialogs` and their sum, `AppLoader`, `NfcApp` | TLAPS |
| `DataProofs` | theorems about `SdFiles`, `Lists`, `Archive`, and with `IrdaProofs` the sum of `MCData` | TLAPS |

`MCThreads`, `MCDevices` and `MCData` are sums, not products: a behaviour picks
one component and the others keep their initial state. The components of a sum
share no state in the code either (those that do are composed in
`StorageClients` and `Gui`), so a product would only multiply states. What such
a run says of the components not picked is trivial; what it says of the one
picked is what a run of its own would say. The fairness of `MCThreads` and
`MCDevices` is that of the component that runs; of the components of `MCData`
only safety is asked.

Conventions. A thread's place in a call is a string in `pc` (or in a variable
named after the thread), one action per stretch of code between two points at
which another thread can see or change something; a critical section whose
intermediate states nobody can see is one step. Variables keep the names of the
C fields. FreeRTOS, littlefs and the USB library are not in the repository; they
are modelled by what the code relies on and marked `external` in the map: a
thread flag is sticky and cleared by the wait that returns, `osSemaphoreRelease`
stops at the maximum, a put waits for room, timer commands are carried out in
order, littlefs commits a file when it is closed. A definition named `Bad...` is
the operation that follows it with one plausible mistake; nothing refers to it.
It is there to show that the property named in `PROJECT.json` would notice.

The users, the card, the host and the scheduler are not held back: a key may come
at any moment, a card may go at any step, and every call that may fail does.
Where the code does not keep a promise in such a case the property says so in
its own words, and a history variable tells the case apart: `overlapped`
(`AppLoader`), `doubled` (`SdDialogs`), `remounted` (`SdFiles`), `outdated`
(`Archive`), `mistaken` (`IrdaDecoder`), `reset` (`InternalStorage`). No guard
reads them.


### FuriRecord
`dict`, `data`, `owner` and `holders` are the dictionary; `flag` is bit 0 of
every thread's flags, which `OtherFlagSet` raises and `OtherFlagWait` consumes
on behalf of all other subsystems, at any time. `CreateBegin`, `CreateOwner`,
`CreateNotify`, `CreateEnd` follow the writes of `furi_record_create`, because
openers read `owner` and `data` outside the mutex; `OpenHold`, `OpenCheck`,
`OpenWait`, `OpenReturn` are one round of `furi_record_open`'s loop. `handle` is
a history variable: the pointer a thread has open. Environment, from the use in
the firmware and from "Open and close must be executed from the same thread":
each name is created by one thread (`Provider`), a thread opens a record it has
not open, closes what it opened, and a record's provider does not create it
twice.

### InternalStorage, KeyValueStore, StorageClients
The caller's command on its stack is `frame[c]`; the queue holds the caller, as
the C queue holds a pointer. Boot is one action per flash operation, so that
`Reboot` can come between them; what a format or a write had done by then is a
nondeterministic choice; a write that was cut off may leave the file of no bytes
that opening it made. Commands are served whatever became of the mount, and the
user may ask for a factory reset at any time; `reset` remembers whether the last
one is due, was carried out, or was followed by a write. `CloseFails` says whether `lfs_file_close`, whose result
the code drops, may fail. `InternalStorage` maps to `KeyValueStore` by taking the
moment the service ran the command as the step. `StorageClients` replaces the
free flag by the registry's.

### AppLoader
`Starters` are threads with the entry points they use. The level's `++` and `--`
are a load and a store (`Change`). `Bodies` are the OS threads that
can be alive at once: the new one starts while the old one is on its way from
state Stopped to `osThreadExit`. A failed assertion sets `failed` and ends the
behaviour. `overlapped` remembers that two starters have been past the check of
the state at once, which no lock prevents.

### InputService
`Settle`, `Same`, `Differ` are the branches of the scan loop; `TimerStart`,
`TimerStop`, `TimerWait` the calls into the timer service; `Expire` and
`CallbackEnd` the timer callback. `draining` is the daemon's habit of emptying
its command queue before it looks at the timers again, on which `PressIsOver`
depends. `sent` records what was published for each button since its last
Press. Time is left out: an active timer may expire whenever the daemon is free,
which includes what a slow or late tick does.

### Gui
Publishers put events under the PubSub's mutex (`PubSubFree`); the GUI thread
drains its queue, holding its mutex (`Locked`) in the callbacks; an application
handles messages and may ignore, change its model, or leave its only view. A
dispatcher's view changes and its `enabled` flag are one step with the update
that follows in a step of its own (`Show`, `Update`; `Leave`, `Hide`).

### CliSession
The USB callbacks are single steps (they run in an interrupt); a writer is in one
of the steps of `api_hal_vcp_tx` and `CDC_Transmit_FS`. A character is text,
return, ETX, or the SOH and EOT of the control line, and may come without a terminal. On
a device that is not configured `CDC_Transmit_FS` reads its state through a null
pointer: `Begin` then goes either way. Only what the properties
tell apart of the line is kept: whether it is empty.

### Notification
A light has the values of two layers, the index of the one on top, and what the
hardware shows. A sequence is worked off in one step (`Notify`, and `Worked`, a
recursive function of the number of messages done): only
this thread touches lights, motor and speaker, and timer commands go through a
queue, so what happens meanwhile commutes with it. Brightness is on or off.
The requests are the sequences that the services and CLI commands send, with two
LEDs.

### SdFiles
`owner` and `object` are a slot of the table: the thread in `thread_id`, and the
thread whose `f_open` made the FatFs object in it valid. A file call is the check
under the mutex (`ClaimSlot`, `CheckUse`, `CheckClose`), the FatFs call after the
unlock, and for a close the freeing of the slot under the mutex again. FatFs
marks every open object invalid when a volume is mounted, unmounted or
formatted; that is the reason a late call mostly does no harm. But it loses its
slot to an unmount and may come after the next mount (`Register`), when the slot
holds another thread's file: `remounted` remembers that a volume was registered
over such a call. Directories are files with another tag and go through the same
code.

### SdDialogs
`appPc` is the service's thread in the handler of `handled`; `keyPc` the GUI
thread in a key's callback, during which it holds `guiMutex`; `clientPc` a client
in `sd_api_file_select`. `tableLock` is the file table's mutex, which the service
holds while it adds or removes the view port. `doubled` remembers that a key was
pressed before the one ahead of it was answered, or that a listing failed, which
reports itself twice. `faulted` is `view_holder_stop` with no view holder; the
behaviour ends there.

### NfcApp
The worker's `state` is its only channel for orders and for the end: `GetStop`
overwrites it, `EndLoop` writes ready. `BeginLoop`, `NextPass`, `Search` and
`PutReport` are one pass of the worker's loops, which differ in when they report.
`StartWorker` may get no thread from `osThreadNew`, and an emulation may end
before it begins. `stale` in a report, and the `old` in `found`, say that an
earlier worker found it; the C structure has no such field, it is there for
`FoundIsFresh`.

### IrdaDecoder
`CommonDecode` is `irda_common_decode`; `PdwmPass` one pass of
`irda_common_decode_pdwm`'s loop, a recursive function of the number of passes.
A duration is the class that the protocols' tolerances tell apart, and a byte is
one bit: a frame has four of them, with the redundancy of the real one. The
remote control is the environment: it sends frames, repeats of the last frame and
flashes, after a pause in which a repeat may come or a longer one, and stops at
any edge. A Samsung frame whose first bit is 1, sent within that pause, begins
like a repeat; `mistaken` remembers that a decoder which waits for one was given
it.

### Archive
`files`, `idx`, `depth` and `last_idx` are the code's; `onCard` is the number of
files in each directory of the path and `entered` the index each was entered at,
a history variable for `BackReturns`. `Listing` is `archive_get_filenames`, which
may fail at the start or at any file. `EnterDir` does not look at the depth: past
`MAX_DEPTH` the index lands in the byte after `last_idx`, which is `browser.menu`.
`outdated` remembers that in this tab a list outlived a file or came back in part.

### Lists, Ring
The two lists keep the selection in different ways, one as a row of the screen
plus the first file on it, the other as an item and the first item on the screen.
Both implement `Ring`. A list of files may be empty; its row is a byte, and Up
makes it 255.

## Runs

Each run's question is in `PROJECT.json`. The bounds, and why they suffice:

| run | instance | distinct states | shows |
|---|---|---|---|
| `record` | 1 service, 2 clients, 1 name, 2 pointers | 7k | safety, refinement, opens return; two openers make the holders a set in which one wakeup may be missed, two pointers tell a record from its next life |
| `storage` | 2 callers, 1 key, 2 values, queue of 1, 2 power losses | 38k | atomic calls, factory reset; a queue of 1 makes callers wait, two losses allow one inside the recovery from another |
| `devices` | input: 2 buttons, debounce 4, long after 2, timer queue 2; NFC: 2 worker threads, queue of 2 | 292k | event sequences, no movement is missed; one worker, fresh finds, a stop stops; a timer queue smaller than the commands of two buttons makes the thread wait, a second worker would need a second thread, and a queue of 2 holds a stale report and a key |
| `gui` | 2 publishers, 2 applications on one layer, GUI queue of 1, application queues of 2, 3 events; symmetric | 554k | nothing stranded, lost or freed in use; a queue of 2 holds an event behind which the application puts its Stop, and fills with three |
| `notification` | 2 clients, 8 sequences, queue of 1, 3 requests | 52k | layers, leftovers, frames, blocking calls return, the display goes off |
| `threads` | CLI: 2 writers, stream of 1, 2 batches; dialogs: queue of 2, one client | 185k | waits end, or end in one of three named deadlocks; a stream of one character overflows, a queue of 2 fills with a key and a client's request, and a second key waits behind it |
| `data` | loader: GUI and CLI thread, all entries, 2 OS threads, 2 applications, level modulo 2; files: 2 threads, 2 slots, 1 try to mount; decoders: 3 items of 4 bits; archive: 3 directories under `MAX_DEPTH` 2, 3 files; lists: 4 rows, up to 6 entries | 2.8M | who may meet an assertion, one application; files apart; decoded as sent; selections in their lists. Two OS threads are an ending one and its successor; an open that fails keeps its slot, so two threads fill the table, and one try is enough for a mount that fails and one that succeeds; a broken frame comes between two whole ones, a path is longer than `last_idx`, lists are empty, shorter and longer than the screen |

Queues have one or two places so that every producer blocks; three events or
requests are enough for one being handled, one queued and one blocked. Symmetry
is used only in `gui`, which has no liveness property. Deadlock checking is off
where a component may rest: events or requests are bounded (`gui`,
`notification`, `data`), an application may have been left (`devices`), an assertion
or a NULL pointer may have stopped the firmware (`data`, `threads`), and the
threads of the dialogs may stop each other, which `NobodyWaitsForEver` spells out.
The other runs check it.

The type invariants of the components in `threads` and `data` are checked as one,
`ThreadsTypeOK` and `DataTypeOK`: they bound the queues, the decoders' buffers and
the lists' rows. Those of `FuriRecord`, `InternalStorage`, `InputService`,
`AppLoader` and `NfcApp` are proved. `TypeOK` of `Gui` and `Notification` hold on
the same instances and are proved too; they document the variables and are left
out of the runs.

Five runs are expected to be violated: each checks one sentence of a header, a
comment or an assertion that the code does not keep.

- `storage_close`: a write whose close fails reports success.
- `storage_clients`: a thread flag left over from `furi_record_open` ends the
  next storage call early, while the service still has the caller's frame. Needs
  a client that finds the record already created but is among the holders the
  creator signals.
- `app_loader_archive`: the archive's start does not raise the insomnia level,
  its end (or a failed `osThreadNew`) lowers it.
- `gui_stop`: an application whose queue is full blocks on its own Stop.
- `nfc_exit`: leaving the NFC application frees the worker and the queue while
  the worker thread, which was told to stop a moment before, still uses them.

### What the passing runs assume

No passing run restricts the user, the order of calls or which of them fail.
What is left is this:

- `storage`: `lfs_file_close` does not fail (`CloseFails`); what happens when it
  does is the run `storage_close`.
- `notification`: the timer daemon's queue has room for every command of the
  run's sequences. `osTimerStart` drops what does not fit, and with
  `TimerQueue = 1` the display may stay lit: `DisplayGoesOff` does not hold.
- `record`: each name is created by one thread, and a thread opens what it has
  not open.

Where a property holds only up to a point, its definition names the point:

| property | holds until | then |
|---|---|---|
| `FailsOnlyByOverlap`, `OneApp` | two starters are past the check of the thread's state together | an assertion fails, or one application is started over another |
| `HolderMatchesState` (its `faulted`) | a key comes before the one ahead of it was answered, or a listing fails | `view_holder_stop` may get NULL |
| `NobodyWaitsForEver` | one of the three states of `Deadlocked` | nobody goes on |
| `FilesStayApart` | a volume is registered over a call that lost its slot | the call reaches another thread's file |
| `SelectedExists` | a list outlives a file or comes back in part, or the path is longer than `last_idx` | the selected index is past the list |
| `BackReturns` | the path is longer than `last_idx` | another entry is selected |
| `SelectionShown` (files) | never, for a list that has a file | in an empty one Up leaves the rows |
| `DecodesWhatWasSent` | a frame begins like the repeat a decoder waits for | it is reported as that |

### Seen while modelling

Other places where the modules contain behaviour that a comment or an assertion
does not lead one to expect. No property of a run claims the opposite.

- `app-loader.c:41`: the GUI and the CLI thread may both find the thread stopped,
  as line 14 knows ("TODO add mutex for contex"), and an assertion of `thread.c`
  fails for one of them. `NoAssertFails` states the opposite and does not hold.
- `api-hal-power.c:83`: the decrement for an application that ends runs after its
  Stopped can be seen (`thread.c:23`), without a lock, and may lose the increment
  for the next one, also when both are started from the menu: the calls are
  paired and the level is not. `Paired` is violated in that way as well.
- `irda_decoder_samsung.c:59`: a frame that comes within 150 ms of another and
  whose address begins with a 1 is reported as a repeat of that one. The
  decoder's tests hold frames as close as that, with an address that begins with
  a 0, and expect each as a message of its own. `EveryFrameIsReported` states
  this and does not hold (`mistaken`).
- `input.c:113`: the debounce counter is armed once. After it has reached a
  bound, a level read a single time is an event (`Same`, `Differ`); `input.h:9`
  says "emitted after debounce".
- `view.c:149`: a second Short Back in the queue meets no current view
  (`LeaveAgain`).
- `api-hal-vcp.c:39`: an unplugged cable sends no EOT, and the half-typed line
  stays for the next session.
- `api-hal-vcp.c:101`: the branch marked "Shouldn't be there" (`Delay`) is
  reached whenever a control line changes during a transfer. From then on two
  permits go round, and of two writers one may be sent to `Delay` again and
  again; no property says that such a write returns.
- `notification-app.c:178`: turning the display off stops its timer and then
  starts it again, so the timer goes on for ever.
- `notification-app.c:254`: a LED that `do_not_reset` should leave on is turned
  off at once when it hides a lasting light.
- `sd-filesystem-api.c:204`: the slot is claimed before `f_open` and kept when it
  fails, and `fs_file_close` is refused without a mounted card (line 41). After
  two such opens every later one is SD_TOO_MANY_OPEN_FILES until the card is
  unmounted. `SlotsComeBack` states the opposite and does not hold.
- `sd-filesystem-api.c:263`: a call that was between its unlock and FatFs while
  the card was pulled, put in again and mounted works on whatever file is in the
  slot by then, and a late close closes it. `FilesStayApart` without its
  condition does not hold.
- `sd-filesystem.c:592`: three deadlocks of the dialogs (`Deadlocked`). The
  service waits for the GUI's mutex holding the table's while the GUI thread
  waits for the table's to scroll; or while the GUI thread waits for room in the
  service's queue; or the service itself, when a listing fails, waits for room in
  its own queue (`file_select`'s callback, `sd-filesystem.c:503`).
- `sd-filesystem.c:632`, `:793`: a Back in the background, left over from a second
  key, calls `view_holder_stop` with NULL; so does a file list that cannot be read
  (line 890), which is reported by its callback and by the handler (`faulted`).
- `nfc_worker.c:42`: nobody looks at what `osThreadNew` returns. Without a thread
  the state stays that of the mode, and Stop after the next Back: no later search
  starts. An emulation whose start fails (line 388) ends its thread with the state
  Ready, before the user's Back, which then sets Stop with nobody to end it.
  `WorkerStops` therefore speaks of a worker that runs.
- `file_select.c:92`: in an empty folder Up stores 255 in the row, and OK then
  reads `filename[255]`; the loops that fill the rows do not end on a read error.
- `archive.c:86`: nothing looks at the depth when a directory is entered. Past
  `MAX_DEPTH` the index overwrites the byte after `last_idx`, which is
  `browser.menu`: the file menu opens or closes with it.
- `archive.c:203`, `:224`: a pin moves the file away without a new listing, a
  rename can take the file out of the list while its menu stays open, and only a
  deletion clamps the index (`outdated`).
- `archive.c:153`: a read error ends the list early where it leaves no name; one
  that stays and does leave a name keeps the loop going for ever.

## Fairness

Threads that are ready run: FreeRTOS is preemptive with time slices, and no
thread here spins without sleeping, so their steps have weak fairness. Mutexes,
queues and semaphores keep their waiters in a list, by priority and then in
order of arrival; a waiter that is enabled again and again is served, hence
strong fairness of the steps that wait (`OpenHold`, `Put`, `InputCallback`,
`PutStop`, `Free`, `Acquire`, `DaemonPut`, the daemon's `Command`). Nothing is
assumed of users, of the applications' decisions, of the host opening or
closing a terminal, or of when a timer expires, with two exceptions: a host that
is there takes the transfers it was offered, and the display timer, once
running, expires. In `SdDialogs` the user, in the end, presses Back in a dialog;
in `NfcApp` the queue's waiters are served in order, hence strong fairness of a
worker that reports. The threads of `SdDialogs` have weak fairness only: nobody who
waits there is overtaken for ever.

## Proofs

Every theorem is proved for all values of the constants, from the named
assumptions of the modules, each as weak as: the sets of threads do not contain
the null values, a capacity is a positive number, a sequence consists of
messages. One theorem has a hypothesis besides, on a constant that says which
failures the flash has: `StorageIsAStore` holds for `~CloseFails`, and the run
`storage_close` shows what is lost without it. All others hold of every behaviour
of their module; the conditions in the table above are in the properties they
prove.

No safety property here is inductive by itself, with the exception of
`SelectionShown`; each module strengthens its own. The strengthened invariants
were model-checked on the instances of the runs before they were proved.

**`FuriRecordProofs`**: type correctness, `RecordPointerLive`, `HandleLive`,
`ReturnsData`, `NoLostWakeup`, and the refinement of `RecordService`. `IInv` is
the five properties and

- `CreatorOwnsMutex`: a thread in the middle of a create holds the mutex, so
  nobody else changes the dictionary meanwhile; this is what makes the loop over
  the holders meet everyone who was a holder when `owner` was set;
- `OwnedHasData`: a record with an owner has data (data is written first);
- `ReturningSawOwner`: a thread about to return still finds the owner it saw,
  since it is a holder and a record with holders is not destroyed;
- `NoHandleYet`: a thread in the middle of an open has no handle for that name,
  which the refinement needs to tell asking from having.

`NextService` maps each step: `CreateOwner` is `Publish`, `Destroy` is
`Withdraw`, the first `OpenHold` is `Ask`, `OpenReturn` is `Grant`, `Close` is
`Release`, everything else is a stutter.

**`InternalStorageProofs`**: `CallsIInv` adds to the types that a call waiting for
its flag has exactly one command, in the queue or in the service's hands, unless
its flag is set (`OneCommandEach`, `FramesExist`, `FlagIsAnswer`). That no two
places of the queue name one caller is what the append and tail lemmas are for.
`OneWaitOneCommand` follows. `ResetNotRepeated` has an invariant of its own on
the order of the boot steps (`ResetOrder`): until the request of a format that
succeeded is dropped no command runs, and once something was written after it no
request is left from before; `FactoryResetErases` is an action property that only
`ResetClear` could break. The refinement of `KeyValueStore`, `StorageIsAStore`,
needs `FrameIsCommand` too: the command names the operation its caller's frame
asks for, and the frame is as the caller left it until the command has run.
`RunRead` is `Read`, `RunWrite` is `Write`, the formatting steps are `Lose`,
putting, getting and completing a command are stutters.

**`InputServiceProofs`**: `InputIInv` places each button in a phase of its press.
`TimerPhases`: when the thread is done with a release the button's timer is off
for good, which means that no callback runs, every start still queued is
followed by a stop (`StartsEnd`), and if the timer is active the daemon is still
emptying the queue that holds its stop (`TimerOff`). `Reports`: the counter, the
callback and the events sent tell the same about whether the press is long.
`PressSequence` and `PressIsOver` follow, for any number of buttons and any
length of the daemon's queue.

**`GuiProofs`**: five invariants. `OrderIInv` follows an event from its
publisher's hand through both queues to the application: whatever is further
along was published earlier (`GuiOrder`, `AppOrder`), at most one publisher is
between the mutex and the queue (`OnePublisher`), and the GUI thread holds at
most the event it took last (`LastInHand`). `HandledInOrder` is then an action
property of one step. `SignalIInv` is the small invariant behind
`NoStrandedInput`. `PlaceIInv`: a view port is in its layer, once, exactly while
its application has it, and the GUI thread calls only such ports while it holds
its mutex (`PortPlaced`), hence `CallbackIsLive`. `ScreenIInv`: an application on
its way out is disabled, and once no redraw is due or about to be asked for
(`Quiet`) the GUI thread has drawn, or is drawing, the port on top (`ScreenOrder`);
it needs `PlaceIInv`, and `OrderIInv` for the queues' contents. `ScreenIsCurrent`
follows. Since the port on top is chosen by its place in a sequence, the lemmas
say how attaching, removing and disabling a port moves the others. `TypeIInv` is
the types and that a publisher about to put has an event: a zero in an
application's queue is a Stop message, so this is also why none is made up. The
types of the layers and of `port` come from `PlaceIInv`.

**`NotificationProofs`**: `SequenceIInv` says that a blocking call has one message
in the queue or in hand until it is told (`OneMessageEach`, `NotToldYet`), hence
`SequenceIsLive`. `LightsIInv` is the types of the lights and of the daemon's
queue, and `LightsShown`. In the
middle of a sequence the weaker `RunOK` holds: what is on was named by this
sequence, or by an earlier one that keeps it; the reset at the end makes
`LightsShown` of it. That `RunOK` holds after every message of a sequence of any
length is an induction over the sequence. The library's induction theorems are
of no use to these provers, so the lemma takes the smallest number of messages
after which it does not hold, which exists as `<` on the naturals is well-founded
(`WFMin`), and derives a contradiction. `NotificationTypeCorrect` adds the types
of the other variables; the bound on the daemon's queue, in which a sequence
leaves commands without waiting for room, is carried through the same run.

**`ThreadsProofs`**: for `CliSession`, `CliIInv` is the types, `BatchLeft` (a
writer in the middle of a write has a batch to send) and `PermitSomewhere`: while
the device is configured its permit is in the semaphore, with a transfer in
flight, or with a writer that is about to start one. For `AppLoader`, `LoaderIInv`
is the types and, until two starters have overlapped, `NoAssertFails`,
`StarterHasThread` (one starter at a time is past the check, the state stays
stopped until it is done, and while it makes the OS thread none is alive) and
`StateOfBody` (the state tells which body, if any, runs). `FailsOnlyByOverlap` and
`OneApp` follow, for any set of starters. For `SdDialogs`, `DialogsIInv` is the
types and `ScreenOfHandler` (where the service is in a handler says what is on the
screen), `OneRequest` (a client's request is in one place: queue, handler, screen
or answer) and, until a key was `doubled`, `OneClosing` (at most one key that may
close the screen is on its way, and its screen is there). For `NfcApp`, `NfcIInv`
is the types, `Alone` (one worker, and none while the state says Ready or
broken), `InOrder` (in the queue the reports of ended workers stand before those
of the one that runs) and `Follows` (once a worker has updated the screen, an
earlier find that is shown or queued has a report of this worker behind it).
`OneWorker` and `FoundIsFresh` follow without a word about the user.
`ThreadsTypeCorrect` puts the components of `MCThreads` together: a step of the
sum is a step of one.

**`DataProofs`**:

- Files: `FilesIInv` is the types and five parts that tie the calls to the
  volume. Whatever happens, a call under way has a slot number and the service
  has the mutex in its operations (`LockDiscipline`), a call about to free its
  slot has closed its object (`ClosedIsGone`), and without a volume no object is
  valid (`NoVolumeNoObject`). Until `remounted`, a call loses its slot only to an
  unmount, after which there is no volume until it is over (`OwnsSlot`), and with
  one no two calls are in the same slot (`SlotsApart`); `FilesStayApart` follows.
- Lists: `ListsIInv` is the types and `SelectionShown`, which is inductive once
  `LastFirstType` says what the unsigned differences are. With it each key's step is a step of `Ring`, for any length of list, and a screen of at most 256 rows,
  the row being a byte.
- Archive: `ArchiveIInv` is the types, `SelectedExists`, and what it rests on:
  while the depth is that of the path, `last_idx` holds the index at which each
  directory above was entered (`Remembers`); until `outdated`, those indices are
  below the number of files there (`InList`) and the list is no longer than the
  open directory (`ListsTheCard`). `BackReturns` needs the first of them only.

**`IrdaProofs`**: two invariants. `IrdaIInv` says what a decoder keeps between two
timings (`Keeps`), whatever was in the air: that is what makes six timings
enough. `RunOK` says the same of a run of `irda_common_decode_pdwm` after each of
its passes.

`DecodesWhatWasSent` is about what dozens of timings make of two decoders that
listen to the same edges, one of them to a protocol not its own. `DecodeIInv`
therefore says where both are after every timing. The remote is in one of four
phases: `Quiet`, `InFrame`, `InRepeat` or `InNoise`, with k timings of the item
given to the decoders and the rest in the air (`Remains`). In each phase every
decoder is

- at rest (`Resting`: what it has left ends with a mark), after the silence with
  which an item begins (`Silent`), or after the first mark (`Marked`);
- from the preamble of a frame on (`Follows`): in step with it, with as many bits
  as were sent (`Synced`), past a frame of the other protocol with nothing but
  the last mark (`Missed`), or waiting for a repeat and storing the frame's
  beginning meanwhile (`Buffered`), until it is as long as a repeat, turns out to
  be none, and is decoded from the timings stored;
- in a repeat (`HearsRepeat`): collecting it, if it has just reported a valid
  frame of that protocol, or hearing it as the beginning of some frame, which
  never gets beyond its first bit.

That a decoder is `Resting` at the end of every item is what lets the next one
begin; an interruption leaves it at rest as well. The one item that does not keep
to this is a Samsung frame that begins like the repeat a decoder waits for. The
decoder is then `Misled`: the first six timings complete a repeat, the rest hold
no preamble, and at the end it is at rest again, having reported what was not
sent. `mistaken` says so of the item in the air, and `Apart` that any other frame
is told from a repeat in time. There is a lemma for
each kind of timing (`SilenceStep`, `MarkStep`, `PreambleStep`, `BurstStep`,
`SpaceStep`, `StopStep`, `CollectStep`, `OverhearStep`, `MisledStep`, `MisledStop`), below them the lemmas
that say what the search for the preamble and each pass of the decoding loop make
of up to six timings, and above them one lemma for each item's edge.

Only model-checked:

- all liveness (`OpenReturns`, `CallsReturn`, `SeesButtons`, `BlockReturns`,
  `DisplayGoesOff`, `WritersWake`, `NobodyWaitsForEver`,
  `WorkerStops`), which rests on fairness and `ENABLED`, outside the prover's
  reach;
- `StorageClients`. Once the registry has woken a caller early, the service writes
  to a frame that is gone, and what the C program then does is not defined: the
  run needs one such behaviour, a theorem would claim something of all of them;
- the five properties that the code violates.

## Not modelled, and why

Most of the lines in `src/` are not the program's own logic: FatFs and its code
page tables, littlefs, u8g2 and its fonts and display tables, the RFAL stack of
the NFC chip, the cube HAL, generated assets, and target `f5`, which repeats
`f6`. The models treat them as external, by what the code relies on. What is
left of the firmware's own code without a model:

- GUI: reordering of a layer, status bar layers, the screen stream's callback
  pair, dispatchers without a queue, removal of a view; canvas, elements, fonts,
  text and byte input, whose work is drawing and layout.
- `core/furi`: subscriptions to a PubSub, which happen at start; `ValueMutex`;
  nested opens of a record and threads that exit while they hold one.
- The interrupt manager (a list filled at start), tickless idle (its correctness
  is that of the low-power timer), the register access of the HAL.
- Application arguments; the CLI's command tree and line editing.
- SD card: texts, icon and notifications; rename, remove, mkdir and stat, which
  pass straight through to FatFs.
- Dolphin, the power service's countdown, Bluetooth (a queue in front of the
  radio coprocessor's library), and the scenes of RFID, iButton, sub-GHz,
  infrared and accessor, whose behaviour is signal timing against hardware.

What would come next, in this order: the views of a dispatcher as objects that
are removed while drawn; the command tree against threads that add and delete
commands; the dolphin's saved state over `KeyValueStore`; contexts and arguments
in `AppLoader`.
