--------------------------- MODULE InternalStorage ---------------------------
(***************************************************************************)
(* applications/internal-storage: a service thread that owns a littlefs    *)
(* volume in flash.  A caller builds a command on its own stack, puts a    *)
(* pointer to it in the service's queue and waits for thread flag          *)
(* INTERNAL_STORAGE_THREAD_FLAG_CALL_COMPLETE (bit 0).  The service mounts *)
(* the volume at boot, formatting it when it does not mount or when the    *)
(* user asked for a factory reset.  Power may be lost at any point; what is *)
(* in flash and in the RTC backup registers survives.                      *)
(*                                                                         *)
(* In this module nobody else raises bit 0 in a caller's flags;            *)
(* StorageClients composes the service with the record registry, which     *)
(* does.                                                                   *)
(***************************************************************************)
EXTENDS Naturals, Sequences

CONSTANTS Callers,   \* the threads that read and write keys
          Keys, Values,
          NoValue,   \* there is no file
          Empty,     \* the value of a file of no bytes
          QueueSize, \* commands the queue holds: 8 in the code
          NoFrame,   \* the caller is not in a call
          MaxReboots, \* bound on power losses
          CloseFails \* TRUE: lfs_file_close may fail, FALSE: it does not

ASSUME QueueAssumption == QueueSize \in Nat \ {0}
ASSUME StorageAssumption ==
  MaxReboots \in Nat /\ CloseFails \in BOOLEAN /\ NoValue \notin Values /\ Empty \in Values

VARIABLES
  state,        \* InternalStorageState, which nothing but the log reads
  factoryReset, \* ApiHalBootFlagFactoryReset in an RTC backup register
  files,        \* the volume: what each key's file holds
  queue,        \* the service's message queue
  task,         \* where the service thread is
  command,      \* the command it took last
  flag,         \* the callers whose flag bit 0 is pending
  pc,           \* where in a call each caller is
  frame,        \* the InternalStorageCommandKey on each caller's stack
  reboots,
  reset         \* history: the last factory reset is "due" (asked for), "done"
                \* (the volume was formatted) or "past" (and written to since)

storage == <<state, factoryReset, files, queue, task, command, reboots, reset>>
callers == <<flag, pc, frame>>
vars == <<storage, callers>>

Ops == {"read", "write"}
Frames == [op : Ops, key : Keys, value : Values \union {NoValue},
           ret : {"zero", "done", "error"}]
Commands == [thread : Callers, function : Ops]
Booting == {"boot", "reset_format", "reset_clear", "reset_mount", "format", "mount"}

TypeOK ==
  /\ state \in {"initializing", "ready", "broken"}
  /\ factoryReset \in BOOLEAN
  /\ files \in [Keys -> Values \union {NoValue}]
  /\ queue \in Seq(Commands) /\ Len(queue) <= QueueSize
  /\ task \in Booting \union {"get", "run", "complete"}
  /\ command \in Commands \union {NoFrame}
  /\ flag \subseteq Callers
  /\ pc \in [Callers -> {"idle", "put", "wait"}]
  /\ frame \in [Callers -> Frames \union {NoFrame}]
  /\ reboots \in 0..MaxReboots
  /\ reset \in {"due", "done", "past"}

(* What RAM is at power on. *)
Restarted ==
  /\ state' = "initializing"
  /\ queue' = <<>>
  /\ task' = "boot"
  /\ command' = NoFrame
  /\ flag' = {}
  /\ pc' = [c \in Callers |-> "idle"]
  /\ frame' = [c \in Callers |-> NoFrame]

Init ==
  /\ state = "initializing"
  /\ factoryReset \in BOOLEAN
  /\ files \in [Keys -> Values \union {NoValue}]
  /\ queue = <<>>
  /\ task = "boot"
  /\ command = NoFrame
  /\ flag = {}
  /\ pc = [c \in Callers |-> "idle"]
  /\ frame = [c \in Callers |-> NoFrame]
  /\ reboots = 0
  /\ reset = IF factoryReset THEN "due" ELSE "past"

-----------------------------------------------------------------------------
(* The faulty variants, named Bad..., are each an operation or a guard with *)
(* one mistake, which one of the properties has to notice.                 *)

Erased == [k \in Keys |-> NoValue]
Holding(k, v) == [files EXCEPT ![k] = v]
PartlyErased == {[k \in Keys |-> IF k \in S THEN NoValue ELSE files[k]] : S \in SUBSET Keys}

Go(location) == task' = location /\ UNCHANGED <<queue, command, reboots, callers>>

(* Head of internal_storage_task: read the boot flags; mount, if no reset  *)
(* was asked for.                                                          *)
BadBoot ==
  /\ task = "boot"
  /\ \/ factoryReset /\ Go("reset_format") /\ UNCHANGED state
     \/ ~factoryReset /\ Go("get") /\ state' = "ready"
     \/ ~factoryReset /\ Go("format") /\ UNCHANGED state
  /\ factoryReset' = FALSE \* dropped when it is read
  /\ UNCHANGED <<files, reset>>

Boot ==
  /\ task = "boot"
  /\ \/ factoryReset /\ Go("reset_format") /\ UNCHANGED state
     \/ ~factoryReset /\ Go("get") /\ state' = "ready"
     \/ ~factoryReset /\ Go("format") /\ UNCHANGED state
  /\ UNCHANGED <<factoryReset, files, reset>>

(* lfs_format, which erases the volume or fails part of the way.           *)
Format(to) ==
  /\ \/ files' = Erased /\ Go(to) /\ UNCHANGED state
     \/ files' \in PartlyErased /\ Go("get") /\ state' = "broken"
  /\ UNCHANGED factoryReset

BadResetFormat == \* the flag stays set
  /\ task = "reset_format"
  /\ Format("reset_mount")
  /\ reset' = IF task' = "get" THEN "due" ELSE "done"

ResetFormat ==
  /\ task = "reset_format"
  /\ Format("reset_clear")
  /\ reset' = IF task' = "get" THEN "due" ELSE "done"

PlainFormat == task = "format" /\ Format("mount") /\ UNCHANGED reset

(* The request is dropped once the volume is empty.                        *)
ResetClear ==
  /\ task = "reset_clear"
  /\ factoryReset' = FALSE
  /\ Go("reset_mount")
  /\ UNCHANGED <<state, files, reset>>

Mount(from) ==
  /\ task = from
  /\ state' \in {"ready", "broken"}
  /\ Go("get")
  /\ UNCHANGED <<factoryReset, files, reset>>

-----------------------------------------------------------------------------
(* internal_storage_read_key and internal_storage_write_key are called.    *)
Call(c, op, k, v) ==
  /\ pc[c] = "idle"
  /\ task \notin Booting \* the record the caller opened first exists
  /\ op = "read" <=> v = NoValue
  /\ frame' = [frame EXCEPT ![c] = [op |-> op, key |-> k, value |-> v, ret |-> "zero"]]
  /\ pc' = [pc EXCEPT ![c] = "put"]
  /\ UNCHANGED <<storage, flag>>

Put(c) ==
  /\ pc[c] = "put"
  /\ Len(queue) < QueueSize
  /\ queue' = Append(queue, [thread |-> c, function |-> frame[c].op])
  /\ pc' = [pc EXCEPT ![c] = "wait"]
  /\ UNCHANGED <<state, factoryReset, files, task, command, reboots, reset, flag, frame>>

BadReturn(c) ==
  /\ pc[c] = "wait" \* the wait times out
  /\ flag' = flag \ {c}
  /\ frame' = [frame EXCEPT ![c] = NoFrame]
  /\ pc' = [pc EXCEPT ![c] = "idle"]
  /\ UNCHANGED storage

(* osThreadFlagsWait clears the flag; the frame goes out of scope.         *)
Return(c) ==
  /\ pc[c] = "wait"
  /\ c \in flag
  /\ flag' = flag \ {c}
  /\ frame' = [frame EXCEPT ![c] = NoFrame]
  /\ pc' = [pc EXCEPT ![c] = "idle"]
  /\ UNCHANGED storage

-----------------------------------------------------------------------------
(* The service loop.                                                       *)
Get ==
  /\ task = "get"
  /\ queue # <<>>
  /\ command' = Head(queue)
  /\ queue' = Tail(queue)
  /\ task' = "run"
  /\ UNCHANGED <<state, factoryReset, files, reboots, reset, callers>>

Running(op) == task = "run" /\ command.function = op

Answer(ret, value) ==
  /\ frame' = [frame EXCEPT ![command.thread].ret = ret, ![command.thread].value = value]
  /\ task' = "complete"
  /\ UNCHANGED <<state, factoryReset, queue, command, reboots, flag, pc>>

(* _internal_storage_read_key, which runs whether the volume was mounted   *)
(* or not: an error when it was not, the file is missing or flash cannot   *)
(* be read.  A file of no bytes is read without one.                       *)
BadRunRead ==
  LET f == frame[command.thread] IN
  /\ Running("read")
  /\ \/ Answer("done", files[f.key]) \* missing file: success
     \/ Answer("error", f.value)
  /\ UNCHANGED <<files, reset>>

RunRead ==
  LET f == frame[command.thread] IN
  /\ Running("read")
  /\ \/ files[f.key] # NoValue /\ Answer("done", files[f.key])
     \/ Answer("error", f.value)
  /\ UNCHANGED <<files, reset>>

(* _internal_storage_write_key: open, creating and truncating the file,    *)
(* write, close.  littlefs commits a new file's entry, of no bytes, when   *)
(* it is opened and the rest at close; the return value of lfs_file_close  *)
(* is dropped.                                                             *)
RunWrite ==
  LET f == frame[command.thread]
      Lost == {files, Holding(f.key, Empty)} IN
  /\ Running("write")
  /\ \/ files' = Holding(f.key, f.value) /\ Answer("done", f.value)
     \/ files' \in Lost /\ Answer("error", f.value)
     \/ CloseFails /\ files' \in Lost /\ Answer("done", f.value)
  /\ reset' = IF reset = "done" /\ files' # files THEN "past" ELSE reset

BadComplete ==
  /\ task = "complete"
  /\ flag' = IF frame[command.thread].ret = "error" THEN flag \* only success is signalled
                                                  ELSE flag \union {command.thread}
  /\ task' = "get"
  /\ UNCHANGED <<state, factoryReset, files, queue, command, reboots, reset, pc, frame>>

Complete ==
  /\ task = "complete"
  /\ flag' = flag \union {command.thread}
  /\ task' = "get"
  /\ UNCHANGED <<state, factoryReset, files, queue, command, reboots, reset, pc, frame>>

-----------------------------------------------------------------------------
(* power_cli_factory_reset sets the flag, at any time; the reset that      *)
(* follows is one of the power losses.                                     *)
RequestFactoryReset ==
  /\ factoryReset' = TRUE
  /\ reset' = "due"
  /\ UNCHANGED <<state, files, queue, task, command, reboots, callers>>

(* Power is lost or the MCU is reset.  A write under way happened, did not *)
(* or left a file of no bytes; a format under way got somewhere.           *)
Reboot ==
  /\ reboots < MaxReboots
  /\ reboots' = reboots + 1
  /\ \/ files' = files
     \/ /\ Running("write")
        /\ \E v \in {frame[command.thread].value, Empty} :
             files' = Holding(frame[command.thread].key, v)
     \/ task \in {"reset_format", "format"} /\ files' \in PartlyErased
  /\ reset' = IF reset = "done" /\ Running("write") /\ files' # files THEN "past" ELSE reset
  /\ Restarted
  /\ UNCHANGED factoryReset

Storage ==
  \/ Boot \/ ResetFormat \/ ResetClear \/ PlainFormat \/ Mount("reset_mount") \/ Mount("mount")
  \/ Get \/ RunRead \/ RunWrite \/ Complete

Next ==
  \/ Storage
  \/ \E c \in Callers :
       \/ \E op \in Ops, k \in Keys, v \in Values \union {NoValue} : Call(c, op, k, v)
       \/ Put(c)
       \/ Return(c)
  \/ RequestFactoryReset
  \/ Reboot

(* The service thread runs; a caller inside a call runs, and the queue     *)
(* keeps the threads that wait for room in order: strong fairness of Put.  *)
Fairness ==
  /\ WF_vars(Storage)
  /\ \A c \in Callers : SF_vars(Put(c)) /\ WF_vars(Return(c))

Spec == Init /\ [][Next]_vars /\ Fairness

-----------------------------------------------------------------------------
(* The service never touches a frame that is gone: a command in the queue  *)
(* or in the service's hands belongs to a caller that still waits for it.  *)
FrameLive ==
  /\ \A i \in DOMAIN queue : pc[queue[i].thread] = "wait"
  /\ task \in {"run", "complete"} => pc[command.thread] = "wait"

(* One wait, one command: a caller's flag is raised only for the command   *)
(* it is waiting for, after the command ran.                               *)
FlagMeansDone ==
  \A c \in flag :
    /\ pc[c] = "wait" /\ frame[c].ret # "zero"
    /\ \A i \in DOMAIN queue : queue[i].thread # c
    /\ task = "run" => command.thread # c

(* The frame a command points into and the flag that ends a wait belong to *)
(* the same call, in every interleaving of callers and service.            *)
OneWaitOneCommand == FrameLive /\ FlagMeansDone

(* "negative on error, otherwise data written": when a write reports       *)
(* success the volume holds the value.                                     *)
DoneMeansWritten ==
  task = "complete" /\ command.function = "write" /\ frame[command.thread].ret = "done" =>
    files[frame[command.thread].key] = frame[command.thread].value

(* A factory reset is not forgotten: the request is dropped only when      *)
(* nothing is left on the volume, whenever power is lost.                  *)
FactoryResetErases ==
  [][factoryReset /\ ~factoryReset' => files' = Erased]_vars

(* Nor is it repeated: after a reset, what is written to the volume is not *)
(* erased by another one at a later boot, whenever power is lost, unless   *)
(* the user asks again.                                                    *)
ResetNotRepeated ==
  task = "reset_format" => reset # "past"

(* Every call returns, or power is lost.                                   *)
CallsReturn == \A c \in Callers : pc[c] # "idle" ~> pc[c] = "idle"

(* The service is a store whose reads and writes are single steps.         *)
Executed(c) ==
  /\ pc[c] = "wait"
  /\ \A i \in DOMAIN queue : queue[i].thread # c
  /\ task = "run" => command.thread # c
Asked(c) == [op |-> frame[c].op, key |-> frame[c].key,
             value |-> IF frame[c].op = "read" THEN NoValue ELSE frame[c].value]
StoreCall == [c \in Callers |-> IF frame[c] = NoFrame THEN NoFrame ELSE Asked(c)]
StoreResult == [c \in Callers |-> IF frame[c] # NoFrame /\ Executed(c)
                                  THEN [ret |-> frame[c].ret, value |-> frame[c].value]
                                  ELSE NoFrame]
Store == INSTANCE KeyValueStore WITH
  NoCall <- NoFrame, Ok <- "done", Error <- "error", call <- StoreCall, result <- StoreResult

(* Having no call is neither a frame, nor a call, nor an answer.           *)
ASSUME NoFrameAssumption == NoFrame \notin Frames \union Store!Calls \union Store!Answers

ImplementsStore == Store!Spec
==============================================================================
