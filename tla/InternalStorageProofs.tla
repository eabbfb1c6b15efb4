------------------------ MODULE InternalStorageProofs ------------------------
(***************************************************************************)
(* Proofs about InternalStorage for any callers, keys, values and queue:   *)
(* the frames and flags of calls are never mixed up, and a factory reset   *)
(* is neither lost nor repeated, wherever power goes.                      *)
(***************************************************************************)
EXTENDS InternalStorage, TLAPS

-----------------------------------------------------------------------------
(* The parts of the inductive invariant the runs do not name.              *)

Serving == task \in {"run", "complete"}

(* Each caller has at most one command, in the queue or in the service.    *)
OneCommandEach ==
  /\ \A i, j \in 1..Len(queue) : i # j => queue[i].thread # queue[j].thread
  /\ Serving => \A i \in 1..Len(queue) : queue[i].thread # command.thread

(* A caller in a call has a frame, and the service in a command has the    *)
(* command; its caller waits, and was not told yet that it is done.        *)
FramesExist ==
  /\ \A c \in Callers : pc[c] \in {"put", "wait"} => frame[c] \in Frames
  /\ Serving => command \in Commands /\ pc[command.thread] = "wait" /\ command.thread \notin flag
  /\ task = "complete" => frame[command.thread].ret # "zero"
  /\ \A i \in 1..Len(queue) : pc[queue[i].thread] = "wait" /\ queue[i].thread \notin flag

(* A raised flag belongs to a call that was answered.                      *)
FlagIsAnswer == \A c \in flag : pc[c] = "wait" /\ frame[c].ret # "zero"

(* The request for a factory reset is dropped when nothing is on the       *)
(* volume; until it is, no command runs after a format that succeeded, and *)
(* once something was written no request is left from before.              *)
ResetOrder ==
  /\ task = "reset_clear" => files = Erased
  /\ reset = "done" /\ factoryReset => task \in {"boot", "reset_format", "reset_clear"}
  /\ reset = "past" => ~factoryReset /\ task \notin {"reset_format", "reset_clear"}

CallsIInv == TypeOK /\ OneCommandEach /\ FramesExist /\ FlagIsAnswer

-----------------------------------------------------------------------------
(* What Append and Tail do to the queue.                                   *)
LEMMA AppendToQueue ==
  ASSUME NEW S, NEW q \in Seq(S), NEW e \in S
  PROVE  /\ Append(q, e) \in Seq(S) /\ Len(Append(q, e)) = Len(q) + 1
         /\ \A i \in 1..Len(q) : Append(q, e)[i] = q[i]
         /\ Append(q, e)[Len(q) + 1] = e
OBVIOUS

LEMMA TailOfQueue ==
  ASSUME NEW S, NEW q \in Seq(S), q # <<>>
  PROVE  /\ Tail(q) \in Seq(S) /\ Len(Tail(q)) = Len(q) - 1 /\ Len(q) >= 1
         /\ Head(q) = q[1] /\ q[1] \in S
         /\ \A i \in 1..Len(Tail(q)) : Tail(q)[i] = q[i + 1] /\ i + 1 \in 1..Len(q)
OBVIOUS

(* Queued commands are of callers.                                         *)
LEMMA QueuedThreads ==
  ASSUME queue \in Seq(Commands)
  PROVE  \A i \in 1..Len(queue) : queue[i] \in Commands /\ queue[i].thread \in Callers
<1> SUFFICES ASSUME NEW i \in 1..Len(queue)
             PROVE  queue[i] \in Commands /\ queue[i].thread \in Callers
  OBVIOUS
<1>1. queue[i] \in Commands
  OBVIOUS
<1>2. QED
  BY <1>1 DEF Commands

(* The steps of booting touch no call.                                     *)
LEMMA BootStep ==
  ASSUME CallsIInv,
         \/ Boot \/ ResetFormat \/ ResetClear \/ PlainFormat \/ Mount("reset_mount") \/ Mount("mount")
  PROVE  CallsIInv'
<1>1. /\ UNCHANGED <<queue, command, reboots, flag, pc, frame>>
      /\ task' \in Booting \union {"get"} /\ state' \in {"initializing", "ready", "broken"}
  BY DEF CallsIInv, TypeOK, Boot, ResetFormat, PlainFormat, ResetClear, Format, Mount, Go,
         Booting, callers
<1>2. factoryReset' \in BOOLEAN /\ reset' \in {"due", "done", "past"}
  BY DEF CallsIInv, TypeOK, Boot, ResetFormat, PlainFormat, ResetClear, Format, Mount
<1>3. files' \in [Keys -> Values \union {NoValue}]
  BY DEF CallsIInv, TypeOK, Boot, ResetFormat, PlainFormat, ResetClear, Format, Mount,
         Erased, PartlyErased
<1>4. TypeOK'
  BY <1>1, <1>2, <1>3 DEF CallsIInv, TypeOK
<1>5. QED
  BY <1>1, <1>4 DEF CallsIInv, OneCommandEach, FramesExist, FlagIsAnswer, Serving, Booting

(* A caller calls.                                                         *)
LEMMA CallStep ==
  ASSUME CallsIInv, NEW c \in Callers, NEW op \in Ops, NEW k \in Keys,
         NEW v \in Values \union {NoValue}, Call(c, op, k, v)
  PROVE  CallsIInv'
<1>1. /\ frame' = [frame EXCEPT ![c] = [op |-> op, key |-> k, value |-> v, ret |-> "zero"]]
      /\ pc' = [pc EXCEPT ![c] = "put"] /\ pc[c] = "idle"
      /\ UNCHANGED <<state, factoryReset, files, queue, task, command, reboots, reset, flag>>
  BY DEF Call, storage
<1>2. [op |-> op, key |-> k, value |-> v, ret |-> "zero"] \in Frames
  BY DEF Frames
<1>3. TypeOK'
  BY <1>1, <1>2 DEF CallsIInv, TypeOK
<1>4. \A i \in 1..Len(queue) : queue[i].thread \in Callers
  BY QueuedThreads DEF CallsIInv, TypeOK
<1>5. OneCommandEach' /\ FramesExist' /\ FlagIsAnswer'
  BY <1>1, <1>2, <1>4
     DEF CallsIInv, TypeOK, Commands, OneCommandEach, FramesExist, FlagIsAnswer, Serving
<1>6. QED
  BY <1>3, <1>5 DEF CallsIInv

(* A caller's command enters the queue.                                    *)
LEMMA PutStep ==
  ASSUME CallsIInv, NEW c \in Callers, Put(c)
  PROVE  CallsIInv'
<1> DEFINE e == [thread |-> c, function |-> frame[c].op]
<1>1. /\ pc[c] = "put" /\ Len(queue) < QueueSize
      /\ queue' = Append(queue, e) /\ pc' = [pc EXCEPT ![c] = "wait"]
      /\ UNCHANGED <<state, factoryReset, files, task, command, reboots, reset, flag, frame>>
  BY DEF Put
<1>2. e \in Commands /\ frame[c] \in Frames
  BY <1>1 DEF CallsIInv, FramesExist, Frames, Commands
<1>3. /\ queue' \in Seq(Commands) /\ Len(queue') = Len(queue) + 1 /\ Len(queue) \in Nat
      /\ \A i \in 1..Len(queue) : queue'[i] = queue[i] /\ queue[i].thread \in Callers
      /\ queue'[Len(queue) + 1] = e
<2>1. queue \in Seq(Commands)
  BY DEF CallsIInv, TypeOK
<2>2. QED
  BY <1>1, <1>2, <2>1, QueuedThreads, AppendToQueue
<1> HIDE DEF e
<1>4. TypeOK'
  BY <1>1, <1>3, QueueAssumption DEF CallsIInv, TypeOK
<1>5. e.thread = c /\ c \notin flag /\ \A i \in 1..Len(queue) : queue[i].thread # c
  BY <1>1 DEF e, CallsIInv, FramesExist, FlagIsAnswer
<1>6. Serving => command.thread # c /\ command.thread \in Callers
  BY <1>1 DEF CallsIInv, FramesExist, Commands
<1>7. OneCommandEach'
  BY <1>1, <1>3, <1>5, <1>6 DEF CallsIInv, OneCommandEach, Serving
<1>8. FramesExist'
  BY <1>1, <1>2, <1>3, <1>5, <1>6 DEF CallsIInv, TypeOK, FramesExist, Serving
<1>9. FlagIsAnswer'
  BY <1>1, <1>5 DEF CallsIInv, TypeOK, FlagIsAnswer
<1>10. QED
  BY <1>4, <1>7, <1>8, <1>9 DEF CallsIInv

(* A caller whose flag is raised returns.                                  *)
LEMMA ReturnStep ==
  ASSUME CallsIInv, NEW c \in Callers, Return(c)
  PROVE  CallsIInv'
<1>1. /\ pc[c] = "wait" /\ c \in flag /\ flag' = flag \ {c}
      /\ frame' = [frame EXCEPT ![c] = NoFrame] /\ pc' = [pc EXCEPT ![c] = "idle"]
      /\ UNCHANGED <<state, factoryReset, files, queue, task, command, reboots, reset>>
  BY DEF Return, storage
<1>2. TypeOK'
  BY <1>1 DEF CallsIInv, TypeOK
<1>3. \A i \in 1..Len(queue) : queue[i].thread \in Callers \ {c}
  BY <1>1, QueuedThreads DEF CallsIInv, TypeOK, FramesExist
<1>4. Serving => command.thread \in Callers \ {c}
  BY <1>1 DEF CallsIInv, Commands, FramesExist
<1>5. OneCommandEach' /\ FramesExist' /\ FlagIsAnswer'
  BY <1>1, <1>3, <1>4
     DEF CallsIInv, TypeOK, OneCommandEach, FramesExist, FlagIsAnswer, Serving
<1>6. QED
  BY <1>2, <1>5 DEF CallsIInv

-----------------------------------------------------------------------------
(* The service takes a command.                                            *)
LEMMA GetStep ==
  ASSUME CallsIInv, Get
  PROVE  CallsIInv'
<1>1. /\ task = "get" /\ task' = "run" /\ command' = Head(queue) /\ queue' = Tail(queue)
      /\ queue # <<>>
      /\ UNCHANGED <<state, factoryReset, files, reboots, reset, flag, pc, frame>>
  BY DEF Get, callers
<1>2. /\ queue' \in Seq(Commands) /\ Len(queue') = Len(queue) - 1 /\ Len(queue) >= 1
      /\ Len(queue) \in Nat /\ command' = queue[1] /\ command' \in Commands
      /\ \A i \in 1..Len(queue') : queue'[i] = queue[i + 1] /\ i + 1 \in 1..Len(queue)
  BY <1>1, TailOfQueue DEF CallsIInv, TypeOK
<1>3. TypeOK'
  BY <1>1, <1>2, QueueAssumption DEF CallsIInv, TypeOK
<1>4. OneCommandEach'
  BY <1>1, <1>2 DEF CallsIInv, OneCommandEach, Serving
<1>5. FramesExist'
  BY <1>1, <1>2 DEF CallsIInv, FramesExist, Serving
<1>6. FlagIsAnswer'
  BY <1>1 DEF CallsIInv, FlagIsAnswer
<1>7. QED
  BY <1>3, <1>4, <1>5, <1>6 DEF CallsIInv

(* It runs it and writes the result into the caller's frame.               *)
LEMMA RunStep ==
  ASSUME CallsIInv, RunRead \/ RunWrite
  PROVE  CallsIInv'
<1> DEFINE t == command.thread
           f == frame[t]
<1>1. /\ task = "run" /\ task' = "complete"
      /\ UNCHANGED <<state, factoryReset, queue, command, reboots, flag, pc>>
  BY DEF RunRead, RunWrite, Running, Answer
<1>2. t \in Callers /\ pc[t] = "wait" /\ f \in Frames
  BY <1>1 DEF CallsIInv, FramesExist, Commands, Serving
<1>3. PICK r \in {"done", "error"}, v \in Values \union {NoValue} : Answer(r, v)
  BY <1>2 DEF RunRead, RunWrite, CallsIInv, TypeOK, Frames
<1>4. files' \in [Keys -> Values \union {NoValue}] /\ reset' \in {"due", "done", "past"}
  BY <1>2, StorageAssumption DEF RunRead, RunWrite, Holding, CallsIInv, TypeOK, Frames
<1>5. /\ frame' = [frame EXCEPT ![t] = [f EXCEPT !.ret = r, !.value = v]]
      /\ [f EXCEPT !.ret = r, !.value = v] \in Frames
      /\ [f EXCEPT !.ret = r, !.value = v].ret # "zero"
  BY <1>2, <1>3 DEF Answer, Frames, CallsIInv, TypeOK
<1>6. TypeOK'
  BY <1>1, <1>2, <1>4, <1>5 DEF CallsIInv, TypeOK
<1>7. FramesExist'
  BY <1>1, <1>2, <1>5 DEF CallsIInv, TypeOK, FramesExist, Serving
<1>8. FlagIsAnswer'
  BY <1>1, <1>2, <1>5 DEF CallsIInv, TypeOK, FlagIsAnswer
<1>9. OneCommandEach'
  BY <1>1 DEF CallsIInv, OneCommandEach, Serving
<1>10. QED
  BY <1>6, <1>7, <1>8, <1>9 DEF CallsIInv

(* It raises the caller's flag.                                            *)
LEMMA CompleteStep ==
  ASSUME CallsIInv, Complete
  PROVE  CallsIInv'
<1>1. /\ task = "complete" /\ task' = "get" /\ flag' = flag \union {command.thread}
      /\ UNCHANGED <<state, factoryReset, files, queue, command, reboots, reset, pc, frame>>
  BY DEF Complete
<1>2. command.thread \in Callers
  BY <1>1 DEF CallsIInv, FramesExist, Commands, Serving
<1>3. TypeOK'
  BY <1>1, <1>2 DEF CallsIInv, TypeOK
<1>4. OneCommandEach' /\ FramesExist' /\ FlagIsAnswer'
  BY <1>1 DEF CallsIInv, OneCommandEach, FramesExist, FlagIsAnswer, Serving
<1>5. QED
  BY <1>3, <1>4 DEF CallsIInv

(* Power is lost: no call is left.                                         *)
LEMMA RebootStep ==
  ASSUME CallsIInv, Reboot
  PROVE  CallsIInv'
<1>1. /\ state' = "initializing" /\ queue' = <<>> /\ task' = "boot" /\ command' = NoFrame
      /\ flag' = {} /\ pc' = [c \in Callers |-> "idle"] /\ frame' = [c \in Callers |-> NoFrame]
      /\ reboots' = reboots + 1 /\ reboots < MaxReboots /\ UNCHANGED factoryReset
      /\ reset' \in {reset, "past"}
  BY DEF Reboot, Restarted
<1>2. files' \in [Keys -> Values \union {NoValue}]
  <2>1. ASSUME Running("write"), NEW v \in {frame[command.thread].value, Empty},
               files' = Holding(frame[command.thread].key, v)
        PROVE  files' \in [Keys -> Values \union {NoValue}]
    <3>1. frame[command.thread] \in Frames
      BY <2>1 DEF CallsIInv, FramesExist, Serving, Running, Commands
    <3>2. QED
      BY <2>1, <3>1, StorageAssumption DEF Frames, CallsIInv, TypeOK, Holding
  <2>2. CASE files' = files \/ files' \in PartlyErased
    BY <2>2 DEF PartlyErased, CallsIInv, TypeOK
  <2>3. QED
    BY <2>1, <2>2 DEF Reboot
<1>3. TypeOK'
  BY <1>1, <1>2, StorageAssumption, QueueAssumption DEF CallsIInv, TypeOK, Booting
<1>4. OneCommandEach' /\ FramesExist' /\ FlagIsAnswer'
  BY <1>1 DEF OneCommandEach, FramesExist, FlagIsAnswer, Serving
<1>5. QED
  BY <1>3, <1>4 DEF CallsIInv

-----------------------------------------------------------------------------
(* Power comes on with no call.                                            *)
LEMMA CallsInit ==
  ASSUME Init
  PROVE  CallsIInv
<1>1. TypeOK
  <2>1. factoryReset \in BOOLEAN /\ reboots = 0 /\ 0 \in 0..MaxReboots
    BY StorageAssumption DEF Init
  <2>2. QED
    BY <2>1, QueueAssumption DEF Init, TypeOK, Booting
<1>2. QED
  BY <1>1 DEF Init, CallsIInv, OneCommandEach, FramesExist, FlagIsAnswer, Serving

(* Every step keeps the invariant.                                         *)
LEMMA CallsStep ==
  ASSUME CallsIInv, [Next]_vars
  PROVE  CallsIInv'
<1>1. CASE Storage
  BY <1>1, BootStep, GetStep, RunStep, CompleteStep DEF Storage
<1>2. CASE RequestFactoryReset
  <2>1. factoryReset' \in BOOLEAN /\ reset' \in {"due", "done", "past"}
    BY <1>2 DEF RequestFactoryReset
  <2>2. QED
    BY <1>2, <2>1 DEF RequestFactoryReset, callers, CallsIInv, TypeOK, OneCommandEach,
                      FramesExist, FlagIsAnswer, Serving
<1>3. CASE UNCHANGED vars
  BY <1>3 DEF vars, storage, callers, CallsIInv, TypeOK, OneCommandEach, FramesExist,
              FlagIsAnswer, Serving
<1>4. QED
  BY <1>1, <1>2, <1>3, CallStep, PutStep, ReturnStep, RebootStep DEF Next

(* The invariant holds in every reachable state.                           *)
THEOREM CallsInvariance == Spec => []CallsIInv
BY CallsInit, CallsStep, PTL DEF Spec

(* Every variable of the storage service keeps its type.                   *)
THEOREM StorageTypeCorrect == Spec => []TypeOK
<1>1. CallsIInv => TypeOK
  BY DEF CallsIInv
<1>2. QED
  BY <1>1, CallsInvariance, PTL

(* A command always points to the frame of a caller that waits for it, and *)
(* the flag that ends the wait is raised for that command and after it.    *)
THEOREM OneWaitForEachCommand == Spec => []OneWaitOneCommand
<1>1. CallsIInv => OneWaitOneCommand
  <2> SUFFICES ASSUME CallsIInv PROVE OneWaitOneCommand
    OBVIOUS
  <2>1. DOMAIN queue = 1..Len(queue)
    BY DEF CallsIInv, TypeOK
  <2>2. QED
    BY <2>1 DEF CallsIInv, FramesExist, FlagIsAnswer, Serving, OneWaitOneCommand, FrameLive,
                FlagMeansDone
<1>2. QED
  BY <1>1, CallsInvariance, PTL

-----------------------------------------------------------------------------
(* The steps of a factory reset keep their order across power losses.      *)
LEMMA ResetOrderStep ==
  ASSUME ResetOrder, [Next]_vars
  PROVE  ResetOrder'
<1> USE DEF ResetOrder
<1>1. CASE Boot \/ PlainFormat \/ Mount("reset_mount") \/ Mount("mount")
  BY <1>1 DEF Boot, PlainFormat, Format, Mount, Go
<1>2. CASE ResetFormat \/ ResetClear
  BY <1>2 DEF ResetFormat, ResetClear, Format, Go, Erased
<1>3. CASE Get \/ RunRead \/ Complete
  BY <1>3 DEF Get, RunRead, Running, Answer, Complete
<1>4. CASE RunWrite
  <2>1. task = "run" /\ \E r, v : Answer(r, v)
    BY <1>4 DEF RunWrite, Running
  <2>2. reset' = reset \/ (reset = "done" /\ reset' = "past")
    BY <1>4 DEF RunWrite
  <2>3. task' = "complete" /\ UNCHANGED factoryReset
    BY <2>1 DEF Answer
  <2>4. QED
    BY <2>1, <2>2, <2>3
<1>5. ASSUME NEW c \in Callers, NEW op \in Ops, NEW k \in Keys, NEW v \in Values \union {NoValue},
             Call(c, op, k, v)
      PROVE  ResetOrder'
  BY <1>5 DEF Call, storage
<1>6. CASE RequestFactoryReset
  BY <1>6 DEF RequestFactoryReset
<1>7. CASE Reboot
  <2>1. /\ task' = "boot" /\ UNCHANGED factoryReset
        /\ reset' = reset \/ (reset = "done" /\ task = "run" /\ reset' = "past")
    BY <1>7 DEF Reboot, Restarted, Running
  <2>2. QED
    BY <2>1
<1>8. ASSUME NEW c \in Callers, Put(c) \/ Return(c)
      PROVE  ResetOrder'
  BY <1>8 DEF Put, Return, storage
<1>9. CASE UNCHANGED vars
  BY <1>9 DEF vars, storage
<1>10. QED
  BY <1>1, <1>2, <1>3, <1>4, <1>5, <1>6, <1>7, <1>8, <1>9 DEF Next, Storage

(* What is written after a factory reset is never erased by a repetition   *)
(* of it: the request is gone before the service runs a command, and a     *)
(* loss of power before that formats an empty volume.                      *)
THEOREM ResetsAreNotRepeated == Spec => []ResetNotRepeated
<1>1. Init => ResetOrder
  BY DEF Init, ResetOrder
<1>2. ResetOrder => ResetNotRepeated
  BY DEF ResetOrder, ResetNotRepeated
<1>3. QED
  BY <1>1, <1>2, ResetOrderStep, PTL DEF Spec

(* The request for a factory reset is dropped in no step but one that      *)
(* leaves the volume empty.                                                *)
THEOREM ResetsErase == Spec => FactoryResetErases
<1>1. Init => ResetOrder
  BY DEF Init, ResetOrder
<1>2. ResetOrder /\ [Next]_vars => [factoryReset /\ ~factoryReset' => files' = Erased]_vars
  <2> SUFFICES ASSUME ResetOrder, Next, factoryReset, ~factoryReset' PROVE files' = Erased
    OBVIOUS
  <2>1. CASE Boot \/ PlainFormat \/ ResetFormat \/ Mount("reset_mount") \/ Mount("mount")
    BY <2>1 DEF Boot, PlainFormat, ResetFormat, Format, Mount
  <2>2. CASE ResetClear
    BY <2>2 DEF ResetClear, ResetOrder
  <2>3. CASE Get \/ RunRead \/ RunWrite \/ Complete
    BY <2>3 DEF Get, RunRead, RunWrite, Answer, Complete
  <2>4. ASSUME NEW c \in Callers,
               \/ Put(c) \/ Return(c)
               \/ \E op \in Ops, k \in Keys, v \in Values \union {NoValue} : Call(c, op, k, v)
        PROVE  files' = Erased
    BY <2>4 DEF Call, Put, Return, storage
  <2>5. CASE RequestFactoryReset \/ Reboot
    BY <2>5 DEF RequestFactoryReset, Reboot
  <2>6. QED
    BY <2>1, <2>2, <2>3, <2>4, <2>5 DEF Next, Storage
<1>3. QED
  BY <1>1, <1>2, ResetOrderStep, PTL DEF Spec, FactoryResetErases

-----------------------------------------------------------------------------
(* The refinement: the service is a store whose operations are single      *)
(* steps.  What a caller asked for is what its frame holds until the        *)
(* command has run.                                                        *)

(* The command queued or in the service is the one the frame asks for, and *)
(* until it has run the frame is as the caller left it.                    *)
Unanswered(c) == frame[c].ret = "zero" /\ (frame[c].op = "read" => frame[c].value = NoValue)

FrameIsCommand ==
  /\ \A c \in Callers : pc[c] = "idle" => frame[c] = NoFrame
  /\ \A c \in Callers : pc[c] = "put" => Unanswered(c)
  /\ \A i \in 1..Len(queue) :
       Unanswered(queue[i].thread) /\ queue[i].function = frame[queue[i].thread].op
  /\ task = "run" => Unanswered(command.thread) /\ command.function = frame[command.thread].op

StoreIInv == CallsIInv /\ FrameIsCommand

(* A caller has a frame exactly while it is in a call.                     *)
LEMMA FrameIffCalling ==
  ASSUME StoreIInv, NEW c \in Callers
  PROVE  /\ frame[c] = NoFrame <=> pc[c] = "idle"
         /\ pc[c] # "idle" => frame[c] \in Frames
BY NoFrameAssumption DEF StoreIInv, CallsIInv, TypeOK, FramesExist, FrameIsCommand

LEMMA FrameIsCommandStep ==
  ASSUME StoreIInv, [Next]_vars
  PROVE  FrameIsCommand'
<1> USE DEF StoreIInv, FrameIsCommand, Unanswered
<1>q. queue \in Seq(Commands) /\ Len(queue) \in Nat /\ pc \in [Callers -> {"idle", "put", "wait"}]
  BY DEF CallsIInv, TypeOK
<1>t. \A i \in 1..Len(queue) : queue[i].thread \in Callers /\ pc[queue[i].thread] = "wait"
  BY <1>q, QueuedThreads DEF CallsIInv, FramesExist
<1>c. Serving => command.thread \in Callers /\ pc[command.thread] = "wait"
  BY DEF CallsIInv, FramesExist, Commands
<1>f. frame \in [Callers -> Frames \union {NoFrame}]
  BY DEF CallsIInv, TypeOK
<1>1. CASE Boot \/ ResetFormat \/ ResetClear \/ PlainFormat \/ Mount("reset_mount") \/ Mount("mount")
  <2>1. UNCHANGED <<queue, command, pc, frame>> /\ task' # "run"
    BY <1>1 DEF Boot, ResetFormat, PlainFormat, ResetClear, Format, Mount, Go, callers
  <2>2. QED
    BY <2>1
<1>2. ASSUME NEW c \in Callers, NEW op \in Ops, NEW k \in Keys, NEW v \in Values \union {NoValue},
             Call(c, op, k, v)
      PROVE  FrameIsCommand'
  <2>1. /\ frame' = [frame EXCEPT ![c] = [op |-> op, key |-> k, value |-> v, ret |-> "zero"]]
        /\ pc' = [pc EXCEPT ![c] = "put"] /\ pc[c] = "idle" /\ (op = "read" <=> v = NoValue)
        /\ UNCHANGED <<queue, task, command>>
    BY <1>2 DEF Call, storage
  <2>2. QED
    BY <2>1, <1>q, <1>t, <1>c, <1>f DEF Serving
<1>3. ASSUME NEW c \in Callers, Put(c)
      PROVE  FrameIsCommand'
  <2> DEFINE e == [thread |-> c, function |-> frame[c].op]
  <2>1. /\ pc[c] = "put" /\ queue' = Append(queue, e) /\ pc' = [pc EXCEPT ![c] = "wait"]
        /\ UNCHANGED <<task, command, frame>>
    BY <1>3 DEF Put
  <2>2. e \in Commands
    BY <2>1 DEF CallsIInv, FramesExist, Frames, Commands
  <2>3. e.thread = c /\ e.function = frame[c].op
    OBVIOUS
  <2> HIDE DEF e
  <2>4. /\ Len(queue') = Len(queue) + 1 /\ queue'[Len(queue) + 1] = e
        /\ \A i \in 1..Len(queue) : queue'[i] = queue[i]
    BY <1>q, <2>1, <2>2, AppendToQueue
  <2>5. QED
    BY <2>1, <2>3, <2>4, <1>q, <1>t, <1>c DEF Serving
<1>4. ASSUME NEW c \in Callers, Return(c)
      PROVE  FrameIsCommand'
  <2>1. /\ frame' = [frame EXCEPT ![c] = NoFrame] /\ pc' = [pc EXCEPT ![c] = "idle"] /\ c \in flag
        /\ UNCHANGED <<queue, task, command>>
    BY <1>4 DEF Return, storage
  <2>2. \A i \in 1..Len(queue) : queue[i].thread # c
    BY <2>1 DEF CallsIInv, FramesExist
  <2>3. Serving => command.thread # c
    BY <2>1 DEF CallsIInv, FramesExist
  <2>4. QED
    BY <2>1, <2>2, <2>3, <1>q, <1>t, <1>c, <1>f DEF Serving
<1>5. CASE Get
  <2>1. /\ task' = "run" /\ command' = Head(queue) /\ queue' = Tail(queue) /\ queue # <<>>
        /\ UNCHANGED <<pc, frame>>
    BY <1>5 DEF Get, callers
  <2>2. /\ Len(queue') = Len(queue) - 1 /\ Len(queue) >= 1 /\ command' = queue[1]
        /\ \A i \in 1..Len(queue') : queue'[i] = queue[i + 1] /\ i + 1 \in 1..Len(queue)
    BY <1>q, <2>1, TailOfQueue
  <2>3. QED
    BY <2>1, <2>2, <1>q
<1>6. CASE RunRead \/ RunWrite
  <2>0. PICK r, v : task = "run" /\ Answer(r, v)
    BY <1>6 DEF RunRead, RunWrite, Running
  <2>1. /\ task = "run" /\ task' = "complete" /\ UNCHANGED <<queue, command, pc>>
        /\ frame' = [frame EXCEPT ![command.thread].ret = r, ![command.thread].value = v]
    BY <2>0 DEF Answer
  <2>2. command.thread \in Callers /\ pc[command.thread] = "wait"
    BY <2>1, <1>c DEF Serving
  <2>3. \A c \in Callers \ {command.thread} : frame'[c] = frame[c]
    BY <2>1, <2>2, <1>f
  <2>4. \A i \in 1..Len(queue) : queue[i].thread # command.thread
    BY <2>1 DEF CallsIInv, OneCommandEach, Serving
  <2>5. (\A c \in Callers : pc[c] = "idle" => frame[c] = NoFrame)'
        /\ (\A c \in Callers : pc[c] = "put" => Unanswered(c))'
    BY <2>1, <2>2, <2>3
  <2>6. ASSUME NEW i \in 1..Len(queue)
        PROVE  (Unanswered(queue[i].thread) /\ queue[i].function = frame[queue[i].thread].op)'
    <3>1. queue[i].thread \in Callers \ {command.thread} /\ queue' = queue
      BY <2>1, <2>4, <1>t
    <3>2. QED
      BY <2>3, <3>1
  <2>7. QED
    BY <2>1, <2>5, <2>6
<1>7. CASE Complete
  <2>1. UNCHANGED <<queue, command, pc, frame>> /\ task' = "get"
    BY <1>7 DEF Complete
  <2>2. QED
    BY <2>1
<1>8. CASE RequestFactoryReset \/ UNCHANGED vars
  <2>1. UNCHANGED <<queue, command, task, pc, frame>>
    BY <1>8 DEF RequestFactoryReset, vars, storage, callers
  <2>2. QED
    BY <2>1
<1>9. CASE Reboot
  BY <1>9 DEF Reboot, Restarted
<1>10. QED
  BY <1>1, <1>2, <1>3, <1>4, <1>5, <1>6, <1>7, <1>8, <1>9 DEF Next, Storage

-----------------------------------------------------------------------------
(* Steps that neither run a command nor touch a frame leave the store's     *)
(* calls and answers alone.                                                 *)
LEMMA SameCallsAndResults ==
  ASSUME UNCHANGED frame, \A c \in Callers : Executed(c)' = Executed(c)
  PROVE  UNCHANGED <<StoreCall, StoreResult>>
<1>1. \A c \in Callers : Asked(c)' = Asked(c)
  BY DEF Asked
<1>2. QED
  BY <1>1 DEF StoreCall, StoreResult

(* A boot step formats, which loses values, or leaves them alone.          *)
LEMMA BootIsLoseOrStutter ==
  ASSUME StoreIInv,
         \/ Boot \/ ResetFormat \/ ResetClear \/ PlainFormat \/ Mount("reset_mount") \/ Mount("mount")
  PROVE  Store!Next \/ UNCHANGED Store!vars
<1>1. UNCHANGED <<queue, command, pc, frame>> /\ task # "run" /\ task' # "run"
  BY DEF Boot, ResetFormat, PlainFormat, ResetClear, Format, Mount, Go, callers
<1>2. UNCHANGED <<StoreCall, StoreResult>>
  BY <1>1, SameCallsAndResults DEF Executed
<1>3. files \in [Keys -> Values \union {NoValue}]
  BY DEF StoreIInv, CallsIInv, TypeOK
<1>4. files' = files \/ files' = Erased \/ files' \in PartlyErased
  BY DEF Boot, ResetFormat, PlainFormat, ResetClear, Format, Mount
<1>5. CASE files' = files
  BY <1>2, <1>5 DEF Store!vars
<1>6. CASE files' = Erased
  <2>1. files' = [k \in Keys |-> IF k \in Keys THEN NoValue ELSE files[k]]
    BY <1>6 DEF Erased
  <2>2. Store!Lose
    BY <1>2, <2>1 DEF Store!Lose
  <2>3. QED
    BY <2>2 DEF Store!Next
<1>7. CASE files' \in PartlyErased
  BY <1>2, <1>7 DEF Store!Next, Store!Lose, PartlyErased
<1>8. QED
  BY <1>4, <1>5, <1>6, <1>7

(* A caller's call is the store's.                                         *)
LEMMA CallIsCall ==
  ASSUME StoreIInv, NEW c \in Callers, NEW op \in Ops, NEW k \in Keys,
         NEW v \in Values \union {NoValue}, Call(c, op, k, v)
  PROVE  Store!Call(c)
<1> DEFINE f == [op |-> op, key |-> k, value |-> v, ret |-> "zero"]
           r == [op |-> op, key |-> k, value |-> v]
<1>1. /\ frame' = [frame EXCEPT ![c] = f] /\ pc' = [pc EXCEPT ![c] = "put"] /\ pc[c] = "idle"
      /\ (op = "read" <=> v = NoValue) /\ UNCHANGED <<files, queue, task, command>>
  BY DEF Call, storage
<1>2. f \in Frames /\ r \in Store!Calls
  BY DEF Frames, Ops, Store!Calls
<1>3. frame[c] = NoFrame
  BY <1>1, FrameIffCalling
<1>4. /\ frame \in [Callers -> Frames \union {NoFrame}]
      /\ pc \in [Callers -> {"idle", "put", "wait"}]
  BY DEF StoreIInv, CallsIInv, TypeOK
<1>5. StoreCall[c] = NoFrame /\ StoreCall' = [StoreCall EXCEPT ![c] = r]
  <2>1. frame'[c] # NoFrame /\ Asked(c)' = r
    BY <1>1, <1>2, <1>4, NoFrameAssumption DEF Asked
  <2>2. \A d \in Callers \ {c} : frame'[d] = frame[d] /\ Asked(d)' = Asked(d)
    BY <1>1, <1>4 DEF Asked
  <2>3. QED
    BY <1>3, <2>1, <2>2 DEF StoreCall
<1>6. UNCHANGED StoreResult
  <2>1. StoreResult[c] = NoFrame /\ ~Executed(c)'
    BY <1>1, <1>3, <1>4 DEF StoreResult, Executed
  <2>2. \A d \in Callers \ {c} : frame'[d] = frame[d] /\ (Executed(d)' <=> Executed(d))
    BY <1>1, <1>4 DEF Executed
  <2>3. QED
    BY <1>3, <2>1, <2>2 DEF StoreResult
<1>7. QED
  BY <1>1, <1>2, <1>5, <1>6 DEF Store!Call

(* Queueing a command changes nothing a user of the store sees.            *)
LEMMA PutIsStutter ==
  ASSUME StoreIInv, NEW c \in Callers, Put(c)
  PROVE  UNCHANGED Store!vars
<1> DEFINE e == [thread |-> c, function |-> frame[c].op]
<1>1. /\ pc[c] = "put" /\ queue' = Append(queue, e) /\ pc' = [pc EXCEPT ![c] = "wait"]
      /\ UNCHANGED <<files, task, command, frame>>
  BY DEF Put
<1>2. e \in Commands /\ queue \in Seq(Commands) /\ pc \in [Callers -> {"idle", "put", "wait"}]
  BY <1>1 DEF StoreIInv, CallsIInv, FramesExist, Frames, Commands, TypeOK
<1>3. e.thread = c
  OBVIOUS
<1> HIDE DEF e
<1>4. /\ Len(queue') = Len(queue) + 1 /\ queue'[Len(queue) + 1] = e
      /\ \A i \in 1..Len(queue) : queue'[i] = queue[i]
      /\ DOMAIN queue = 1..Len(queue) /\ DOMAIN queue' = 1..(Len(queue) + 1) /\ Len(queue) \in Nat
  <2>1. queue' \in Seq(Commands)
    BY <1>1, <1>2, AppendToQueue
  <2>2. QED
    BY <1>1, <1>2, <2>1, AppendToQueue
<1>5. ~Executed(c) /\ ~Executed(c)'
  <2>1. Len(queue) + 1 \in DOMAIN queue' /\ queue'[Len(queue) + 1].thread = c
    BY <1>3, <1>4
  <2>2. QED
    BY <1>1, <2>1 DEF Executed
<1>6. ASSUME NEW d \in Callers, d # c
      PROVE  Executed(d)' <=> Executed(d)
  <2>1. pc'[d] = pc[d]
    BY <1>1, <1>2, <1>6
  <2>2. (\A i \in DOMAIN queue' : queue'[i].thread # d) <=> (\A i \in DOMAIN queue : queue[i].thread # d)
    BY <1>3, <1>4, <1>6
  <2>3. QED
    BY <1>1, <2>1, <2>2 DEF Executed
<1>7. \A d \in Callers : Executed(d)' = Executed(d)
  BY <1>5, <1>6 DEF Executed
<1>8. QED
  BY <1>1, <1>7, SameCallsAndResults DEF Store!vars

(* A call returns after its command ran: the store's return.               *)
LEMMA ReturnIsReturn ==
  ASSUME StoreIInv, NEW c \in Callers, Return(c)
  PROVE  Store!Return(c)
<1>1. /\ pc[c] = "wait" /\ c \in flag
      /\ frame' = [frame EXCEPT ![c] = NoFrame] /\ pc' = [pc EXCEPT ![c] = "idle"]
      /\ UNCHANGED <<files, queue, task, command>>
  BY DEF Return, storage
<1>2. /\ frame \in [Callers -> Frames \union {NoFrame}] /\ DOMAIN queue = 1..Len(queue)
      /\ pc \in [Callers -> {"idle", "put", "wait"}]
  BY DEF StoreIInv, CallsIInv, TypeOK
<1>3. frame[c] \in Frames /\ frame[c] # NoFrame /\ Executed(c)
  <2>1. (\A i \in DOMAIN queue : queue[i].thread # c) /\ (task = "run" => command.thread # c)
    BY <1>1, <1>2 DEF StoreIInv, CallsIInv, FramesExist, Serving
  <2>2. QED
    BY <1>1, <2>1, FrameIffCalling DEF Executed
<1>4. StoreResult[c] # NoFrame
  <2>1. [ret |-> frame[c].ret, value |-> frame[c].value] \in Store!Answers
    BY <1>1, <1>3 DEF Store!Answers, Frames, StoreIInv, CallsIInv, FlagIsAnswer
  <2>2. QED
    BY <1>3, <2>1, NoFrameAssumption DEF StoreResult
<1>5. /\ frame'[c] = NoFrame
      /\ \A d \in Callers \ {c} : frame'[d] = frame[d] /\ (Executed(d)' <=> Executed(d)) /\ Asked(d)' = Asked(d)
  BY <1>1, <1>2 DEF Executed, Asked
<1>6. StoreCall' = [StoreCall EXCEPT ![c] = NoFrame]
  BY <1>5 DEF StoreCall
<1>7. StoreResult' = [StoreResult EXCEPT ![c] = NoFrame]
  BY <1>5 DEF StoreResult
<1>8. QED
  BY <1>1, <1>4, <1>6, <1>7 DEF Store!Return

(* Taking a command and signalling its end are not steps of the store.     *)
LEMMA GetOrCompleteIsStutter ==
  ASSUME StoreIInv, Get \/ Complete
  PROVE  UNCHANGED Store!vars
<1>1. CASE Get
  <2>1. /\ task = "get" /\ task' = "run" /\ command' = Head(queue) /\ queue' = Tail(queue)
        /\ queue # <<>> /\ queue \in Seq(Commands) /\ UNCHANGED <<files, pc, frame>>
    BY <1>1 DEF Get, callers, StoreIInv, CallsIInv, TypeOK
  <2>2. /\ Len(queue') = Len(queue) - 1 /\ Len(queue) >= 1 /\ Len(queue) \in Nat
        /\ queue' \in Seq(Commands) /\ command' = queue[1]
        /\ \A i \in 1..Len(queue') : queue'[i] = queue[i + 1] /\ i + 1 \in 1..Len(queue)
    BY <2>1, TailOfQueue
  <2>3. ASSUME NEW c \in Callers
        PROVE  (\A i \in DOMAIN queue : queue[i].thread # c) <=>
               (\A i \in DOMAIN queue' : queue'[i].thread # c) /\ command'.thread # c
    <3>1. \A i \in 1..Len(queue) : i = 1 \/ (i - 1 \in 1..Len(queue') /\ queue[i] = queue'[i - 1])
      BY <2>2
    <3>2. DOMAIN queue = 1..Len(queue) /\ DOMAIN queue' = 1..Len(queue') /\ 1 \in 1..Len(queue)
      BY <2>1, <2>2
    <3>3. ASSUME \A i \in DOMAIN queue : queue[i].thread # c
          PROVE  (\A i \in DOMAIN queue' : queue'[i].thread # c) /\ command'.thread # c
      BY <2>2, <3>2, <3>3
    <3>4. ASSUME (\A i \in DOMAIN queue' : queue'[i].thread # c), command'.thread # c,
                 NEW i \in DOMAIN queue
          PROVE  queue[i].thread # c
      <4>1. CASE i = 1
        BY <2>2, <3>4, <4>1
      <4>2. CASE i # 1
        BY <3>1, <3>2, <3>4, <4>2
      <4>3. QED
        BY <4>1, <4>2
    <3>5. QED
      BY <3>3, <3>4
  <2>4. \A c \in Callers : Executed(c)' = Executed(c)
    BY <2>1, <2>3 DEF Executed
  <2>5. QED
    BY <2>1, <2>4, SameCallsAndResults DEF Store!vars
<1>2. CASE Complete
  <2>1. task = "complete" /\ task' = "get" /\ UNCHANGED <<files, queue, command, pc, frame>>
    BY <1>2 DEF Complete
  <2>2. \A c \in Callers : Executed(c)' = Executed(c)
    BY <2>1 DEF Executed
  <2>3. QED
    BY <2>1, <2>2, SameCallsAndResults DEF Store!vars
<1>3. QED
  BY <1>1, <1>2

(* Running a command moves its caller from a call to an answer.            *)
LEMMA AnswerIsResult ==
  ASSUME StoreIInv, task = "run", NEW r \in {"done", "error"}, NEW v \in Values \union {NoValue},
         Answer(r, v), frame[command.thread].op = "write" => v = frame[command.thread].value
  PROVE  /\ command.thread \in Callers /\ frame[command.thread] \in Frames
         /\ command.function = frame[command.thread].op
         /\ StoreCall[command.thread] = Asked(command.thread) /\ Asked(command.thread) # NoFrame
         /\ Asked(command.thread).value = frame[command.thread].value
         /\ StoreResult[command.thread] = NoFrame
         /\ StoreResult' = [StoreResult EXCEPT ![command.thread] = [ret |-> r, value |-> v]]
         /\ UNCHANGED StoreCall
<1> DEFINE t == command.thread
           f == frame[t]
<1>1. /\ t \in Callers /\ pc[t] = "wait" /\ command.function = f.op /\ Unanswered(t)
      /\ f \in Frames /\ f # NoFrame
      /\ frame \in [Callers -> Frames \union {NoFrame}]
  BY FrameIffCalling DEF StoreIInv, CallsIInv, TypeOK, FramesExist, FrameIsCommand, Serving, Commands
<1>2. /\ task' = "complete" /\ UNCHANGED <<queue, command, pc>>
      /\ frame' = [frame EXCEPT ![t] = [f EXCEPT !.ret = r, !.value = v]]
  BY <1>1 DEF Answer
<1>3. frame'[t] = [f EXCEPT !.ret = r, !.value = v] /\ frame'[t] \in Frames /\ frame'[t] # NoFrame
  BY <1>1, <1>2, NoFrameAssumption DEF Frames
<1>4. \A d \in Callers \ {t} : frame'[d] = frame[d] /\ (Executed(d)' <=> Executed(d)) /\ Asked(d)' = Asked(d)
  BY <1>1, <1>2 DEF Executed, Asked
<1>5. ~Executed(t) /\ Executed(t)'
  <2>1. \A i \in DOMAIN queue : queue[i].thread # t
    BY DEF StoreIInv, CallsIInv, TypeOK, OneCommandEach, Serving
  <2>2. QED
    BY <1>1, <1>2, <2>1 DEF Executed
<1>6. Asked(t) \in Store!Calls /\ Asked(t)' = Asked(t) /\ Asked(t).value = f.value
  BY <1>1, <1>2, <1>3 DEF Asked, Unanswered, Frames, Ops, Store!Calls
<1>7. StoreCall[t] = Asked(t) /\ Asked(t) # NoFrame /\ UNCHANGED StoreCall
  <2>1. StoreCall[t] = Asked(t) /\ Asked(t) # NoFrame
    BY <1>1, <1>6, NoFrameAssumption DEF StoreCall
  <2>2. StoreCall'[t] = Asked(t)'
    BY <1>1, <1>2, <1>3 DEF StoreCall
  <2>3. ASSUME NEW d \in Callers, d # t
        PROVE  StoreCall'[d] = StoreCall[d]
    BY <1>4, <2>3 DEF StoreCall
  <2>4. QED
    BY <1>6, <2>1, <2>2, <2>3 DEF StoreCall
<1>8. frame'[t].ret = r /\ frame'[t].value = v
  BY <1>1, <1>3 DEF Frames
<1>9. StoreResult[t] = NoFrame /\ StoreResult' = [StoreResult EXCEPT ![t] = [ret |-> r, value |-> v]]
  <2>1. StoreResult[t] = NoFrame
    BY <1>1, <1>5 DEF StoreResult
  <2>2. StoreResult'[t] = [ret |-> frame'[t].ret, value |-> frame'[t].value]
    BY <1>1, <1>2, <1>3, <1>5 DEF StoreResult
  <2>3. ASSUME NEW d \in Callers, d # t
        PROVE  StoreResult'[d] = StoreResult[d]
    BY <1>4, <2>3 DEF StoreResult
  <2>4. QED
    BY <1>1, <1>8, <2>1, <2>2, <2>3 DEF StoreResult
<1>10. QED
  BY <1>1, <1>6, <1>7, <1>9

(* Reading a key is the store's read.                                      *)
LEMMA RunReadIsRead ==
  ASSUME StoreIInv, RunRead
  PROVE  \E c \in Callers : Store!Read(c)
<1> DEFINE t == command.thread
           f == frame[t]
<1>1. task = "run" /\ command.function = "read" /\ UNCHANGED files
  BY DEF RunRead, Running
<1>2. t \in Callers /\ f \in Frames /\ f.op = "read" /\ f.value = NoValue /\ f.key \in Keys
  BY <1>1, FrameIffCalling
     DEF StoreIInv, CallsIInv, FramesExist, FrameIsCommand, Unanswered, Serving, Commands, Frames
<1>3. PICK r \in {"done", "error"}, v \in Values \union {NoValue} :
        /\ Answer(r, v)
        /\ r = "done" => files[f.key] # NoValue
        /\ v = IF r = "done" THEN files[f.key] ELSE NoValue
  <2>1. CASE files[f.key] # NoValue /\ Answer("done", files[f.key])
    BY <1>2, <2>1 DEF StoreIInv, CallsIInv, TypeOK
  <2>2. CASE Answer("error", f.value)
    BY <1>2, <2>2
  <2>3. QED
    BY <2>1, <2>2 DEF RunRead
<1>4. /\ StoreCall[t] = Asked(t) /\ Asked(t) # NoFrame /\ StoreResult[t] = NoFrame
      /\ StoreResult' = [StoreResult EXCEPT ![t] = [ret |-> r, value |-> v]]
      /\ UNCHANGED StoreCall
  BY <1>1, <1>2, <1>3, AnswerIsResult
<1>5. Asked(t).op = "read" /\ Asked(t).key = f.key
  BY <1>2 DEF Asked
<1>6. Store!Read(t)
  <2>1. /\ StoreCall[t] # NoFrame /\ StoreCall[t].op = "read" /\ StoreCall[t].key = f.key
        /\ StoreResult' = [StoreResult EXCEPT ![t] =
             [ret |-> r, value |-> IF r = "done" THEN files[StoreCall[t].key] ELSE NoValue]]
    BY <1>3, <1>4, <1>5
  <2>2. r = "done" => files[StoreCall[t].key] # NoValue
    BY <1>3, <2>1
  <2> HIDE DEF t, f
  <2>3. QED
    BY <1>1, <1>4, <2>1, <2>2 DEF Store!Read
<1>7. QED
  BY <1>2, <1>6

(* Writing a key is the store's write, when closing a file does not fail.  *)
LEMMA RunWriteIsWrite ==
  ASSUME StoreIInv, ~CloseFails, RunWrite
  PROVE  \E c \in Callers : Store!Write(c)
<1> DEFINE t == command.thread
           f == frame[t]
<1>1. task = "run" /\ command.function = "write"
  BY DEF RunWrite, Running
<1>2. t \in Callers /\ f \in Frames /\ f.op = "write"
  BY <1>1, FrameIffCalling
     DEF StoreIInv, CallsIInv, FramesExist, FrameIsCommand, Serving, Commands
<1>3. f.value \in Values \union {NoValue} /\ f.key \in Keys /\ files \in [Keys -> Values \union {NoValue}]
  BY <1>2 DEF Frames, StoreIInv, CallsIInv, TypeOK
<1>4. PICK r \in {"done", "error"} :
        /\ Answer(r, f.value)
        /\ \E v \in {f.value} \union IF r = "done" THEN {} ELSE {files[f.key], Empty} :
             files' = [files EXCEPT ![f.key] = v]
  <2>1. CASE files' = [files EXCEPT ![f.key] = f.value] /\ Answer("done", f.value)
    BY <2>1
  <2>2. CASE files' \in {files, [files EXCEPT ![f.key] = Empty]} /\ Answer("error", f.value)
    <3>1. files = [files EXCEPT ![f.key] = files[f.key]]
      BY <1>3
    <3>2. \E v \in {f.value} \union {files[f.key], Empty} : files' = [files EXCEPT ![f.key] = v]
      BY <2>2, <3>1
    <3>3. QED
      BY <2>2, <3>2
  <2>3. QED
    BY <2>1, <2>2 DEF RunWrite, Holding
<1>5. /\ StoreCall[t] = Asked(t) /\ Asked(t) # NoFrame /\ StoreResult[t] = NoFrame
      /\ StoreResult' = [StoreResult EXCEPT ![t] = [ret |-> r, value |-> f.value]]
      /\ UNCHANGED StoreCall
  BY <1>1, <1>3, <1>4, AnswerIsResult
<1>6. Asked(t).op = "write" /\ Asked(t).key = f.key /\ Asked(t).value = f.value
  BY <1>2 DEF Asked
<1>7. Store!Write(t)
  BY ZenonT(60), <1>4, <1>5, <1>6 DEF Store!Write
<1>8. QED
  BY <1>2, <1>7

(* Losing power is the store's loss of power: a write that was under way   *)
(* was asked for.                                                          *)
LEMMA RebootIsReboot ==
  ASSUME StoreIInv, Reboot
  PROVE  Store!Reboot
<1>1. pc' = [c \in Callers |-> "idle"] /\ frame' = [c \in Callers |-> NoFrame]
  BY DEF Reboot, Restarted
<1>2. StoreCall' = [c \in Callers |-> NoFrame] /\ StoreResult' = [c \in Callers |-> NoFrame]
  BY <1>1 DEF StoreCall, StoreResult
<1>3. files \in [Keys -> Values \union {NoValue}]
  BY DEF StoreIInv, CallsIInv, TypeOK
<1>4. ASSUME Running("write"), NEW v \in {frame[command.thread].value, Empty},
             files' = Holding(frame[command.thread].key, v)
      PROVE  Store!Reboot
  <2> DEFINE t == command.thread
             f == frame[t]
  <2>1. t \in Callers /\ f \in Frames /\ f # NoFrame /\ f.op = "write"
    BY <1>4, FrameIffCalling
       DEF Running, StoreIInv, CallsIInv, FramesExist, FrameIsCommand, Serving, Commands
  <2>2. f.value \in Values \union {NoValue} /\ f.key \in Keys
    BY <2>1 DEF Frames
  <2>3. StoreCall[t] = Asked(t) /\ Asked(t) \in Store!Calls
    BY <2>1, <2>2 DEF StoreCall, Asked, Store!Calls
  <2>4. Asked(t).op = "write" /\ Asked(t).key = f.key /\ Asked(t).value = f.value
    BY <2>1 DEF Asked
  <2>5. f.value \in Store!Asked(f.key)
    BY <2>1, <2>3, <2>4, NoFrameAssumption DEF Store!Asked
  <2>6. v \in Values \union {NoValue} /\ v \in {Empty} \union Store!Asked(f.key)
    BY <1>4, <2>2, <2>5, StorageAssumption
  <2>7. /\ files' \in [Keys -> Values \union {NoValue}]
        /\ \A k \in Keys : files'[k] = IF k = f.key THEN v ELSE files[k]
    BY <1>3, <1>4, <2>2, <2>6 DEF Holding
  <2>9. \A k \in Keys : files'[k] \in Store!Left(k)
    BY <2>5, <2>6, <2>7 DEF Store!Left
  <2>8. QED
    BY <1>2, <2>7, <2>9 DEF Store!Reboot
<1>5. CASE files' = files \/ files' \in PartlyErased
  <2>1. files' \in [Keys -> Values \union {NoValue}] /\ \A k \in Keys : files'[k] \in {files[k], NoValue}
    BY <1>3, <1>5 DEF PartlyErased
  <2>2. QED
    BY <1>2, <2>1 DEF Store!Reboot, Store!Left
<1>6. QED
  BY <1>4, <1>5 DEF Reboot

-----------------------------------------------------------------------------
(* What internal-storage.h promises holds of the service, for any number of *)
(* callers and keys and across power losses, as long as closing a file does *)
(* not fail: the code drops the close's error.                              *)
THEOREM StorageIsAStore == ~CloseFails => (Spec => ImplementsStore)
<1> SUFFICES ASSUME ~CloseFails PROVE Spec => ImplementsStore
  OBVIOUS
<1>1. Init => StoreIInv /\ Store!Init
  <2> SUFFICES ASSUME Init PROVE StoreIInv /\ Store!Init
    OBVIOUS
  <2>1. CallsIInv
    BY CallsInit
  <2>2. FrameIsCommand
    BY DEF Init, FrameIsCommand
  <2>3. Store!Init
    BY DEF Init, Store!Init, StoreCall, StoreResult
  <2>4. QED
    BY <2>1, <2>2, <2>3 DEF StoreIInv
<1>2. StoreIInv /\ [Next]_vars => StoreIInv'
  BY CallsStep, FrameIsCommandStep DEF StoreIInv
<1>3. StoreIInv /\ [Next]_vars => [Store!Next]_(Store!vars)
  <2> SUFFICES ASSUME StoreIInv, [Next]_vars PROVE Store!Next \/ UNCHANGED Store!vars
    OBVIOUS
  <2>1. CASE Storage
    BY <2>1, BootIsLoseOrStutter, GetOrCompleteIsStutter, RunReadIsRead, RunWriteIsWrite
       DEF Storage, Store!Next
  <2>2. CASE RequestFactoryReset \/ UNCHANGED vars
    <3>1. UNCHANGED <<files, queue, command, task, pc, frame>>
      BY <2>2 DEF RequestFactoryReset, vars, storage, callers
    <3>2. QED
      BY <3>1, SameCallsAndResults DEF Executed, Store!vars
  <2>3. CASE Reboot
    BY <2>3, RebootIsReboot DEF Store!Next
  <2>4. QED
    BY <2>1, <2>2, <2>3, CallIsCall, PutIsStutter, ReturnIsReturn DEF Next, Store!Next
<1>4. QED
  BY <1>1, <1>2, <1>3, PTL DEF Spec, ImplementsStore, Store!Spec
==============================================================================
