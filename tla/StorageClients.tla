--------------------------- MODULE StorageClients ---------------------------
(***************************************************************************)
(* The storage service and its clients as they run: the service creates    *)
(* the record "internal-storage" when the volume is mounted; a client      *)
(* opens the record and then reads and writes keys (dolphin_state.c).      *)
(* furi_record_create and the service's answer raise the same flag bit of  *)
(* the same thread: FURI_RECORD_FLAG_UPDATED and                           *)
(* INTERNAL_STORAGE_THREAD_FLAG_CALL_COMPLETE are both 1.                  *)
(***************************************************************************)
EXTENDS Naturals, Sequences

CONSTANTS Clients, StorageThread, Keys, Values, NoValue, Empty, NoFrame, NoThread, NoData,
          QueueSize, Record, Instance

VARIABLES
  mutex, dict, data, owner, holders, recordPc, arg, todo, handle, \* FuriRecord
  state, factoryReset, files, queue, task, command, callPc, frame, reboots, reset, \* InternalStorage
  flag \* bit 0 of every thread's flags

registry == <<mutex, dict, data, owner, holders, recordPc, arg, todo, handle>>
storage == <<state, factoryReset, files, queue, task, command, callPc, frame, reboots, reset>>
vars == <<registry, storage, flag>>

Registry == INSTANCE FuriRecord WITH
  Threads <- Clients \union {StorageThread}, Names <- {Record}, Data <- {Instance},
  Provider <- [n \in {Record} |-> StorageThread], pc <- recordPc

Storage == INSTANCE InternalStorage WITH
  Callers <- Clients, pc <- callPc, MaxReboots <- 0, CloseFails <- FALSE

Init == Registry!Init /\ Storage!Init

(* The registry's operations by the threads that perform them; no other    *)
(* source of flags.                                                        *)
RecordStep ==
  /\ \/ /\ task = "get"
        /\ \/ Registry!CreateBegin(StorageThread, Record, Instance)
           \/ Registry!CreateOwner(StorageThread)
           \/ \E h \in Clients : Registry!CreateNotify(StorageThread, h)
           \/ Registry!CreateEnd(StorageThread)
     \/ \E c \in Clients :
          /\ callPc[c] = "idle"
          /\ \/ Registry!OpenCall(c, Record)
             \/ Registry!OpenHold(c)
             \/ Registry!OpenCheck(c)
             \/ Registry!OpenWait(c)
             \/ Registry!OpenReturn(c)
             \/ Registry!Close(c, Record)
  /\ UNCHANGED storage

(* The storage service serves once its record is created; a client calls   *)
(* it with the pointer it opened.                                          *)
Created == Registry!Published(Record) /\ recordPc[StorageThread] = "idle"

StorageStep ==
  /\ \/ Storage!Boot \/ Storage!PlainFormat \/ Storage!Mount("mount")
     \/ Storage!ResetFormat \/ Storage!ResetClear \/ Storage!Mount("reset_mount")
     \/ Created /\ (Storage!Get \/ Storage!RunRead \/ Storage!RunWrite \/ Storage!Complete)
     \/ \E c \in Clients :
          \/ /\ recordPc[c] = "idle" /\ handle[c][Record] # NoData
             /\ \E op \in Storage!Ops, k \in Keys, v \in Values \union {NoValue} :
                  Storage!Call(c, op, k, v)
          \/ Storage!Put(c)
          \/ Storage!Return(c)
  /\ UNCHANGED registry

Next == RecordStep \/ StorageStep

Spec == Init /\ [][Next]_vars

-----------------------------------------------------------------------------
(* "Read key, blocking api ... negative on error, otherwise data read": a  *)
(* caller returns with the answer the service wrote into its frame.        *)
ReturnsAnswer ==
  [][\A c \in Clients :
       callPc[c] = "wait" /\ callPc'[c] = "idle" => frame[c].ret # "zero"]_vars
=============================================================================
