----------------------------- MODULE FuriRecord -----------------------------
(***************************************************************************)
(* core/furi/record.c: the registry through which the firmware's services  *)
(* find each other.  A service creates a record (a name with a pointer); a *)
(* client opens it by name, blocking until it appears, and closes it when  *)
(* done.  The registry is a dictionary behind one mutex, but               *)
(* furi_record_open reads record->owner and record->data after it has      *)
(* given the mutex back, and sleeps on a FreeRTOS thread flag that other   *)
(* subsystems use as well.  A critical section whose writes nobody can see *)
(* half done is one step; furi_record_create is several, because its       *)
(* writes race with the reads of furi_record_open.                         *)
(***************************************************************************)
CONSTANTS Threads, Names, Data,
          Provider,         \* the service thread that creates each name
          NoThread, NoData  \* NULL as an owner, NULL as a data pointer

ASSUME ProviderAssumption == Names # {} /\ Provider \in [Names -> Threads]
ASSUME NullAssumption == NoThread \notin Threads /\ NoData \notin Data

VARIABLES
  mutex,   \* the thread that holds records_mutex, or NoThread
  dict,    \* the names that have a FuriRecord in the dictionary
  data, owner, holders, \* the fields of that FuriRecord
  flag,    \* the threads with flag FURI_RECORD_FLAG_UPDATED (bit 0) pending
  pc,      \* where in a furi_record call each thread is
  arg,     \* the name that call is about
  todo,    \* the holders the loop of furi_record_create has yet to signal
  handle   \* the pointer each thread has open for each name

record == <<dict, data, owner, holders>>
vars == <<mutex, dict, data, owner, holders, flag, pc, arg, todo, handle>>

Opening == {"open_lock", "open_check", "open_wait", "open_return"}
Creating == {"create_owner", "create_notify"}

TypeOK ==
  /\ mutex \in Threads \union {NoThread}
  /\ dict \subseteq Names
  /\ data \in [Names -> Data \union {NoData}]
  /\ owner \in [Names -> Threads \union {NoThread}]
  /\ holders \in [Names -> SUBSET Threads]
  /\ flag \subseteq Threads
  /\ pc \in [Threads -> {"idle"} \union Opening \union Creating]
  /\ arg \in [Threads -> Names]
  /\ todo \subseteq Threads
  /\ handle \in [Threads -> [Names -> Data \union {NoData}]]

Init ==
  /\ mutex = NoThread
  /\ dict = {}
  /\ data = [n \in Names |-> NoData]
  /\ owner = [n \in Names |-> NoThread]
  /\ holders = [n \in Names |-> {}]
  /\ flag = {}
  /\ pc = [t \in Threads |-> "idle"]
  /\ arg = [t \in Threads |-> CHOOSE n \in Names : TRUE]
  /\ todo = {}
  /\ handle = [t \in Threads |-> [n \in Names |-> NoData]]

-----------------------------------------------------------------------------
(* furi_record_get_or_create: the field a record that does not exist yet   *)
(* is given.  A destroyed record leaves its old fields in freed memory.    *)
DataOf(n) == IF n \in dict THEN data[n] ELSE NoData
OwnerOf(n) == IF n \in dict THEN owner[n] ELSE NoThread
HoldersOf(n) == IF n \in dict THEN holders[n] ELSE {}

Published(n) == n \in dict /\ owner[n] # NoThread

-----------------------------------------------------------------------------
(* The faulty variants, named Bad..., are each an operation or a guard with *)
(* one mistake, which one of the properties has to notice.                 *)

(* When furi_record_destroy erases the record. *)
BadDestroyable(t, n) == n \in dict /\ owner[n] = t
Destroyable(t, n) == n \in dict /\ owner[n] = t /\ holders[n] = {}

(* osThreadIdSet_push in furi_record_open. *)
BadHoldersWith(t, n) == IF Published(n) THEN holders[n] ELSE HoldersOf(n) \union {t}
HoldersWith(t, n) == HoldersOf(n) \union {t}

(* if(record->owner) in furi_record_open. *)
Arrived(n) == owner[n] # NoThread

-----------------------------------------------------------------------------
BadCreateBegin(t, n, d) ==
  /\ pc[t] = "idle"
  /\ t = Provider[n]
  /\ ~Published(n)
  /\ mutex = NoThread
  /\ mutex' = t
  /\ dict' = dict \union {n}
  /\ data' = [data EXCEPT ![n] = DataOf(n)] \* not written yet
  /\ owner' = [owner EXCEPT ![n] = t]       \* but owner is
  /\ holders' = [holders EXCEPT ![n] = HoldersOf(n)]
  /\ pc' = [pc EXCEPT ![t] = "create_owner"]
  /\ arg' = [arg EXCEPT ![t] = n]
  /\ UNCHANGED <<flag, todo, handle>>

(* furi_record_create, under the mutex: write data.  A service creates its *)
(* record once and may create it again only after destroying it.           *)
CreateBegin(t, n, d) ==
  /\ pc[t] = "idle"
  /\ t = Provider[n]
  /\ ~Published(n)
  /\ mutex = NoThread
  /\ mutex' = t
  /\ dict' = dict \union {n}
  /\ data' = [data EXCEPT ![n] = d]
  /\ owner' = [owner EXCEPT ![n] = OwnerOf(n)]
  /\ holders' = [holders EXCEPT ![n] = HoldersOf(n)]
  /\ pc' = [pc EXCEPT ![t] = "create_owner"]
  /\ arg' = [arg EXCEPT ![t] = n]
  /\ UNCHANGED <<flag, todo, handle>>

(* Still under the mutex: write owner, which openers read without it.      *)
CreateOwner(t) ==
  /\ pc[t] = "create_owner"
  /\ owner' = [owner EXCEPT ![arg[t]] = t]
  /\ todo' = holders[arg[t]]
  /\ pc' = [pc EXCEPT ![t] = "create_notify"]
  /\ UNCHANGED <<mutex, dict, data, holders, flag, arg, handle>>

(* One turn of the loop over the holders: osThreadFlagsSet.                *)
CreateNotify(t, h) ==
  /\ pc[t] = "create_notify"
  /\ h \in todo
  /\ flag' = flag \union {h}
  /\ todo' = todo \ {h}
  /\ UNCHANGED <<mutex, record, pc, arg, handle>>

BadCreateEnd(t) ==
  /\ pc[t] = "create_notify"
  /\ \A h, i \in todo : h = i \* the loop stops one holder early
  /\ mutex' = NoThread
  /\ pc' = [pc EXCEPT ![t] = "idle"]
  /\ UNCHANGED <<record, flag, arg, todo, handle>>

CreateEnd(t) ==
  /\ pc[t] = "create_notify"
  /\ todo = {}
  /\ mutex' = NoThread
  /\ pc' = [pc EXCEPT ![t] = "idle"]
  /\ UNCHANGED <<record, flag, arg, todo, handle>>

(* furi_record_destroy when it returns true; when it returns false it has  *)
(* changed nothing.                                                        *)
Destroy(t, n) ==
  /\ pc[t] = "idle"
  /\ mutex = NoThread
  /\ Destroyable(t, n)
  /\ dict' = dict \ {n}
  /\ UNCHANGED <<mutex, data, owner, holders, flag, pc, arg, todo, handle>>

-----------------------------------------------------------------------------
(* furi_record_open is called.  holders is a set, so a thread that has the *)
(* record open already would not be counted twice: clients pair open and   *)
(* close and do not nest them.                                             *)
OpenCall(t, n) ==
  /\ pc[t] = "idle"
  /\ handle[t][n] = NoData
  /\ pc' = [pc EXCEPT ![t] = "open_lock"]
  /\ arg' = [arg EXCEPT ![t] = n]
  /\ UNCHANGED <<mutex, record, flag, todo, handle>>

(* The head of the loop: under the mutex, become a holder.                 *)
OpenHold(t) ==
  LET n == arg[t] IN
  /\ pc[t] = "open_lock"
  /\ mutex = NoThread
  /\ dict' = dict \union {n}
  /\ data' = [data EXCEPT ![n] = DataOf(n)]
  /\ owner' = [owner EXCEPT ![n] = OwnerOf(n)]
  /\ holders' = [holders EXCEPT ![n] = HoldersWith(t, n)]
  /\ pc' = [pc EXCEPT ![t] = "open_check"]
  /\ UNCHANGED <<mutex, flag, arg, todo, handle>>

(* if(record->owner), read without the mutex.                              *)
OpenCheck(t) ==
  /\ pc[t] = "open_check"
  /\ pc' = [pc EXCEPT ![t] = IF Arrived(arg[t]) THEN "open_return"
                                                 ELSE "open_wait"]
  /\ UNCHANGED <<mutex, record, flag, arg, todo, handle>>

(* osThreadFlagsWait returns and clears the flag; back to the loop head.   *)
OpenWait(t) ==
  /\ pc[t] = "open_wait"
  /\ t \in flag
  /\ flag' = flag \ {t}
  /\ pc' = [pc EXCEPT ![t] = "open_lock"]
  /\ UNCHANGED <<mutex, record, arg, todo, handle>>

(* return record->data, read without the mutex.                            *)
OpenReturn(t) ==
  /\ pc[t] = "open_return"
  /\ handle' = [handle EXCEPT ![t][arg[t]] = data[arg[t]]]
  /\ pc' = [pc EXCEPT ![t] = "idle"]
  /\ UNCHANGED <<mutex, record, flag, arg, todo>>

BadClose(t, n) ==
  /\ pc[t] = "idle"
  /\ handle[t][n] # NoData
  /\ mutex = NoThread
  /\ handle' = [handle EXCEPT ![t][n] = NoData] \* and stays a holder
  /\ UNCHANGED <<mutex, dict, data, owner, holders, flag, pc, arg, todo>>

(* furi_record_close, by a thread that has the record open.                *)
Close(t, n) ==
  /\ pc[t] = "idle"
  /\ handle[t][n] # NoData
  /\ mutex = NoThread
  /\ holders' = [holders EXCEPT ![n] = @ \ {t}]
  /\ handle' = [handle EXCEPT ![t][n] = NoData]
  /\ UNCHANGED <<mutex, dict, data, owner, flag, pc, arg, todo>>

-----------------------------------------------------------------------------
(* Bit 0 is also the input driver's ISR flag, the GUI's draw flag and the  *)
(* storage service's completion flag: it may be raised at any time, and a  *)
(* thread that is not in furi_record_open may consume it.                  *)
OtherFlagSet(t) ==
  /\ flag' = flag \union {t}
  /\ UNCHANGED <<mutex, record, pc, arg, todo, handle>>

OtherFlagWait(t) ==
  /\ pc[t] = "idle"
  /\ t \in flag
  /\ flag' = flag \ {t}
  /\ UNCHANGED <<mutex, record, pc, arg, todo, handle>>

-----------------------------------------------------------------------------
Next ==
  \E t \in Threads :
    \/ \E n \in Names, d \in Data : CreateBegin(t, n, d)
    \/ CreateOwner(t)
    \/ \E h \in Threads : CreateNotify(t, h)
    \/ CreateEnd(t)
    \/ \E n \in Names : Destroy(t, n)
    \/ \E n \in Names : OpenCall(t, n)
    \/ OpenHold(t)
    \/ OpenCheck(t)
    \/ OpenWait(t)
    \/ OpenReturn(t)
    \/ \E n \in Names : Close(t, n)
    \/ OtherFlagSet(t)
    \/ OtherFlagWait(t)

(* A thread inside a call is scheduled until the call returns.  The mutex  *)
(* keeps its waiters in a queue, so one that waits for it gets it even if  *)
(* others keep taking it: strong fairness.  Nothing makes a thread start a *)
(* call.                                                                   *)
Fairness ==
  \A t \in Threads :
    /\ WF_vars(CreateOwner(t))
    /\ WF_vars(\E h \in Threads : CreateNotify(t, h))
    /\ WF_vars(CreateEnd(t))
    /\ SF_vars(OpenHold(t))
    /\ WF_vars(OpenCheck(t))
    /\ WF_vars(OpenWait(t))
    /\ WF_vars(OpenReturn(t))

Spec == Init /\ [][Next]_vars /\ Fairness

-----------------------------------------------------------------------------
(* The unlocked reads of furi_record_open are safe: whenever a thread may  *)
(* still use its record pointer after giving the mutex back, the record is *)
(* in the dictionary and counts that thread as a holder.                   *)
RecordPointerLive ==
  \A t \in Threads :
    pc[t] \in {"open_check", "open_wait", "open_return"} =>
      arg[t] \in dict /\ t \in holders[arg[t]]

(* A pointer returned by furi_record_open stays the record's pointer until *)
(* it is closed: the record is neither destroyed nor given other data.     *)
HandleLive ==
  \A t \in Threads, n \in Names :
    handle[t][n] # NoData =>
      /\ Published(n)
      /\ t \in holders[n]
      /\ data[n] = handle[t][n]

(* furi_record_open never returns NULL: it reads owner and then data with  *)
(* no lock, and furi_record_create writes data before owner, so an opener  *)
(* that has seen an owner finds data.                                      *)
ReturnsData ==
  \A t \in Threads : pc[t] = "open_return" => data[arg[t]] \in Data

(* No lost wakeup: a thread asleep on a record that has an owner has its   *)
(* flag pending, or the creator is still going to set it.                  *)
NoLostWakeup ==
  \A t \in Threads :
    pc[t] = "open_wait" /\ owner[arg[t]] # NoThread =>
      \/ t \in flag
      \/ /\ t \in todo
         /\ \E c \in Threads : pc[c] = "create_notify" /\ arg[c] = arg[t]

(* "Suspends caller thread till record appear": a holder that is still in  *)
(* furi_record_open for a record that has an owner returns from it.        *)
OpenReturns ==
  \A t \in Threads : \A n \in Names :
    (pc[t] \in Opening /\ arg[t] = n /\ t \in holders[n] /\ Published(n))
      ~> (pc[t] = "idle" /\ handle[t][n] # NoData)

(* The registry implements RecordService: published is owner and data seen *)
(* together, a pair is asked when the thread is a holder with no pointer.  *)
published == [n \in Names |-> IF Published(n) THEN data[n] ELSE NoData]
asked == {p \in Threads \X Names :
            p[2] \in dict /\ p[1] \in holders[p[2]] /\ handle[p[1]][p[2]] = NoData}
Service == INSTANCE RecordService
ImplementsService == Service!Spec
=============================================================================
