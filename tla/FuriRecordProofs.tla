-------------------------- MODULE FuriRecordProofs --------------------------
(***************************************************************************)
(* Proofs about FuriRecord for every set of threads and names: the         *)
(* pointers furi_record_open uses and returns stay valid, no wakeup is     *)
(* lost, and the registry implements RecordService.                        *)
(***************************************************************************)
EXTENDS FuriRecord, TLAPS

-----------------------------------------------------------------------------
(* The parts of the inductive invariant the runs do not name.              *)

(* The mutex is held across steps by furi_record_create and by nobody else, *)
(* and that call is the provider's.                                        *)
CreatorOwnsMutex ==
  \A t \in Threads :
    /\ mutex = t <=> pc[t] \in Creating
    /\ pc[t] \in Creating => t = Provider[arg[t]] /\ arg[t] \in dict /\ data[arg[t]] \in Data
    /\ pc[t] = "create_owner" => owner[arg[t]] = NoThread
    /\ pc[t] = "create_notify" => owner[arg[t]] = t

(* A record has an owner only after its data was written, and the owner is *)
(* its provider.                                                           *)
OwnedHasData ==
  \A n \in dict : owner[n] # NoThread => data[n] \in Data /\ owner[n] = Provider[n]

(* A thread that is about to return the pointer has seen the owner.        *)
ReturningSawOwner ==
  \A t \in Threads : pc[t] = "open_return" => owner[arg[t]] # NoThread

(* A thread that is opening a record has no pointer to it yet.             *)
NoHandleYet ==
  \A t \in Threads : pc[t] \in Opening => handle[t][arg[t]] = NoData

IInv ==
  /\ TypeOK
  /\ CreatorOwnsMutex
  /\ OwnedHasData
  /\ RecordPointerLive
  /\ ReturningSawOwner
  /\ HandleLive
  /\ NoLostWakeup
  /\ NoHandleYet

-----------------------------------------------------------------------------
(* The registry starts in a state that satisfies the invariant.            *)
LEMMA InitIInv == Init => IInv
<1> SUFFICES ASSUME Init PROVE IInv
  OBVIOUS
<1> USE ProviderAssumption, NullAssumption DEF Init
<1>1. TypeOK
  BY DEF TypeOK
<1>2. CreatorOwnsMutex
  BY DEF CreatorOwnsMutex, Creating
<1>3. OwnedHasData /\ RecordPointerLive /\ ReturningSawOwner
  BY DEF OwnedHasData, RecordPointerLive, ReturningSawOwner
<1>4. HandleLive /\ NoLostWakeup
  BY DEF HandleLive, NoLostWakeup
<1>5. NoHandleYet
  BY DEF NoHandleYet, Opening
<1>6. QED
  BY <1>1, <1>2, <1>3, <1>4, <1>5 DEF IInv
-----------------------------------------------------------------------------
(* Every step of the registry preserves the invariant.                     *)
LEMMA NextIInv == IInv /\ [Next]_vars => IInv'
<1> SUFFICES ASSUME IInv, [Next]_vars PROVE IInv'
  OBVIOUS
<1> USE ProviderAssumption, NullAssumption
<1> USE DEF IInv, Opening, Creating
<1>1. ASSUME NEW t \in Threads, NEW n \in Names, NEW d \in Data, CreateBegin(t, n, d) PROVE IInv'
  <2>1. TypeOK'
    BY <1>1 DEF CreateBegin, OwnerOf, HoldersOf, Published, TypeOK
  <2>2. CreatorOwnsMutex'
    BY <1>1 DEF CreateBegin, OwnerOf, HoldersOf, Published, TypeOK, CreatorOwnsMutex
  <2>3. OwnedHasData'
    BY <1>1 DEF CreateBegin, OwnerOf, HoldersOf, Published, TypeOK, OwnedHasData, CreatorOwnsMutex
  <2>4. RecordPointerLive'
    BY <1>1 DEF CreateBegin, OwnerOf, HoldersOf, Published, TypeOK, RecordPointerLive, CreatorOwnsMutex
  <2>5. ReturningSawOwner'
    BY <1>1 DEF CreateBegin, OwnerOf, HoldersOf, Published, TypeOK, ReturningSawOwner, CreatorOwnsMutex, RecordPointerLive
  <2>6. HandleLive'
    BY <1>1 DEF CreateBegin, OwnerOf, HoldersOf, Published, TypeOK, HandleLive, CreatorOwnsMutex, OwnedHasData, RecordPointerLive, ReturningSawOwner
  <2>7. NoLostWakeup'
    BY <1>1 DEF CreateBegin, OwnerOf, HoldersOf, Published, TypeOK, NoLostWakeup, CreatorOwnsMutex, RecordPointerLive
  <2>8. NoHandleYet'
    BY <1>1 DEF CreateBegin, OwnerOf, HoldersOf, Published, TypeOK, NoHandleYet
  <2>9. QED
    BY <2>1, <2>2, <2>3, <2>4, <2>5, <2>6, <2>7, <2>8
<1>2. ASSUME NEW t \in Threads, CreateOwner(t) PROVE IInv'
  <2>1. TypeOK'
    BY <1>2 DEF CreateOwner, TypeOK, CreatorOwnsMutex
  <2>2. CreatorOwnsMutex'
    BY <1>2 DEF CreateOwner, TypeOK, CreatorOwnsMutex
  <2>3. OwnedHasData'
    BY <1>2 DEF CreateOwner, TypeOK, OwnedHasData, CreatorOwnsMutex
  <2>4. RecordPointerLive'
    BY <1>2 DEF CreateOwner, TypeOK, RecordPointerLive, CreatorOwnsMutex
  <2>5. ReturningSawOwner'
    BY <1>2 DEF CreateOwner, TypeOK, ReturningSawOwner, CreatorOwnsMutex, RecordPointerLive
  <2>6. HandleLive'
    BY <1>2 DEF CreateOwner, TypeOK, HandleLive, CreatorOwnsMutex, OwnedHasData, RecordPointerLive, ReturningSawOwner, Published
  <2>7. NoLostWakeup'
    BY <1>2 DEF CreateOwner, TypeOK, NoLostWakeup, CreatorOwnsMutex, RecordPointerLive
  <2>8. NoHandleYet'
    BY <1>2 DEF CreateOwner, TypeOK, NoHandleYet
  <2>9. QED
    BY <2>1, <2>2, <2>3, <2>4, <2>5, <2>6, <2>7, <2>8
<1>3. ASSUME NEW t \in Threads, NEW h \in Threads, CreateNotify(t, h) PROVE IInv'
  <2>1. TypeOK'
    BY <1>3 DEF CreateNotify, record, TypeOK
  <2>2. CreatorOwnsMutex'
    BY <1>3 DEF CreateNotify, record, TypeOK, CreatorOwnsMutex
  <2>3. OwnedHasData'
    BY <1>3 DEF CreateNotify, record, TypeOK, OwnedHasData, CreatorOwnsMutex
  <2>4. RecordPointerLive'
    BY <1>3 DEF CreateNotify, record, TypeOK, RecordPointerLive, CreatorOwnsMutex
  <2>5. ReturningSawOwner'
    BY <1>3 DEF CreateNotify, record, TypeOK, ReturningSawOwner, CreatorOwnsMutex, RecordPointerLive
  <2>6. HandleLive'
    BY <1>3 DEF CreateNotify, record, TypeOK, HandleLive, CreatorOwnsMutex, OwnedHasData, RecordPointerLive, ReturningSawOwner, Published
  <2>7. NoLostWakeup'
    BY <1>3 DEF CreateNotify, record, TypeOK, NoLostWakeup, CreatorOwnsMutex, RecordPointerLive
  <2>8. NoHandleYet'
    BY <1>3 DEF CreateNotify, record, TypeOK, NoHandleYet
  <2>9. QED
    BY <2>1, <2>2, <2>3, <2>4, <2>5, <2>6, <2>7, <2>8
<1>4. ASSUME NEW t \in Threads, CreateEnd(t) PROVE IInv'
  <2>1. TypeOK'
    BY <1>4 DEF CreateEnd, record, TypeOK
  <2>2. CreatorOwnsMutex'
    BY <1>4 DEF CreateEnd, record, TypeOK, CreatorOwnsMutex
  <2>3. OwnedHasData'
    BY <1>4 DEF CreateEnd, record, TypeOK, OwnedHasData, CreatorOwnsMutex
  <2>4. RecordPointerLive'
    BY <1>4 DEF CreateEnd, record, TypeOK, RecordPointerLive, CreatorOwnsMutex
  <2>5. ReturningSawOwner'
    BY <1>4 DEF CreateEnd, record, TypeOK, ReturningSawOwner, CreatorOwnsMutex, RecordPointerLive
  <2>6. HandleLive'
    BY <1>4 DEF CreateEnd, record, TypeOK, HandleLive, CreatorOwnsMutex, OwnedHasData, RecordPointerLive, ReturningSawOwner, Published
  <2>7. NoLostWakeup'
    BY <1>4 DEF CreateEnd, record, TypeOK, NoLostWakeup, CreatorOwnsMutex, RecordPointerLive
  <2>8. NoHandleYet'
    BY <1>4 DEF CreateEnd, record, TypeOK, NoHandleYet
  <2>9. QED
    BY <2>1, <2>2, <2>3, <2>4, <2>5, <2>6, <2>7, <2>8
<1>5. ASSUME NEW t \in Threads, NEW n \in Names, Destroy(t, n) PROVE IInv'
  <2>1. TypeOK'
    BY <1>5 DEF Destroy, Destroyable, TypeOK
  <2>2. CreatorOwnsMutex'
    BY <1>5 DEF Destroy, Destroyable, TypeOK, CreatorOwnsMutex
  <2>3. OwnedHasData'
    BY <1>5 DEF Destroy, Destroyable, TypeOK, OwnedHasData, CreatorOwnsMutex
  <2>4. RecordPointerLive'
    BY <1>5 DEF Destroy, Destroyable, TypeOK, RecordPointerLive, CreatorOwnsMutex
  <2>5. ReturningSawOwner'
    BY <1>5 DEF Destroy, Destroyable, TypeOK, ReturningSawOwner, CreatorOwnsMutex, RecordPointerLive
  <2>6. HandleLive'
    BY <1>5 DEF Destroy, Destroyable, TypeOK, HandleLive, CreatorOwnsMutex, OwnedHasData, RecordPointerLive, ReturningSawOwner, Published
  <2>7. NoLostWakeup'
    BY <1>5 DEF Destroy, Destroyable, TypeOK, NoLostWakeup, CreatorOwnsMutex, RecordPointerLive
  <2>8. NoHandleYet'
    BY <1>5 DEF Destroy, Destroyable, TypeOK, NoHandleYet
  <2>9. QED
    BY <2>1, <2>2, <2>3, <2>4, <2>5, <2>6, <2>7, <2>8
<1>6. ASSUME NEW t \in Threads, NEW n \in Names, OpenCall(t, n) PROVE IInv'
  <2>1. TypeOK'
    BY <1>6 DEF OpenCall, record, TypeOK
  <2>2. CreatorOwnsMutex'
    BY <1>6 DEF OpenCall, record, TypeOK, CreatorOwnsMutex
  <2>3. OwnedHasData'
    BY <1>6 DEF OpenCall, record, TypeOK, OwnedHasData, CreatorOwnsMutex
  <2>4. RecordPointerLive'
    BY <1>6 DEF OpenCall, record, TypeOK, RecordPointerLive, CreatorOwnsMutex
  <2>5. ReturningSawOwner'
    BY <1>6 DEF OpenCall, record, TypeOK, ReturningSawOwner, CreatorOwnsMutex, RecordPointerLive
  <2>6. HandleLive'
    BY <1>6 DEF OpenCall, record, TypeOK, HandleLive, CreatorOwnsMutex, OwnedHasData, RecordPointerLive, ReturningSawOwner, Published
  <2>7. NoLostWakeup'
    <3> SUFFICES ASSUME NEW s \in Threads, pc'[s] = "open_wait", owner'[arg'[s]] # NoThread
                 PROVE  \/ s \in flag'
                        \/ /\ s \in todo'
                           /\ \E c \in Threads : pc'[c] = "create_notify" /\ arg'[c] = arg'[s]
      BY DEF NoLostWakeup
    <3>1. s # t /\ pc[s] = "open_wait" /\ arg'[s] = arg[s] /\ owner[arg[s]] # NoThread
      BY <1>6 DEF OpenCall, record, TypeOK
    <3>2. ASSUME NEW c \in Threads, pc[c] = "create_notify" PROVE pc'[c] = pc[c] /\ arg'[c] = arg[c]
      BY <1>6, <3>2 DEF OpenCall, TypeOK
    <3>3. QED
      BY <1>6, <3>1, <3>2 DEF OpenCall, NoLostWakeup
  <2>8. NoHandleYet'
    BY <1>6 DEF OpenCall, record, TypeOK, NoHandleYet
  <2>9. QED
    BY <2>1, <2>2, <2>3, <2>4, <2>5, <2>6, <2>7, <2>8
<1>7. ASSUME NEW t \in Threads, OpenHold(t) PROVE IInv'
  <2>1. TypeOK'
    BY <1>7 DEF OpenHold, DataOf, OwnerOf, HoldersOf, HoldersWith, TypeOK
  <2>2. CreatorOwnsMutex'
    BY <1>7 DEF OpenHold, DataOf, OwnerOf, HoldersOf, HoldersWith, TypeOK, CreatorOwnsMutex
  <2>3. OwnedHasData'
    BY <1>7 DEF OpenHold, DataOf, OwnerOf, HoldersOf, HoldersWith, TypeOK, OwnedHasData, CreatorOwnsMutex
  <2>4. RecordPointerLive'
    BY <1>7 DEF OpenHold, DataOf, OwnerOf, HoldersOf, HoldersWith, TypeOK, RecordPointerLive, CreatorOwnsMutex
  <2>5. ReturningSawOwner'
    BY <1>7 DEF OpenHold, DataOf, OwnerOf, HoldersOf, HoldersWith, TypeOK, ReturningSawOwner, CreatorOwnsMutex, RecordPointerLive
  <2>6. HandleLive'
    BY <1>7 DEF OpenHold, DataOf, OwnerOf, HoldersOf, HoldersWith, TypeOK, HandleLive, CreatorOwnsMutex, OwnedHasData, RecordPointerLive, ReturningSawOwner, Published
  <2>7. NoLostWakeup'
    BY <1>7 DEF OpenHold, DataOf, OwnerOf, HoldersOf, HoldersWith, TypeOK, NoLostWakeup, CreatorOwnsMutex, RecordPointerLive
  <2>8. NoHandleYet'
    BY <1>7 DEF OpenHold, DataOf, OwnerOf, HoldersOf, HoldersWith, TypeOK, NoHandleYet
  <2>9. QED
    BY <2>1, <2>2, <2>3, <2>4, <2>5, <2>6, <2>7, <2>8
<1>8. ASSUME NEW t \in Threads, OpenCheck(t) PROVE IInv'
  <2>1. TypeOK'
    BY <1>8 DEF OpenCheck, Arrived, record, TypeOK
  <2>2. CreatorOwnsMutex'
    BY <1>8 DEF OpenCheck, Arrived, record, TypeOK, CreatorOwnsMutex
  <2>3. OwnedHasData'
    BY <1>8 DEF OpenCheck, Arrived, record, TypeOK, OwnedHasData, CreatorOwnsMutex
  <2>4. RecordPointerLive'
    BY <1>8 DEF OpenCheck, Arrived, record, TypeOK, RecordPointerLive, CreatorOwnsMutex
  <2>5. ReturningSawOwner'
    BY <1>8 DEF OpenCheck, Arrived, record, TypeOK, ReturningSawOwner, CreatorOwnsMutex, RecordPointerLive
  <2>6. HandleLive'
    BY <1>8 DEF OpenCheck, Arrived, record, TypeOK, HandleLive, CreatorOwnsMutex, OwnedHasData, RecordPointerLive, ReturningSawOwner, Published
  <2>7. NoLostWakeup'
    BY <1>8 DEF OpenCheck, Arrived, record, TypeOK, NoLostWakeup, CreatorOwnsMutex, RecordPointerLive
  <2>8. NoHandleYet'
    BY <1>8 DEF OpenCheck, Arrived, record, TypeOK, NoHandleYet
  <2>9. QED
    BY <2>1, <2>2, <2>3, <2>4, <2>5, <2>6, <2>7, <2>8
<1>9. ASSUME NEW t \in Threads, OpenWait(t) PROVE IInv'
  <2>1. TypeOK'
    BY <1>9 DEF OpenWait, record, TypeOK
  <2>2. CreatorOwnsMutex'
    BY <1>9 DEF OpenWait, record, TypeOK, CreatorOwnsMutex
  <2>3. OwnedHasData'
    BY <1>9 DEF OpenWait, record, TypeOK, OwnedHasData, CreatorOwnsMutex
  <2>4. RecordPointerLive'
    BY <1>9 DEF OpenWait, record, TypeOK, RecordPointerLive, CreatorOwnsMutex
  <2>5. ReturningSawOwner'
    BY <1>9 DEF OpenWait, record, TypeOK, ReturningSawOwner, CreatorOwnsMutex, RecordPointerLive
  <2>6. HandleLive'
    BY <1>9 DEF OpenWait, record, TypeOK, HandleLive, CreatorOwnsMutex, OwnedHasData, RecordPointerLive, ReturningSawOwner, Published
  <2>7. NoLostWakeup'
    BY <1>9 DEF OpenWait, record, TypeOK, NoLostWakeup, CreatorOwnsMutex, RecordPointerLive
  <2>8. NoHandleYet'
    BY <1>9 DEF OpenWait, record, TypeOK, NoHandleYet
  <2>9. QED
    BY <2>1, <2>2, <2>3, <2>4, <2>5, <2>6, <2>7, <2>8
<1>10. ASSUME NEW t \in Threads, OpenReturn(t) PROVE IInv'
  <2>1. TypeOK'
    BY <1>10 DEF OpenReturn, record, TypeOK
  <2>2. CreatorOwnsMutex'
    BY <1>10 DEF OpenReturn, record, TypeOK, CreatorOwnsMutex
  <2>3. OwnedHasData'
    BY <1>10 DEF OpenReturn, record, TypeOK, OwnedHasData, CreatorOwnsMutex
  <2>4. RecordPointerLive'
    BY <1>10 DEF OpenReturn, record, TypeOK, RecordPointerLive, CreatorOwnsMutex
  <2>5. ReturningSawOwner'
    BY <1>10 DEF OpenReturn, record, TypeOK, ReturningSawOwner, CreatorOwnsMutex, RecordPointerLive
  <2>6. HandleLive'
    BY <1>10 DEF OpenReturn, record, TypeOK, HandleLive, CreatorOwnsMutex, OwnedHasData, RecordPointerLive, ReturningSawOwner, Published
  <2>7. NoLostWakeup'
    BY <1>10 DEF OpenReturn, record, TypeOK, NoLostWakeup, CreatorOwnsMutex, RecordPointerLive
  <2>8. NoHandleYet'
    BY <1>10 DEF OpenReturn, record, TypeOK, NoHandleYet
  <2>9. QED
    BY <2>1, <2>2, <2>3, <2>4, <2>5, <2>6, <2>7, <2>8
<1>11. ASSUME NEW t \in Threads, NEW n \in Names, Close(t, n) PROVE IInv'
  <2>1. TypeOK'
    BY <1>11 DEF Close, TypeOK
  <2>2. CreatorOwnsMutex'
    BY <1>11 DEF Close, TypeOK, CreatorOwnsMutex
  <2>3. OwnedHasData'
    BY <1>11 DEF Close, TypeOK, OwnedHasData, CreatorOwnsMutex
  <2>4. RecordPointerLive'
    BY <1>11 DEF Close, TypeOK, RecordPointerLive, CreatorOwnsMutex
  <2>5. ReturningSawOwner'
    BY <1>11 DEF Close, TypeOK, ReturningSawOwner, CreatorOwnsMutex, RecordPointerLive
  <2>6. HandleLive'
    BY <1>11 DEF Close, TypeOK, HandleLive, CreatorOwnsMutex, OwnedHasData, RecordPointerLive, ReturningSawOwner, Published
  <2>7. NoLostWakeup'
    BY <1>11 DEF Close, TypeOK, NoLostWakeup, CreatorOwnsMutex, RecordPointerLive
  <2>8. NoHandleYet'
    BY <1>11 DEF Close, TypeOK, NoHandleYet
  <2>9. QED
    BY <2>1, <2>2, <2>3, <2>4, <2>5, <2>6, <2>7, <2>8
<1>12. ASSUME NEW t \in Threads, OtherFlagSet(t) PROVE IInv'
  <2>1. TypeOK'
    BY <1>12 DEF OtherFlagSet, record, TypeOK
  <2>2. CreatorOwnsMutex'
    BY <1>12 DEF OtherFlagSet, record, TypeOK, CreatorOwnsMutex
  <2>3. OwnedHasData'
    BY <1>12 DEF OtherFlagSet, record, TypeOK, OwnedHasData, CreatorOwnsMutex
  <2>4. RecordPointerLive'
    BY <1>12 DEF OtherFlagSet, record, TypeOK, RecordPointerLive, CreatorOwnsMutex
  <2>5. ReturningSawOwner'
    BY <1>12 DEF OtherFlagSet, record, TypeOK, ReturningSawOwner, CreatorOwnsMutex, RecordPointerLive
  <2>6. HandleLive'
    BY <1>12 DEF OtherFlagSet, record, TypeOK, HandleLive, CreatorOwnsMutex, OwnedHasData, RecordPointerLive, ReturningSawOwner, Published
  <2>7. NoLostWakeup'
    BY <1>12 DEF OtherFlagSet, record, TypeOK, NoLostWakeup, CreatorOwnsMutex, RecordPointerLive
  <2>8. NoHandleYet'
    BY <1>12 DEF OtherFlagSet, record, TypeOK, NoHandleYet
  <2>9. QED
    BY <2>1, <2>2, <2>3, <2>4, <2>5, <2>6, <2>7, <2>8
<1>13. ASSUME NEW t \in Threads, OtherFlagWait(t) PROVE IInv'
  <2>1. TypeOK'
    BY <1>13 DEF OtherFlagWait, record, TypeOK
  <2>2. CreatorOwnsMutex'
    BY <1>13 DEF OtherFlagWait, record, TypeOK, CreatorOwnsMutex
  <2>3. OwnedHasData'
    BY <1>13 DEF OtherFlagWait, record, TypeOK, OwnedHasData, CreatorOwnsMutex
  <2>4. RecordPointerLive'
    BY <1>13 DEF OtherFlagWait, record, TypeOK, RecordPointerLive, CreatorOwnsMutex
  <2>5. ReturningSawOwner'
    BY <1>13 DEF OtherFlagWait, record, TypeOK, ReturningSawOwner, CreatorOwnsMutex, RecordPointerLive
  <2>6. HandleLive'
    BY <1>13 DEF OtherFlagWait, record, TypeOK, HandleLive, CreatorOwnsMutex, OwnedHasData, RecordPointerLive, ReturningSawOwner, Published
  <2>7. NoLostWakeup'
    BY <1>13 DEF OtherFlagWait, record, TypeOK, NoLostWakeup, CreatorOwnsMutex, RecordPointerLive
  <2>8. NoHandleYet'
    BY <1>13 DEF OtherFlagWait, record, TypeOK, NoHandleYet
  <2>9. QED
    BY <2>1, <2>2, <2>3, <2>4, <2>5, <2>6, <2>7, <2>8
<1>14. CASE UNCHANGED vars
  BY <1>14 DEF vars, record, TypeOK, CreatorOwnsMutex, OwnedHasData, RecordPointerLive,
    ReturningSawOwner, HandleLive, NoLostWakeup, NoHandleYet, Published
<1>15. QED
  BY <1>1, <1>2, <1>3, <1>4, <1>5, <1>6, <1>7, <1>8, <1>9, <1>10, <1>11, <1>12, <1>13, <1>14 DEF Next

(* The invariant holds in every reachable state.                           *)
THEOREM Invariance == Spec => []IInv
<1>1. QED
  BY InitIInv, NextIInv, PTL DEF Spec

(* Every variable of the registry keeps its type.                          *)
THEOREM TypeCorrect == Spec => []TypeOK
<1>1. IInv => TypeOK
  BY DEF IInv
<1>2. QED
  BY Invariance, <1>1, PTL

(* furi_record_open never follows its record pointer into a record that    *)
(* was destroyed after it gave the mutex back.                             *)
THEOREM PointersStayLive == Spec => []RecordPointerLive
<1>1. IInv => RecordPointerLive
  BY DEF IInv
<1>2. QED
  BY Invariance, <1>1, PTL

(* What furi_record_open returned is the record's published pointer until  *)
(* furi_record_close.                                                      *)
THEOREM HandlesStayLive == Spec => []HandleLive
<1>1. IInv => HandleLive
  BY DEF IInv
<1>2. QED
  BY Invariance, <1>1, PTL

(* furi_record_open never returns NULL: owner is written after data.       *)
THEOREM OpenReturnsData == Spec => []ReturnsData
<1>1. IInv => ReturnsData
  BY DEF IInv, RecordPointerLive, ReturningSawOwner, OwnedHasData, ReturnsData
<1>2. QED
  BY Invariance, <1>1, PTL

(* A thread never sleeps in furi_record_open after the creator is done.    *)
THEOREM WakeupsAreKept == Spec => []NoLostWakeup
<1>1. IInv => NoLostWakeup
  BY DEF IInv
<1>2. QED
  BY Invariance, <1>1, PTL

-----------------------------------------------------------------------------
(* The registry starts as RecordService does.                              *)
LEMMA InitService == Init => Service!Init
  BY NullAssumption DEF Init, Service!Init, published, asked, Published

(* Every step of the registry is a step of RecordService or leaves its     *)
(* variables alone.                                                        *)
LEMMA NextService == IInv /\ [Next]_vars => [Service!Next]_(Service!vars)
<1> SUFFICES ASSUME IInv, [Next]_vars PROVE [Service!Next]_(Service!vars)
  OBVIOUS
<1> USE ProviderAssumption, NullAssumption
<1> USE DEF IInv, TypeOK, Service!vars, published, asked, Published
<1>1. ASSUME NEW t \in Threads, NEW n \in Names, NEW d \in Data, CreateBegin(t, n, d)
      PROVE UNCHANGED Service!vars
  BY <1>1 DEF CreateBegin, OwnerOf, HoldersOf
<1>2. ASSUME NEW t \in Threads, CreateOwner(t)
      PROVE Service!Publish(arg[t], data[arg[t]]) /\ data[arg[t]] \in Data
  <2> DEFINE n == arg[t]
  <2>1. n \in dict /\ owner[n] = NoThread /\ data[n] \in Data /\ n \in Names
    BY <1>2 DEF CreateOwner, CreatorOwnsMutex, Creating
  <2>2. published[n] = NoData
    BY <2>1
  <2>3. published' = [published EXCEPT ![n] = data[n]]
    BY <1>2, <2>1 DEF CreateOwner
  <2>4. UNCHANGED <<asked, handle>>
    BY <1>2 DEF CreateOwner
  <2>5. QED
    BY <2>1, <2>2, <2>3, <2>4 DEF Service!Publish
<1>3. ASSUME NEW t \in Threads, NEW h \in Threads, CreateNotify(t, h)
      PROVE UNCHANGED Service!vars
  BY <1>3 DEF CreateNotify, record
<1>4. ASSUME NEW t \in Threads, CreateEnd(t) PROVE UNCHANGED Service!vars
  BY <1>4 DEF CreateEnd, record
<1>5. ASSUME NEW t \in Threads, NEW n \in Names, Destroy(t, n)
      PROVE Service!Withdraw(n)
  BY <1>5 DEF Destroy, Destroyable, HandleLive, OwnedHasData, Service!Withdraw
<1>6. ASSUME NEW t \in Threads, NEW n \in Names, OpenCall(t, n)
      PROVE UNCHANGED Service!vars
  BY <1>6 DEF OpenCall, record
<1>7. ASSUME NEW t \in Threads, OpenHold(t)
      PROVE Service!Ask(t, arg[t]) \/ UNCHANGED Service!vars
  BY <1>7 DEF OpenHold, DataOf, OwnerOf, HoldersOf, HoldersWith, Service!Ask
<1>8. ASSUME NEW t \in Threads, OpenCheck(t) PROVE UNCHANGED Service!vars
  BY <1>8 DEF OpenCheck, record
<1>9. ASSUME NEW t \in Threads, OpenWait(t) PROVE UNCHANGED Service!vars
  BY <1>9 DEF OpenWait, record
<1>10. ASSUME NEW t \in Threads, OpenReturn(t) PROVE Service!Grant(t, arg[t])
  <2> DEFINE n == arg[t]
  <2>1. n \in dict /\ t \in holders[n] /\ owner[n] # NoThread /\ data[n] \in Data /\ n \in Names
    BY <1>10 DEF OpenReturn, RecordPointerLive, ReturningSawOwner, OwnedHasData
  <2>2. <<t, n>> \in asked
    BY <1>10, <2>1 DEF OpenReturn, NoHandleYet, Opening
  <2>3. published[n] = data[n] /\ published[n] # NoData
    BY <2>1
  <2>4. handle' = [handle EXCEPT ![t][n] = data[n]] /\ UNCHANGED <<record, arg>>
    BY <1>10 DEF OpenReturn
  <2>5. asked' = asked \ {<<t, n>>}
    BY <2>1, <2>4 DEF record
  <2>6. UNCHANGED published
    BY <2>4 DEF record
  <2>7. QED
    BY <2>2, <2>3, <2>4, <2>5, <2>6 DEF Service!Grant
<1>11. ASSUME NEW t \in Threads, NEW n \in Names, Close(t, n)
       PROVE Service!Release(t, n)
  BY <1>11 DEF Close, HandleLive, Service!Release
<1>12. ASSUME NEW t \in Threads, OtherFlagSet(t) \/ OtherFlagWait(t)
       PROVE UNCHANGED Service!vars
  BY <1>12 DEF OtherFlagSet, OtherFlagWait, record
<1>13. CASE UNCHANGED vars
  BY <1>13 DEF vars, record
<1>14. \A t \in Threads : arg[t] \in Names
  OBVIOUS
<1> HIDE DEF IInv, TypeOK, Service!vars, published, asked, Published
<1>15. QED
  BY <1>1, <1>2, <1>3, <1>4, <1>5, <1>6, <1>7, <1>8, <1>9, <1>10, <1>11, <1>12, <1>13, <1>14
  DEF Next, Service!Next

(* record.c implements the promise of record.h: see RecordService.         *)
THEOREM Refinement == Spec => ImplementsService
<1>1. QED
  BY Invariance, InitService, NextService, PTL DEF Spec, ImplementsService, Service!Spec
=============================================================================
