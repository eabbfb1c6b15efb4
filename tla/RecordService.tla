---------------------------- MODULE RecordService ----------------------------
(***************************************************************************)
(* What core/furi/record.h promises, without mutex, flags or holder sets:  *)
(* a name is published with a pointer, a thread that asked for it is given *)
(* that pointer, and the name is withdrawn only when nobody asked for it   *)
(* or holds it.  FuriRecord.tla implements this specification.             *)
(***************************************************************************)
CONSTANTS Threads, Names, Data, NoData

VARIABLES published, \* the pointer each name is published with, or NoData
          asked,     \* the <<thread, name>> pairs waiting in furi_record_open
          handle     \* the pointer each thread has open for each name

vars == <<published, asked, handle>>

Init ==
  /\ published = [n \in Names |-> NoData]
  /\ asked = {}
  /\ handle = [t \in Threads |-> [n \in Names |-> NoData]]

Publish(n, d) ==
  /\ published[n] = NoData
  /\ published' = [published EXCEPT ![n] = d]
  /\ UNCHANGED <<asked, handle>>

(* "false if still have holders": a waiting thread is a holder too.        *)
Withdraw(n) ==
  /\ published[n] # NoData
  /\ \A t \in Threads : <<t, n>> \notin asked /\ handle[t][n] = NoData
  /\ published' = [published EXCEPT ![n] = NoData]
  /\ UNCHANGED <<asked, handle>>

Ask(t, n) ==
  /\ <<t, n>> \notin asked
  /\ handle[t][n] = NoData
  /\ asked' = asked \union {<<t, n>>}
  /\ UNCHANGED <<published, handle>>

Grant(t, n) ==
  /\ <<t, n>> \in asked
  /\ published[n] # NoData
  /\ handle' = [handle EXCEPT ![t][n] = published[n]]
  /\ asked' = asked \ {<<t, n>>}
  /\ UNCHANGED published

Release(t, n) ==
  /\ handle[t][n] # NoData
  /\ handle' = [handle EXCEPT ![t][n] = NoData]
  /\ UNCHANGED <<published, asked>>

Next ==
  \E n \in Names :
    \/ \E d \in Data : Publish(n, d)
    \/ Withdraw(n)
    \/ \E t \in Threads : Ask(t, n) \/ Grant(t, n) \/ Release(t, n)

Spec == Init /\ [][Next]_vars
==============================================================================
