---------------------------- MODULE KeyValueStore ----------------------------
(***************************************************************************)
(* What internal-storage.h promises: a read or a write of a key is one     *)
(* step that takes effect between its call and its return, and the return  *)
(* value is that step's.  A failed write may leave an empty file; formatting *)
(* the volume and losing power lose what they lose.                        *)
(***************************************************************************)
CONSTANTS Callers, Keys, Values, NoValue, Empty, NoCall, Ok, Error

VARIABLES files, \* the value stored under each key, or NoValue
          call,  \* what each caller has asked for, or NoCall
          result \* the step's answer, NoCall while it has not been taken

vars == <<files, call, result>>

Calls == [op : {"read", "write"}, key : Keys, value : Values \union {NoValue}]
Answers == [ret : {Ok, Error}, value : Values \union {NoValue}]

Init ==
  /\ files \in [Keys -> Values \union {NoValue}]
  /\ call = [c \in Callers |-> NoCall]
  /\ result = [c \in Callers |-> NoCall]

Call(c) ==
  /\ call[c] = NoCall
  /\ \E r \in Calls : call' = [call EXCEPT ![c] = r]
  /\ UNCHANGED <<files, result>>

Read(c) ==
  /\ call[c] # NoCall
  /\ call[c].op = "read"
  /\ result[c] = NoCall
  /\ \E ret \in {Ok, Error} :
       /\ ret = Ok => files[call[c].key] # NoValue
       /\ result' = [result EXCEPT ![c] =
            [ret |-> ret, value |-> IF ret = Ok THEN files[call[c].key] ELSE NoValue]]
  /\ UNCHANGED <<files, call>>

Write(c) ==
  /\ call[c] # NoCall
  /\ call[c].op = "write"
  /\ result[c] = NoCall
  /\ \E ret \in {Ok, Error} :
       /\ \E v \in {call[c].value} \union
                   IF ret = Ok THEN {} ELSE {files[call[c].key], Empty} :
            files' = [files EXCEPT ![call[c].key] = v]
       /\ result' = [result EXCEPT ![c] = [ret |-> ret, value |-> call[c].value]]
  /\ UNCHANGED call

Return(c) ==
  /\ result[c] # NoCall
  /\ call' = [call EXCEPT ![c] = NoCall]
  /\ result' = [result EXCEPT ![c] = NoCall]
  /\ UNCHANGED files

(* Formatting erases.                                                      *)
Lose ==
  /\ \E S \in SUBSET Keys : files' = [k \in Keys |-> IF k \in S THEN NoValue ELSE files[k]]
  /\ UNCHANGED <<call, result>>

(* Losing power ends every call; a write that was asked for may have        *)
(* happened, not have happened or left an empty file, and a format under   *)
(* way may have erased something.                                          *)
Asked(k) == {call[c].value : c \in {c \in Callers : /\ call[c] # NoCall
                                                  /\ call[c].op = "write"
                                                  /\ call[c].key = k}}
Left(k) == {files[k], NoValue} \union
             IF Asked(k) = {} THEN {} ELSE {Empty} \union Asked(k)

Reboot ==
  /\ files' \in [Keys -> Values \union {NoValue}]
  /\ \A k \in Keys : files'[k] \in Left(k)
  /\ call' = [c \in Callers |-> NoCall]
  /\ result' = [c \in Callers |-> NoCall]

Next ==
  \/ \E c \in Callers : Call(c) \/ Read(c) \/ Write(c) \/ Return(c)
  \/ Lose
  \/ Reboot

Spec == Init /\ [][Next]_vars
==============================================================================
