------------------------------ MODULE MCThreads ------------------------------
(***************************************************************************)
(* The components whose threads must not only keep clear of each other but *)
(* also go on: the serial console and the dialogs of the SD card service.  *)
(* They share no state here.  A behaviour is one of one component, chosen  *)
(* at the start, and the others stay where they begin; what is claimed of  *)
(* those holds trivially, since no liveness property asks for anything in  *)
(* an initial state.                                                       *)
(***************************************************************************)
EXTENDS CliSession, SdDialogs

VARIABLE component

ThreadsInit ==
  /\ component \in {"cli", "dialogs"}
  /\ CliInit
  /\ DialogsInit /\ (component # "dialogs" => mounted)

CliOnly ==
  /\ component = "cli" /\ CliNext
  /\ UNCHANGED dialogsVars

DialogsOnly ==
  /\ component = "dialogs" /\ DialogsNext
  /\ UNCHANGED cliVars

ThreadsNext ==
  /\ UNCHANGED component
  /\ CliOnly \/ DialogsOnly

threadsVars == <<component, cliVars, dialogsVars>>

(* The fairness of the component that runs, with no demand on those that   *)
(* stay where they are.                                                    *)
ThreadsFairness ==
  \/ component = "cli" /\ CliFairness
  \/ component = "dialogs" /\ DialogsFairness

ThreadsSpec == ThreadsInit /\ [][ThreadsNext]_threadsVars /\ ThreadsFairness

(* Every variable keeps its type, and with it every queue and counter its  *)
(* bound.                                                                  *)
ThreadsTypeOK == CliTypeOK /\ DialogsTypeOK
=============================================================================
