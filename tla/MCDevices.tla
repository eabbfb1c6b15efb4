----------------------------- MODULE MCDevices -----------------------------
(***************************************************************************)
(* The components whose threads poll a device while others tell them to    *)
(* stop: the buttons, with the timers of the input service, and the radio  *)
(* of the NFC application, with its worker threads.  They share no state   *)
(* here.  A behaviour is one of one component, chosen at the start, and    *)
(* the other stays where it begins.                                        *)
(***************************************************************************)
EXTENDS InputService, NfcApp

VARIABLE component

DevicesInit ==
  /\ component \in {"input", "nfc"}
  /\ InputInit /\ (component # "input" => \A i \in Pins : ~pinLevel[i])
  /\ NfcInit /\ (component # "nfc" => nfcState = "ready")

InputOnly == component = "input" /\ InputNext /\ UNCHANGED nfcVars
NfcOnly == component = "nfc" /\ NfcNext /\ UNCHANGED inputVars

DevicesNext ==
  /\ UNCHANGED component
  /\ InputOnly \/ NfcOnly

devicesVars == <<component, inputVars, nfcVars>>

(* The fairness of the component that runs.                                *)
DevicesFairness ==
  \/ component = "input" /\ InputFairness
  \/ component = "nfc" /\ NfcFairness

DevicesSpec == DevicesInit /\ [][DevicesNext]_devicesVars /\ DevicesFairness
=============================================================================
