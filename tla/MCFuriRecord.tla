---------------------------- MODULE MCFuriRecord ----------------------------
(* One record, its service and two clients that race to open it.  What is  *)
(* checked here for one record FuriRecordProofs proves for any number.     *)
EXTENDS FuriRecord

CONSTANTS service, gui

MCProvider == [n \in {gui} |-> service]
=============================================================================
