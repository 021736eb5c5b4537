-------------------------------- MODULE MCCalls --------------------------------
(* Instance of Calls for TLC.                                              *)
EXTENDS Calls, MCPublication, MCLiveWorkflow
=============================================================================
