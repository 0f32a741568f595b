---------------------------- MODULE MCRelayWorker ----------------------------
(* RelayWorker on small instances.                                         *)
EXTENDS RelayTurns
=============================================================================
