---------------------------- MODULE MCRelaySession ----------------------------
(* RelaySession on small instances.                                        *)
EXTENDS RelaySession
=============================================================================
