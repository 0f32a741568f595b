--------------------------- MODULE MCRelayDispatch ---------------------------
(* RelayDispatch on small instances.                                       *)
EXTENDS RelayDispatch
=============================================================================
