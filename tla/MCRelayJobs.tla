----------------------------- MODULE MCRelayJobs -----------------------------
(***************************************************************************)
(* RelayJobs on small instances.  Requests are interchangeable in the      *)
(* safety runs; time, ids and tokens are ordered and are not.              *)
(***************************************************************************)
EXTENDS RelayJobs, TLC

Symmetry == Permutations(RequestIds)

=============================================================================
