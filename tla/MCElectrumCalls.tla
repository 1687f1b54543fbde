-------------------------- MODULE MCElectrumCalls --------------------------
(***************************************************************************)
(* Instances of ElectrumCalls.                                             *)
(***************************************************************************)
EXTENDS ElectrumCalls
=============================================================================
