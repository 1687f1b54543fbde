----------------------------- MODULE MCGuiFlows -----------------------------
(***************************************************************************)
(* Instances of GuiFlows: two profiles, the app starting with one and the  *)
(* configuration naming the other; one of the four gauges.                 *)
(***************************************************************************)
EXTENDS GuiFlows

CONSTANTS alice, bob

OneGauge == <<"pool">>
=============================================================================
