---------------------------- MODULE MCHealthPoller ----------------------------
(* HealthPoller and the PluginManager it calls, for TLC.                     *)
EXTENDS HealthPoller

OnePlugin == [n \in Names |-> CHOOSE p \in Plugins : TRUE]
=============================================================================
