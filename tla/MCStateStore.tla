----------------------------- MODULE MCStateStore -----------------------------
(* StateStore for TLC; liveness is checked, so without symmetry.             *)
EXTENDS StateStore
=============================================================================
