------------------------------ MODULE MCSignals ------------------------------
(* Signals with two indicators and streaks of two bars, in the combined mode. *)
EXTENDS Signals

Combined == {"indicators_ml"}
MCSides == {"BUY", "BOTH"}
=============================================================================
