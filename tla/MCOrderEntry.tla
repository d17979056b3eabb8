---------------------------- MODULE MCOrderEntry ----------------------------
(***************************************************************************)
(* Instances of OrderEntry for TLC: two signals, and a cap of two open     *)
(* positions that a restart lets them try to exceed; taps enough for a     *)
(* batch of two and a late third one.                                      *)
(***************************************************************************)
EXTENDS OrderEntry

TwoSignals == {1, 2}
OneSignal == {1}
=============================================================================
