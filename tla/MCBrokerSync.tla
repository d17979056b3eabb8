---------------------------- MODULE MCBrokerSync ----------------------------
(***************************************************************************)
(* Instances of BrokerSync for TLC: 0.03 is the smallest lot both partial  *)
(* closes can split, 0.05 and 0.10 split evenly, 0.37 does not.            *)
(***************************************************************************)
EXTENDS BrokerSync

SplitLots == {3, 5, 10, 37}
MicroLots == {1, 2}
BothAdapters == {"mt5", "paper"}
TerminalOnly == {"mt5"}
=============================================================================
