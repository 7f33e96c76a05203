----------------------------- MODULE MCTickTack ------------------------------
(* An instance of TickTack for TLC.                                         *)
EXTENDS TickTack

CONSTANT c1
OneCaller == {c1}
OneOffAndInterval == {0, 1}
==============================================================================
