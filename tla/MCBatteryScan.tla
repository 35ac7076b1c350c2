---------------------------- MODULE MCBatteryScan ----------------------------
(* A small instance of BatteryScan for TLC. *)
EXTENDS BatteryScan

CONSTANTS k1, k2, l1, l2

OneKeypad == {k1}
TwoKeypads == {k1, k2}
MCLocks == {l1, l2}
MCSensors == {"keypad", "lock"}
=============================================================================
