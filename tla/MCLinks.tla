------------------------------- MODULE MCLinks -------------------------------
(* A small instance of Links for TLC. *)
EXTENDS Links

CONSTANTS k1, k2, l1

MCKeypads == {k1, k2}
MCLocks == {l1}
=============================================================================
