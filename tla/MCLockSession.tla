--------------------------- MODULE MCLockSession ---------------------------
(* LockSession on small instances.  Sequence pairs are only compared with   *)
(* each other, so any permutation of them maps behaviours to behaviours.    *)
EXTENDS LockSession, TLC

CONSTANTS s1, s2

MCSeqs == {s1, s2}
MCSymmetry == Permutations(MCSeqs)

\* Two executed commands are combined with three generations or with boundaries, three
\* with a hand-off; four, which wrap the replay window and leave it again, belong to one
\* generation.
FewBoundaries ==
  /\ Len(executed) >= 2 => conn + epoch + Newest <= 5
  /\ Len(executed) >= 3 => conn + epoch <= 3 /\ Newest <= 2
  /\ Len(executed) >= 4 => Newest <= 1
=============================================================================
