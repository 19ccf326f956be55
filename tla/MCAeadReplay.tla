---------------------------- MODULE MCAeadReplay ----------------------------
(* Small instances of AeadReplay for TLC. *)
EXTENDS AeadReplay, TLC

CONSTANTS g1, g2, g3, o1, o2, j1

Genuines == {g1, g2, g3}
Owns     == {o1, o2}
Salts    == {g1, g2, g3, o1, o2, j1}

SaltSymmetry == Permutations(Session) \cup Permutations(Genuines) \cup Permutations(Owns)
=============================================================================
