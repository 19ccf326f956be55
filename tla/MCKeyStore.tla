----------------------------- MODULE MCKeyStore -----------------------------
(* Small instances of KeyStore for TLC. *)
EXTENDS KeyStore, TLC

Names    == {"a", "b", " b"}
LowerFun == [n \in Names |-> n]
StripFun == [n \in Names |-> IF n = " b" THEN "b" ELSE n]

Symmetry == Permutations(Password)

\* What happens after two programs got in each other's way is not followed.
Apart == ~crossed
=============================================================================
