------------------------------ MODULE MC_OsalMq -----------------------------
(* Small instances of OsalMq. *)
EXTENDS OsalMq, TLC

CONSTANTS s1, s2, r1, r2, m1, m2

(* Messages are interchangeable. *)
MessageSymmetry == Permutations(Messages)
=============================================================================
