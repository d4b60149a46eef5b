------------------------------ MODULE MCAccess ------------------------------
(* Instances of Access for TLC. *)
EXTENDS Access, TLC
CONSTANTS u1, u2, o1, o2, s1, s2, v1, v2, v3
Symmetry ==
  Permutations(User) \cup Permutations(Org) \cup Permutations(Session)
    \cup Permutations(Visit)
=============================================================================
