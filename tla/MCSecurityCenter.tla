--------------------------- MODULE MCSecurityCenter ---------------------------
(* A small instance of SecurityCenter.  Ids are interchangeable and no      *)
(* liveness is checked, so symmetry is sound.                               *)
EXTENDS SecurityCenter, TLC

Symmetry ==
  Permutations(Session) \cup Permutations(Token) \cup Permutations(Worker)
    \cup Permutations(User) \cup Permutations(Name)
===============================================================================
