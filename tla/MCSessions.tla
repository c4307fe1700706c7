------------------------------ MODULE MCSessions ------------------------------
(* Small instances of Sessions.  The ids of rows and workers are           *)
(* interchangeable, and no liveness is checked here, so symmetry is sound. *)
EXTENDS Sessions, TLC

Symmetry ==
  Permutations(Session) \cup Permutations(Token) \cup Permutations(Worker)
    \cup Permutations(User) \cup Permutations(Name)
===============================================================================
