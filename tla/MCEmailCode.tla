------------------------------ MODULE MCEmailCode ------------------------------
(* Small instances of EmailCode.  Only safety is checked.                  *)
EXTENDS EmailCode, TLC

Symmetry ==
  Permutations(Id) \cup Permutations(Email) \cup Permutations(Ip)
    \cup Permutations(Worker)
===============================================================================
