-------------------------- MODULE MCExternalIdentity ---------------------------
(* Small instances of ExternalIdentity.  Symmetry only without liveness.    *)
EXTENDS ExternalIdentity, TLC

Symmetry ==
  Permutations(Subject) \cup Permutations(Email) \cup Permutations(Worker)
===============================================================================
