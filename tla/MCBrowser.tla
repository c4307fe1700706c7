------------------------------ MODULE MCBrowser -------------------------------
(* A small instance of Browser; ids, tabs and providers are interchangeable *)
(* and no liveness is checked, so symmetry is sound.                        *)
EXTENDS Browser, TLC

Symmetry ==
  Permutations(Session) \cup Permutations(Token) \cup Permutations(Tab)
    \cup Permutations(Provider)
===============================================================================
