------------------------------ MODULE MCAccess ------------------------------
(* Two sessions of an account, two requests at a time.                     *)
EXTENDS Access, TLC

Symmetry == Permutations(Token) \cup Permutations(Handler)
                \cup Permutations(Password) \cup Permutations(Claims)
=============================================================================
