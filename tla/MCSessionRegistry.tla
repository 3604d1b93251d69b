------------------------- MODULE MCSessionRegistry -------------------------
(* Small instances of SessionRegistry for TLC.                             *)
EXTENDS SessionRegistry, TLC

Symmetry == Permutations(Users) \union Permutations(Slots) \union Permutations(Tokens)
                \union Permutations(Creators)
=============================================================================
