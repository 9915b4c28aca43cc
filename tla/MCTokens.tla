------------------------------ MODULE MCTokens ------------------------------
(* Tokens for TLC: interchangeable users, devices, passwords and strings. *)
EXTENDS Tokens, TLC

Symmetry ==
    Permutations(User) \union Permutations(Device) \union Permutations(Password)
        \union Permutations(AccessToken) \union Permutations(RefreshToken)
=============================================================================
