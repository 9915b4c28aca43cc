----------------------------- MODULE MCTokensDb -----------------------------
(* TokensDb for TLC: interchangeable devices and strings. *)
EXTENDS TokensDb, TLC

Symmetry ==
    Permutations(Device) \union Permutations(AccessToken)
        \union Permutations(RefreshToken)
=============================================================================
