--------------------------- MODULE MCRegistration ---------------------------
(* Registration for TLC. *)
EXTENDS Registration, TLC

\* One token for a second administrator, one without limits, one of no use.
MCOffer ==
    {[uses |-> 1, left |-> 1, grants |-> {"ISSUE_TOKENS"}],
     [uses |-> Never, left |-> Never, grants |-> {}],
     [uses |-> 0, left |-> Never, grants |-> {}]}
=============================================================================
