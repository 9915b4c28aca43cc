---------------------------- MODULE MCIdentifiers ----------------------------
(* Identifiers for TLC: local parts, host names, addresses and ports in any  *)
(* order, and identifiers that are as long as Limit allows and longer.       *)
EXTENDS Identifiers

MCStart == {<<>>, <<"@", "a", ":">>, <<"!", "a", ":">>, <<"$", "a">>}
MCPiece ==
    {<<"@">>, <<"a">>, <<"x">>, <<"1">>, <<":">>, <<".">>, <<"-">>, <<" ">>,
     <<"1", ".", "1", ".", "1", ".">>, <<"2", "5", "6">>,
     <<"6", "5", "5", "3", "6">>, <<"[", ":", ":">>, <<"]">>}
MCAfterEnd == {<<" ">>, <<":", "a", " ">>}
MCDefaultServer == <<"a", ":", "1">>
=============================================================================
