-------------------------- MODULE MCAdministration --------------------------
(* Administration for TLC: two users, of whom the first to register has the *)
(* token that grants everything, two aliases on two servers and two rooms.  *)
EXTENDS Administration, TLC

CONSTANTS u1, u2, s1, s2, a1, a2, n1

MCServerPart == (a1 :> s1) @@ (a2 :> s2)
MCPrivilegeList == {{"ALL"}}
MCNone == [k \in ConfigKey |-> None]
MCDefault(s) ==
    [MCNone EXCEPT !["listen"] = "good", !["log"] = "good", !["serverName"] = s,
                   !["federation"] = "good", !["registration"] = "good"]
MCInitialConfig == MCDefault(s1)
\* A whole configuration, two without a key or with a bad one, a part of one.
MCConfigRequest ==
    {MCDefault(s2), [MCDefault(s1) EXCEPT !["listen"] = None],
     [MCNone EXCEPT !["maxCache"] = "bad"], [MCNone EXCEPT !["serverName"] = s1]}
MCNameMatch == {<<u1, "one">>}
MCDisplayMatch == {<<n1, "one">>, <<n1, "name">>}

\* For the run about rights: everything, the two privileges that give others
\* (one with a name that is none), and one that does not; no aliases.
MCRights == {{"ALL"}, {"GRANT_PRIVILEGES", "SUPERUSER"}, {"ISSUE_TOKENS"}, {"ALIAS"}}
MCRightsSymmetry == Permutations(User) \union Permutations(Thread)
MCNoServer == [a \in {} |-> None]
=============================================================================
