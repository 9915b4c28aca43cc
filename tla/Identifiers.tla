----------------------------- MODULE Identifiers -----------------------------
(***************************************************************************)
(* Parser.c and the checks of user names in User.c: how the strings of     *)
(* requests become users, rooms and servers.  A string is a sequence of    *)
(* characters in memory, NUL and whatever follows it; the parsers move a   *)
(* position in it, as str does in the code, and answer the next position.  *)
(* A character that is not ASCII does not occur.                           *)
(*                                                                         *)
(* The state is the string of the next request, which a client writes      *)
(* piece by piece.                                                         *)
(***************************************************************************)
EXTENDS Integers, FiniteSets, SequencesExt, FiniteSetsExt

CONSTANTS
    Piece, Start,    \* strings a client writes, and starts with
    MaxPieces,       \* bound: how many pieces it adds
    AfterEnd,        \* what may stand in memory after the NUL
    DefaultServer,   \* serverName of the configuration
    Limit,           \* 255: the length of an identifier or a host name
    MaxReads,        \* bound: how often the loop of ParseIPv6 is followed
    None

VARIABLES input, pieces, tail
vars == <<input, pieces, tail>>

NUL == "NUL"
Digits == <<"0", "1", "2", "3", "4", "5", "6", "7", "8", "9">>
Digit == Range(Digits)
HexLetter == {"a", "b", "c", "d", "e", "f"}
Lower == HexLetter \union {"x", "y", "z"}   \* some of the others
Sigil == {"@", "#", "!", "$"}
Char == Digit \union Lower \union Sigil \union {".", "-", "[", "]", " ", ":"}

Text(s) == s \o <<NUL>>
Memory(s) == Text(s) \o tail
At(m, i) == IF i \in DOMAIN m THEN m[i] ELSE "unknown"

\* The first position from i on that holds none of the characters in C.
Skip(m, i, C) == Min({j \in i..Len(m) : At(m, j) \notin C})
Part(m, i, j) == SubSeq(m, i, j - 1)
Decimal(s) ==
    FoldLeft(LAMBDA n, c : 10 * n + (CHOOSE d \in 0..9 : Digits[d + 1] = c), 0, s)

Fail == [ok |-> FALSE, value |-> None, next |-> 0]
Parsed(v, i) == [ok |-> TRUE, value |-> v, next |-> i]

-----------------------------------------------------------------------------
(* Parser.c *)

\* All up to a ':' or the end; the position after it is beyond the NUL.
ParseUserLocalpart(m, i) ==
    LET j == Skip(m, i, Char \ {":"})
    IN  IF j = i THEN Fail
        ELSE Parsed(Part(m, i, j), IF m[j] = ":" THEN j ELSE j + 1)

\* Three blocks of one to three digits, up to 255, each with a '.' after it,
\* and a last one that is not looked at.
ParseIPv4AnyBlocks(m, i) ==  \* faulty variant
    LET j == Skip(m, i, Digit \union {"."})
        dots == {k \in i..(j - 1) : m[k] = "."}
    IN  IF Cardinality(dots) >= 3 THEN Parsed(Part(m, i, Max(dots)), Max(dots))
                                  ELSE Fail
ParseIPv4(m, i) ==
    LET j == Skip(m, i, Digit \union {"."})
        dots == {k \in i..(j - 1) : At(m, k) = "."}
        block(k) == Part(m, 1 + Max({i - 1} \union {d \in dots : d < k}), k)
    IN  IF /\ Cardinality(dots) = 3
           /\ \A k \in dots : Len(block(k)) \in 1..3 /\ Decimal(block(k)) <= 255
        THEN Parsed(Part(m, i, j), j)
        ELSE Fail

\* The loop of ParseIPv6: rest answers for the characters after this one, with
\* the position after the character that ends the address, 0 on failure, and
\* Endless.  When no IPv4 address stands around a '.', the digits before it are
\* read once more: without digits nothing changes, and the loop never ends.
\* Many digits lead to before the string: whatever stands there, the length
\* that is computed from it is out of bounds.
IPv6Char == Digit \union HexLetter \union {":", "."}
IPv6State == [at: Int, filled: BOOLEAN, digit: Nat, digits: Nat]
Endless == -1
ReadAgainAfresh(st) == [st EXCEPT !.at = @ - st.digit, !.digit = 0]  \* faulty variant
ReadAgain(st) == [st EXCEPT !.at = @ - st.digit]
IPv6Read(m, st, rest) ==
    LET c == At(m, st.at)
        ipv4 == ParseIPv4(m, st.at - st.digit)
    IN  CASE c \notin IPv6Char \/ st.digits >= 8 ->
                IF st.at < 1 THEN 0 ELSE st.at + 1
          [] c \in Digit \union HexLetter /\ st.digits < 8 ->
                rest[[st EXCEPT !.at = @ + 1, !.digit = @ + 1]]
          [] c = ":" /\ st.digits < 8 /\ At(m, st.at + 1) = ":" ->
                IF st.filled THEN 0
                ELSE rest[[st EXCEPT !.at = @ + 2, !.filled = TRUE, !.digit = 0]]
          [] c = ":" /\ st.digits < 8 /\ At(m, st.at + 1) # ":" ->
                IF st.digit \notin 1..4 THEN 0
                ELSE rest[[st EXCEPT !.at = @ + 1, !.digit = 0, !.digits = @ + 1]]
          [] c = "." /\ st.digits < 8 ->
                IF ipv4.ok THEN ipv4.next + 1 ELSE rest[ReadAgain(st)]
IPv6Loop(m) ==
    LET loop[n \in Nat] ==
          [st \in IPv6State |->
              IPv6Read(m, st, IF n = 0 THEN [s \in IPv6State |-> Endless]
                                       ELSE loop[n - 1])]
    IN  loop
IPv6End(m, i) ==
    IF At(m, i) = "["
    THEN IPv6Loop(m)[MaxReads][[at |-> i + 1, filled |-> FALSE, digit |-> 0, digits |-> 0]]
    ELSE 0
ParseIPv6(m, i) ==
    LET end == IPv6End(m, i)
    IN  IF At(m, end - 1) = "]" /\ end - i \in 4..47
        THEN Parsed(Part(m, i, end), end)
        ELSE Fail

ParseHostname(m, i) ==
    LET j == Skip(m, i, Digit \union Lower \union {".", "-"})
    IN  IF j - i \in 1..Limit THEN Parsed(Part(m, i, j), j) ELSE Fail

OrElse(p, q) == IF p.ok THEN p ELSE q
ParseHost(m, i) ==
    OrElse(ParseIPv4(m, i), OrElse(ParseIPv6(m, i), ParseHostname(m, i)))

\* The port is the first five digits after a ':', whatever comes next; no
\* caller looks at the position it leaves.
WithPortAnyNumber(m, host, port, end) ==  \* faulty variant
    IF ~host.ok THEN Fail
    ELSE IF m[host.next] # ":"
    THEN Parsed([hostname |-> host.value, port |-> None], host.next)
    ELSE IF Len(port) >= 1
    THEN Parsed([hostname |-> host.value, port |-> port], end)
    ELSE Fail
WithPort(m, host, port, end) ==
    IF ~host.ok THEN Fail
    ELSE IF m[host.next] # ":"
    THEN Parsed([hostname |-> host.value, port |-> None], host.next)
    ELSE IF Len(port) >= 1 /\ Decimal(port) <= 65535
    THEN Parsed([hostname |-> host.value, port |-> port], end)
    ELSE Fail
UpToPort(m, host) ==
    LET end == Min({Skip(m, host.next + 1, Digit), host.next + 6})
    IN  WithPort(m, host, Part(m, host.next + 1, end), end)
ParseServerName(m, i) == UpToPort(m, ParseHost(m, i))

NoServer == [hostname |-> None, port |-> None]
CommonID(sigil, local, server) ==
    [ok |-> TRUE, sigil |-> sigil, local |-> local, server |-> server]
NoID == [ok |-> FALSE]

\* For '$' the code writes (*str)++ where it means to skip the ':': that makes
\* it a ';', which begins no server name.  Other sigils mean nothing, and the
\* string is accepted without being looked at.
WithServer(sigil, local, server) ==
    IF server.ok THEN CommonID(sigil, local, server.value) ELSE NoID
WithLocal(sigil, m, local) ==
    IF ~local.ok THEN NoID
    ELSE IF sigil = "$"
    THEN IF At(m, local.next) = ":" THEN NoID ELSE CommonID("$", local.value, NoServer)
    ELSE IF At(m, local.next) # ":" THEN NoID
    ELSE WithServer(sigil, local.value, ParseServerName(m, local.next + 1))
ParseCommonID(s) ==
    IF Len(s) < 2 \/ (s[1] \in {"#", "@"} /\ Len(s) - 1 > Limit) THEN NoID
    ELSE IF s[1] \notin Sigil THEN CommonID(s[1], None, NoServer)
    ELSE WithLocal(s[1], Memory(s), ParseUserLocalpart(Memory(s), 2))

ParserRecomposeServerPart(server) ==
    server.hostname \o (IF server.port = None THEN <<>> ELSE <<":">> \o server.port)

-----------------------------------------------------------------------------
(* User.c *)

\* Both compare the index of a character with maxLen, a size_t: it wraps
\* around for a server of Limit characters, and then everything will do.
MayHaveLength(local, server) ==
    Len(server) >= Limit \/ Len(local) <= Limit - Len(server)
UserValidate(local, server) ==
    /\ MayHaveLength(local, server)
    /\ Range(local) \subseteq Lower \union Digit \union {".", "-"}
UserHistoricalValidateColon(local, server) ==  \* faulty variant
    /\ MayHaveLength(local, server)
    /\ " " \notin Range(local)
UserHistoricalValidate(local, server) ==
    /\ MayHaveLength(local, server)
    /\ {":", " "} \intersect Range(local) = {}

\* What starts with no '@' is the name of a user of this server.
Validated(id) ==
    IF id.ok /\ UserHistoricalValidate(id.local, ParserRecomposeServerPart(id.server))
    THEN [ok |-> TRUE, local |-> id.local, server |-> id.server]
    ELSE NoID
UserIdParse(s) ==
    Validated(IF s # <<>> /\ s[1] = "@" THEN ParseCommonID(s)
              ELSE CommonID(None, s, ParseServerName(Text(DefaultServer), 1).value))

-----------------------------------------------------------------------------

\* Strings are put together of pieces; reading beyond the NUL of one meets, some
\* time, what stands in no name of a server.
ASSUME StringAssumption ==
    /\ Start \union Piece \subseteq Seq(Char)
    /\ \A t \in AfterEnd :
          /\ t \in Seq(Char \union {NUL})
          /\ Len(t) >= 1 /\ t[Len(t)] \in {" ", NUL}
    /\ Limit \in Nat /\ MaxReads \in Nat

\* The administrator gave the server a name that is a server's: the routes that
\* read an ID without one end the process otherwise (User.c:923-927).
ASSUME ServerAssumption ==
    /\ DefaultServer \in Seq(Char)
    /\ ParseServerName(Text(DefaultServer), 1).ok
    /\ ParserRecomposeServerPart(ParseServerName(Text(DefaultServer), 1).value)
         = DefaultServer

\* None is no string.
ASSUME NoneAssumption == None \notin Seq(Char \union {NUL})

Init ==
    /\ input \in Start
    /\ pieces = 0
    /\ tail \in AfterEnd

Write ==
    /\ pieces < MaxPieces
    /\ \E p \in Piece : input' = input \o p
    /\ pieces' = pieces + 1
    /\ UNCHANGED tail

Next == Write
Spec == Init /\ [][Next]_vars

-----------------------------------------------------------------------------
(* Properties *)

\* The grammar of the identifiers: host names and addresses, ports, and the
\* ways to split a string into <<local, host>> or <<local, host, port>>.
NameHost(h) == h # <<>> /\ Range(h) \subseteq Lower \union Digit \union {".", "-"}
AddressHost(h) ==
    /\ Len(h) >= 4 /\ h[1] = "[" /\ Last(h) = "]"
    /\ Range(SubSeq(h, 2, Len(h) - 1)) \subseteq Digit \union HexLetter \union {":", "."}
Port(p) == Len(p) \in 1..5 /\ Range(p) \subseteq Digit /\ Decimal(p) <= 65535
Local(l) == l # <<>> /\ ":" \notin Range(l)

FullID(sigil, local, server) ==
    <<sigil>> \o local \o <<":">> \o ParserRecomposeServerPart(server)

\* The servers a string may name: up to its end, or up to a ':' and a port.
ServersOf(s) ==
    {[hostname |-> s, port |-> None]} \union
    {[hostname |-> SubSeq(s, 1, i - 1), port |-> SubSeq(s, i + 1, Len(s))] :
        i \in {j \in DOMAIN s : s[j] = ":"}}

\* A name that begins with an address and goes on with a letter or '-', such as
\* 1.1.1.1a: the parser takes the address, and its end for that of the name
\* (Parser.c:278-288).
CutOff(h) ==
    \E j \in 1..(Len(h) - 1) :
        /\ Range(SubSeq(h, 1, j)) \subseteq Digit \union {"."}
        /\ Cardinality({k \in 1..j : h[k] = "."}) = 3
        /\ h[j + 1] \in Lower \union {"-"}

\* Every well-formed alias, room or user identifier whose server has a name
\* that is not cut off is accepted, and taken apart in the only way there is
\* (Parser.c:356).  Nothing is claimed of the names of CutOff: of those the
\* parser takes a part for the whole.
WellFormedAccepted ==
    \A i \in DOMAIN input :
        LET local == SubSeq(input, 2, i - 1)
        IN  \A server \in ServersOf(SubSeq(input, i + 1, Len(input))) :
                /\ input[1] \in {"@", "#", "!"} /\ input[i] = ":"
                /\ i > 2 /\ Local(local)
                /\ NameHost(server.hostname) /\ ~CutOff(server.hostname)
                /\ server.port # None => Port(server.port)
                /\ Len(input) <= Limit
                => ParseCommonID(input) = CommonID(input[1], local, server)

\* What is accepted is an identifier with, at most, something after it: the
\* parts put together again are the beginning of the string, and each of them
\* is well formed.  Without a ':' the parser reads past the end of the string,
\* and anything may come out.
AcceptedIsIdentifier ==
    \A id \in {ParseCommonID(input)} :
        id.ok /\ id.sigil \in {"@", "#", "!"} /\ ":" \in Range(input) =>
            /\ IsPrefix(FullID(id.sigil, id.local, id.server), input)
            /\ Local(id.local)
            /\ NameHost(id.server.hostname) \/ AddressHost(id.server.hostname)
            /\ id.server.port # None => Port(id.server.port)

\* The loop over an address in brackets comes to an end, however often it goes
\* back (Parser.c:195), unless a '.' has no digit before it.
AddressesEnd ==
    \A i \in DOMAIN input :
        IPv6End(Memory(input), i) = Endless =>
            \E k \in 2..Len(input) : input[k] = "." /\ input[k - 1] \in {"[", ":"}

\* A user has one name: the ID a string is taken for stands for itself when it
\* is written in full, so a route finds the same user by either; and whoever
\* may register under a name is found by it.  The limits of User.c and Parser.c
\* are off by one and by two, which leaves out the longest IDs.
UsersHaveOneName ==
    \A id \in {UserIdParse(input)} :
        LET full == FullID("@", id.local, id.server)
        IN  input # <<>> =>
                /\ id.ok /\ Len(full) <= Limit => UserIdParse(full) = id
                /\ UserValidate(input, DefaultServer) => id.ok /\ id.local = input
=============================================================================
