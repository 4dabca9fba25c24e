----------------------------- MODULE UrlParser -----------------------------
(***************************************************************************)
(* parserBasicUrl, parserQueryUrl and M_parserQueryParamter (include/client/   *)
(* Parser/Urlparser.hpp, lib/parser_lib/urlparser_lib.cc).  A URL is a         *)
(* sequence of tokens: one for each character the parser looks for, and one    *)
(* for each run of characters between them.                                  *)
(***************************************************************************)
EXTENDS Integers, Sequences, FiniteSetsExt

CONSTANTS
    Numbers,        \* the runs that std::stoi reads: their values
    Tails           \* the runs of more than one character: what is left without the first

ASSUME TailsAssumption == {":", "/", "?", "&", "=", "#"} \cap DOMAIN Tails = {}

\* addrs_port is left uninitialised: it may be any number.
Unset == -1

\* The first token of S at or behind position i, or the end of the URL.
Find(url, i, S) == Min({j \in i .. Len(url) : url[j] \in S} \cup {Len(url) + 1})

Ends(url, i) == i > Len(url)

\* M_PARSER_SIGN: a colon with a slash behind it.
SignEnd(url) ==
    Min({i \in 1 .. Len(url) - 1 : url[i] = ":" /\ url[i + 1] = "/"} \cup {Len(url) + 1})

\* Three characters are skipped, the last unseen: it may be the first of a run.
SkipsIntoRun(url) == SignEnd(url) + 2 \in DOMAIN url /\ url[SignEnd(url) + 2] \in DOMAIN Tails
HostStart(url) == IF SkipsIntoRun(url) THEN SignEnd(url) + 2 ELSE SignEnd(url) + 3

Host(url, end) ==
    LET host == SubSeq(url, HostStart(url), end - 1)
    IN IF SkipsIntoRun(url) THEN [host EXCEPT ![1] = Tails[@]] ELSE host

\* Mutant: ports are read as signed 16-bit numbers.
Stoi_Short(run) ==
    IF run # <<>> /\ run[1] \in DOMAIN Numbers /\ Numbers[run[1]] < 2 ^ 15 THEN {Numbers[run[1]]} ELSE {}

\* std::stoi reads the number a run begins with and throws when there is none or when it
\* is too large for an int; the result is stored in a uint16_t.
Stoi(run) == IF run # <<>> /\ run[1] \in DOMAIN Numbers THEN {Numbers[run[1]] % 2 ^ 16} ELSE {}

\* What both parsers find in front of the path.  "path" is where it begins, behind the
\* end if the URL has no slash there; "end" is "overrun" when the three characters reach
\* behind the end of the URL, and the loop with them.
UrlFront(url) ==
    LET sign == SignEnd(url)
        host == HostStart(url)
        hostEnd == Find(url, host, {":", "/"})
        hasPort == ~Ends(url, hostEnd) /\ url[hostEnd] = ":"
        path == IF hasPort THEN Find(url, hostEnd + 1, {"/"}) ELSE hostEnd
        ports == IF hasPort /\ ~Ends(url, path) THEN Stoi(SubSeq(url, hostEnd + 1, path - 1)) ELSE {Unset}
    IN [end  |-> IF ~Ends(url, sign) /\ host > Len(url) + 1 THEN "overrun"
                 ELSE IF ports = {} THEN "throws" ELSE "returns",
        tls  |-> ~Ends(url, sign) /\ SubSeq(url, 1, sign - 1) = <<"https">>,
        host |-> IF Ends(url, hostEnd) THEN <<>> ELSE Host(url, hostEnd),
        port |-> IF ports = {} THEN Unset ELSE Min(ports),
        path |-> path]

\* What is left from the slash on is the path.
ParserBasicUrl(url) ==
    LET front == UrlFront(url)
    IN [front EXCEPT !.path = SubSeq(url, front.path, Len(url))]

\* M_parserQueryParamter: one parameter after the other, up to the next ampersand.  The
\* key ends at the next "=", were it a later parameter's.
Parameters(query) ==
    LET rest[i \in 1 .. Len(query) + 2] ==
            IF Ends(query, i) THEN <<>>
            ELSE LET key == IF query[i] = "?" THEN i + 1 ELSE i
                     eq == Find(query, key, {"="})
                     amp == Find(query, key, {"&"})
                 IN <<[key   |-> SubSeq(query, key, eq - 1),
                       value |-> IF eq < amp THEN SubSeq(query, eq + 1, amp - 1)
                                 ELSE <<"[EMPYTY-PARAMTER]">>]>> \o rest[amp + 1]
    IN rest[1]

\* Mutant: the first value of a key stays.
ParameterMap_First(query) ==
    LET list == Parameters(query)
        At(key) == {i \in DOMAIN list : list[i].key = key}
    IN [key \in {list[i].key : i \in DOMAIN list} |-> list[Min(At(key))].value]

\* The map: of equal keys the last one counts.
ParameterMap(query) ==
    LET list == Parameters(query)
        At(key) == {i \in DOMAIN list : list[i].key = key}
    IN [key \in {list[i].key : i \in DOMAIN list} |-> list[Max(At(key))].value]

\* Without a "?" or "#" the path is lost.
ParserQueryUrl(url) ==
    LET front == UrlFront(url)
        start == Find(url, front.path, {"?", "#"})
        query == SubSeq(url, start, Find(url, start, {"#"}) - 1)
    IN [end       |-> front.end,
        tls       |-> front.tls,
        host      |-> front.host,
        port      |-> front.port,
        basicPath |-> IF Ends(url, start) THEN <<>> ELSE SubSeq(url, front.path, start - 1),
        queryPath |-> query,
        map       |-> ParameterMap(query)]
=============================================================================
