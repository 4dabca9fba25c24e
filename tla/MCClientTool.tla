---------------------------- MODULE MCClientTool ----------------------------
(***************************************************************************)
(* ClientTool with two callers, so that two pools can be made, of two workers  *)
(* each.  Main makes any of the requests, those about URLs with a noexcept       *)
(* callback and those for a template with one that may throw; the other caller    *)
(* makes a fixed one, with a callback that may throw.                         *)
(***************************************************************************)
EXTENDS ClientTool

CONSTANTS m, other

MCCallers == {m, other}

MCNumbers == "80" :> 80 @@ "40000" :> 40000 @@ "66000" :> 66000

MCTails == "https" :> "ttps" @@ "http" :> "ttp" @@ "abc" :> "bc"

\* No port, a small one, and one that needs all 16 bits, with no path or two; parameters
\* with one key twice, without a value behind, in front and in both places, with a fragment
\* or not.
MCParams == {<<>>, <<<<"k", "v">>, <<"k", "w">>>>, <<<<"k", "v">>, <<"e">>>>, <<<<"e">>, <<"k", "v">>>>,
             <<<<"e">>, <<"f">>>>}
MCUrl(scheme, port, path, params, fragment) ==
    [scheme |-> scheme, host |-> "h", port |-> port, path |-> path, params |-> params, fragment |-> fragment]
MCUrls ==
    {MCUrl("https", port, path, <<>>, <<>>) :
        port \in {"", "80", "40000"}, path \in {<<>>, <<"/">>, <<"/", "p">>}}
    \cup {MCUrl("http", "80", <<"/", "p">>, params, fragment) :
        params \in MCParams, fragment \in {<<>>, <<"#", "f">>}}

\* A port that is no number, none behind the colon, one that is too large, no scheme, no
\* text, one slash and nothing, or a run, behind it.
RawUrls == {<<"http", ":", "/", "/", "h", ":", "x", "/">>, <<"http", ":", "/", "/", "h", ":", "/">>,
            <<"http", ":", "/", "/", "h", ":", "66000", "/">>, <<"h", "/", "p">>, <<>>,
            <<"http", ":", "/">>, <<"http", ":", "/", "abc", "/">>}

UrlRequests == {[kind |-> k, url |-> url, callback |-> "noexcept"] :
    k \in {"basic", "query"}, url \in {UrlText(u) : u \in MCUrls} \cup RawUrls}

Templates == {[kind |-> "template", callback |-> "plain", host |-> "h", path |-> "p", body |-> <<"a", "b", "c">>,
               method |-> method, headers |-> headers] :
    method \in {"GET", "POST"},
    headers \in {{}, {<<"A", "1">>, <<"B", "2">>}, {<<"A", "1">>, <<"", "2">>}, {<<"A", "">>}}}

FixedRequest == [kind |-> "basic", url |-> <<"http", ":", "/", "/", "h", "/">>, callback |-> "plain"]

MCMenu == (m :> UrlRequests \cup Templates) @@ (other :> {FixedRequest})
=============================================================================
