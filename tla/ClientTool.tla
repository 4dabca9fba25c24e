----------------------------- MODULE ClientTool -----------------------------
(***************************************************************************)
(* clientTool (include/client/clientapp/clientTool.hpp): each asynchronous      *)
(* function submits a task that computes the answer of the synchronous one     *)
(* and submits the callback with it.  Around it the program's threads create    *)
(* the pool, wait for it and leave: see ThreadSingleton.  Every thread makes    *)
(* one request at most.                                                     *)
(***************************************************************************)
EXTENDS ThreadSingleton, UrlParser, HttpTemplate

CONSTANTS
    Urls,       \* well-formed URLs, in parts
    Menu        \* the requests each caller may make

VARIABLES
    asked,      \* the request each caller made, if any
    answers,    \* the answers its callback was called with
    early       \* history: the callers whose request a running pool accepted

vars == <<singletonVars, asked, answers, early>>

Init ==
    /\ SingletonInit
    /\ asked = [c \in Callers |-> <<>>]
    /\ answers = [c \in Callers |-> <<>>]
    /\ early = {}

\* syncParserBasicUri, syncParserQueryUrl and syncCreateHttpv1template: how they may end
\* and what they return then.
Answers(request) ==
    CASE request.kind = "basic" -> {ParserBasicUrl(request.url)}
      [] request.kind = "query" ->
            LET found == ParserQueryUrl(request.url)
            IN {[part \in DOMAIN found \cup {"fullPath"} |->
                    IF part = "fullPath" THEN found.basicPath \o found.queryPath ELSE found[part]]}
      [] request.kind = "template" ->
            {[end |-> "returns", text |-> text] :
                text \in CreateHttpv1Template(request.host, request.path, request.body,
                                              request.method, request.headers)}

\* asyncParserBasicUri, asyncParserQueryUri, asyncCreateHttpv1Tmp.
Ask(c) ==
    /\ At(c, "idle") /\ asked[c] = <<>>
    /\ \E request \in Menu[c] :
        /\ asked' = [asked EXCEPT ![c] = <<request>>]
        /\ Get(c, [by |-> c, request |-> request])
    /\ UNCHANGED <<answers, early>>

\* Before a pool is marked they throw.  They are noexcept when the callback is: the process
\* ends; else everything stays as it was.
Refused(c) ==
    /\ At(c, "idle") /\ asked[c] = <<>> /\ ~flag
    /\ \E request \in Menu[c] :
        /\ request.callback = "noexcept"
        /\ asked' = [asked EXCEPT ![c] = <<request>>]
    /\ Fail("terminated")
    /\ UNCHANGED <<poolVars, threadVars, overlapped, answers, early>>

Asked(c) ==
    /\ Submit(c)
    /\ early' = IF ref[c] \in stop \/ pc[Main] \in {"exit", "gone"} THEN early ELSE early \cup {c}
    /\ UNCHANGED <<asked, answers>>

\* The task: it computes the answer and gets the pool; an exception ends the process.
Work(w) ==
    /\ At(w, "run") /\ "request" \in DOMAIN arg[w]
    /\ \E answer \in Answers(arg[w].request) :
        \/ answer.end = "returns" /\ Get(w, [by |-> arg[w].by, answer |-> answer])
        \/ answer.end = "throws" /\ Fail("terminated") /\ UNCHANGED <<poolVars, threadVars, overlapped>>
        \/ answer.end = "overrun" /\ Fail("overrun") /\ UNCHANGED <<poolVars, threadVars, overlapped>>
    /\ UNCHANGED <<asked, answers, early>>

\* It submits the callback, with a copy of the answer.
Worked(w) == Submit(w) /\ UNCHANGED <<asked, answers, early>>

\* A callback that is not noexcept may throw.
Callback(w) ==
    /\ At(w, "run") /\ "answer" \in DOMAIN arg[w]
    /\ \/ UNCHANGED process
       \/ asked[arg[w].by][1].callback = "plain" /\ Fail("terminated")
    /\ answers' = [answers EXCEPT ![arg[w].by] = Append(@, arg[w].answer)]
    /\ arg' = [arg EXCEPT ![w] = NoTask]
    /\ Goto(w, "idle")
    /\ UNCHANGED <<poolVars, ref, old, overlapped, asked, early>>

\* What the singleton and its pools do beside.
Singleton ==
    /\ \/ \E c \in Callers : Create(c)
       \/ WaitThread \/ Waited \/ Return \/ Destroy \/ End
       \/ \E w \in Workers : Take(w) \/ Leave(w)
    /\ UNCHANGED <<asked, answers, early>>

Next ==
    \/ \E c \in Callers : Ask(c) \/ Refused(c) \/ Asked(c)
    \/ \E w \in Workers : Work(w) \/ Worked(w) \/ Callback(w)
    \/ Singleton

Spec == Init /\ [][Next]_vars

\* Above all, a request is answered at most once.
TypeOK ==
    /\ SingletonTypeOK
    /\ \A c \in Callers : Len(answers[c]) <= Len(asked[c]) /\ (c \in early => asked[c] # <<>>)

-----------------------------------------------------------------------------
\* A request that a running pool accepted before main returned is answered before the
\* process ends, unless two pools were made at the same time: a stopped pool is left by
\* its workers only when they have also run what the last tasks submitted.
AnsweredByEnd ==
    process = "ended" /\ ~overlapped => \A c \in early : answers[c] # <<>>

\* No thread submits a task to a pool that is destroyed, nor waits for one, unless two
\* pools were made at the same time or main has returned: the reference that
\* getThreadManager gives away lives long enough.
PoolOutlivesUse == process = "useAfterFree" => overlapped \/ pc[Main] = "gone"

-----------------------------------------------------------------------------
\* A URL in parts: scheme, host, port ("" for none), the runs of its path, its
\* parameters as keys or as pairs of key and value, its fragment.
QueryText(params) ==
    FlattenSeq([i \in DOMAIN params |->
        <<IF i = 1 THEN "?" ELSE "&", params[i][1]>> \o
        (IF Len(params[i]) = 2 THEN <<"=", params[i][2]>> ELSE <<>>)])

Behind(u) == u.path \o QueryText(u.params) \o u.fragment
UrlText(u) ==
    <<u.scheme, ":", "/", "/", u.host>> \o (IF u.port = "" THEN <<>> ELSE <<":", u.port>>) \o Behind(u)

\* What a key or a value of a parameter is made of.
Run == STRING \ {"?", "&", "=", "#"}

\* A URL is well-formed when its port is a number of 16 bits, its path begins with a slash and
\* its fragment with "#", and no run holds a character that the parser looks for behind it.
\* If no slash follows the host and the port, no colon does: the parser takes that for
\* the one in front of the port.
ASSUME UrlsAssumption ==
    \A u \in Urls :
        /\ {u.scheme, u.host, u.port} \subseteq STRING \ {":", "/"}
        /\ u.port # "" => u.port \in DOMAIN Numbers /\ Numbers[u.port] \in 0 .. 2 ^ 16 - 1
        /\ u.path \in Seq(STRING \ {"?", "#"}) /\ (u.path # <<>> => u.path[1] = "/")
        /\ u.params \in Seq(Seq(Run)) /\ \A i \in DOMAIN u.params : Len(u.params[i]) \in 1 .. 2
        /\ u.fragment \in Seq(STRING) /\ (u.fragment # <<>> => u.fragment[1] = "#")
        /\ Behind(u) \in Seq(STRING)
        /\ \/ Behind(u) # <<>> /\ Behind(u)[1] = "/"
           \/ \A i \in DOMAIN Behind(u) : Behind(u)[i] # ":"

\* Templates are of the two methods there are, and leave the length of the body to
\* syncCreateHttpv1template.
ASSUME MenuAssumption ==
    \A c \in Callers : \A request \in Menu[c] :
        /\ request.kind \in {"basic", "query", "template"}
        /\ request.callback \in {"plain", "noexcept"}
        /\ request.kind = "template" =>
            /\ request.method \in {"GET", "POST"}
            /\ request.body \in Seq(STRING)
            /\ IsFiniteSet(request.headers)
            /\ request.headers \subseteq (STRING \ {"Content-Length"}) \X STRING

\* What its parameters mean: of those with the same key the last one counts.
Meaning(params) ==
    LET LastOf(key) == Max({i \in DOMAIN params : params[i][1] = key})
        Value(p) == IF Len(p) = 2 THEN <<p[2]>> ELSE <<"[EMPYTY-PARAMTER]">>
    IN [key \in {<<p[1]>> : p \in Range(params)} |-> Value(params[LastOf(key[1])])]

\* The parser takes the key of a parameter without a value to reach to the next "=", or to the
\* end: it reads the key as it is only in the last place.
AllHaveValues(params) == \A i \in 1 .. Len(params) - 1 : Len(params[i]) = 2

\* The scheme, the host and the port of an answer are those of the URL, given a path.
SameOrigin(answer, u) ==
    /\ answer.tls = (u.scheme = "https")
    /\ answer.host = <<u.host>>
    /\ u.port # "" => answer.port = Numbers[u.port]

AnswersTo(kind, Right(_, _)) ==
    \A c \in Callers : \A answer \in Range(answers[c]) : \A u \in Urls :
        asked[c][1].kind = kind /\ asked[c][1].url = UrlText(u) /\ u.path # <<>> => Right(answer, u)

\* asyncParserBasicUri takes a URL with a path apart into the parts it was made of; the
\* rest of the URL belongs to the path.  asyncParserQueryUri finds path and parameters of
\* a URL that has a path and parameters or a fragment; only the last parameter may be
\* without a value.
UrlsAreSplit ==
    /\ AnswersTo("basic", LAMBDA answer, u :
        /\ SameOrigin(answer, u)
        /\ answer.path = Behind(u))
    /\ AnswersTo("query", LAMBDA answer, u :
        /\ SameOrigin(answer, u)
        /\ u.params \o u.fragment # <<>> =>
            /\ answer.basicPath = u.path /\ answer.queryPath = QueryText(u.params)
            /\ answer.fullPath = u.path \o QueryText(u.params)
            /\ AllHaveValues(u.params) => answer.map = Meaning(u.params))

\* The process is ended by an exception, or the parser leaves the string, only because
\* of what a caller handed in: a URL that is not well-formed, a callback that throws when it is
\* called, or a noexcept callback before any pool was marked.  A well-formed request with a
\* noexcept callback that some pool accepts ends nothing.
CrashesAreTheCallers ==
    process \in {"terminated", "overrun"} =>
        \E c \in Callers : \E request \in Range(asked[c]) :
            \/ request.kind \in {"basic", "query"} /\ \A u \in Urls : request.url # UrlText(u)
            \/ process = "terminated" /\ request.callback = "plain" /\ answers[c] # <<>>
            \/ process = "terminated" /\ request.callback = "noexcept" /\ ~flag

\* What a server reads of a text: the lines up to the first empty one, and as many bytes
\* behind it as Content-Length says.
ServerReads(text) ==
    LET end == SelectInSeq(text, LAMBDA line : line = EmptyLine)
        bytes == FlattenSeq([i \in 1 .. Len(text) - end |->
                    IF text[end + i] = EmptyLine THEN <<"\r", "\n">> ELSE text[end + i]])
        Length(line) == {n \in 0 .. Len(bytes) : line = Header("Content-Length", ToString(n))}
        n == Max({0} \cup UNION {Length(text[i]) : i \in 1 .. end - 1})
    IN [head |-> Range(SubSeq(text, 1, end - 1)), lines |-> end - 1, body |-> SubSeq(bytes, 1, n)]

\* A server that reads a POST finds every header once and as many bytes as the body has,
\* which are those of the body but for the empty line too many in front of them; it finds
\* no body with GET, nor when a header lacks its name or its value.
TemplateIsRead ==
    \A c \in Callers : \A answer \in Range(answers[c]) :
        asked[c][1].kind = "template" =>
            LET request == asked[c][1]
                read == ServerReads(answer.text)
                complete == \A h \in request.headers : h[1] # "" /\ h[2] # ""
            IN /\ RequestLine(request.method, request.path) \in read.head
               /\ {Header("Host", request.host), Header("Connection", "close")} \subseteq read.head
               /\ complete =>
                    /\ request.headers \subseteq read.head
                    /\ read.lines = Cardinality(request.headers) + (IF request.method = "POST" THEN 4 ELSE 3)
               /\ read.body = IF complete /\ request.method = "POST"
                              THEN SubSeq(<<"\r", "\n">> \o request.body, 1, Len(request.body)) ELSE <<>>
=============================================================================
