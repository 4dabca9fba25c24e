---------------------------- MODULE HttpTemplate ----------------------------
(***************************************************************************)
(* syncCreateHttpv1template (lib/M_maker_httpv1_template.cc) and methodToStr     *)
(* (include/client/clientapp/method.hpp).  A text is a sequence of lines,      *)
(* each with its end, and of the bytes of the body behind them.             *)
(***************************************************************************)
EXTENDS Integers, Sequences, SequencesExt, TLC

RequestLine(method, path) == <<method, path, "HTTP/1.1">>
Header(name, value) == <<name, value>>
EmptyLine == <<>>
Byte(b) == <<b>>

\* What ends the head: "\r\n\r\n" behind the end of the last line.
Closing == <<Header("Connection", "close"), EmptyLine, EmptyLine>>

\* Mutant: the body of a request counts the two empty lines.
Rest_Longer(method, body) ==
    IF method = "GET" THEN Closing
    ELSE <<Header("Content-Length", ToString(Len(body) + 2))>> \o Closing
         \o [i \in DOMAIN body |-> Byte(body[i])]

\* What follows the caller's headers: no body with GET.
Rest(method, body) ==
    IF method = "GET" THEN Closing
    ELSE <<Header("Content-Length", ToString(Len(body)))>> \o Closing
         \o [i \in DOMAIN body |-> Byte(body[i])]

\* The headers in the order in which an unordered_map happens to have them, up to the
\* first without a name or a value: there the request ends.
CreateHttpv1Template(host, path, body, method, headers) ==
    LET Complete(h) == h[1] # "" /\ h[2] # ""
        Until(order) == SelectInSeq(order, LAMBDA h : ~Complete(h))
        Text(order) ==
            IF Until(order) = 0 THEN order \o Rest(method, body)
            ELSE SubSeq(order, 1, Until(order) - 1) \o Closing
    IN {<<RequestLine(method, path), Header("Host", host)>> \o Text(order) :
            order \in SetToSeqs(headers)}
=============================================================================
