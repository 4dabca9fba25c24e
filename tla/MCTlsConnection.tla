-------------------------- MODULE MCTlsConnection --------------------------
(***************************************************************************)
(* TlsConnection with six calls: enough to create, shake hands, write and read, *)
(* or to go wrong on the way and go on, and for a connect after a write that    *)
(* closed the descriptor, a creation and another write; messages of no byte or  *)
(* one; a stream of five bytes during each call, taken two at a time and in      *)
(* retries one at a time, and then bytes that are no longer told apart; four     *)
(* tries.                                                                  *)
(***************************************************************************)
EXTENDS TlsConnection

\* No delimiter, and delimiters of one byte or two at each place or never sent.
MCDelimiters == {<<0, 0>>, <<1, 1>>, <<1, 3>>, <<2, 2>>, <<2, 4>>, <<1, 5>>, <<2, StreamLen + 1>>}

NoErrno == {"none"}
=============================================================================
