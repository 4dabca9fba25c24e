---------------------------- MODULE MCReadBuffer ----------------------------
(***************************************************************************)
(* ReadBuffer with two byte values, chunks of up to three bytes and at most  *)
(* five unread bytes: an append finds room, reclaims the front, or grows.    *)
(***************************************************************************)
EXTENDS ReadBuffer

CONSTANTS a, b

MCByte == {a, b}
MCChunks == {<<>>, <<a>>, <<b, a>>, <<a, b, b>>}
=============================================================================
