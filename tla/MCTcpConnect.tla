---------------------------- MODULE MCTcpConnect ----------------------------
(***************************************************************************)
(* TcpConnect for lists of up to three addresses and three calls; a failed   *)
(* call is repeated with the context it handed back.                        *)
(***************************************************************************)
EXTENDS TcpConnect

CONSTANTS v4, v6

MCFamilies == {v4, v6}
MCLists == UNION {[1 .. n -> MCFamilies] : n \in 1 .. 3}
=============================================================================
