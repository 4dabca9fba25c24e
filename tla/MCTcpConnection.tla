-------------------------- MODULE MCTcpConnection --------------------------
(***************************************************************************)
(* TcpConnection with two calls.  A stream of five bytes during each, taken  *)
(* two at a time and in retries one at a time, three tries; messages of up to *)
(* three bytes for a send buffer of two; size_t ends at 15.                    *)
(***************************************************************************)
EXTENDS TcpConnection

\* An empty delimiter, one at each place, and one that is never sent.
MCEnds == 0 .. StreamLen + 1

MCCacheSizes == {0, 1, 4}

AnyErrno == Errno
\* A worker that ran nothing but this connection's calls: connect left 106.
AfterConnect == {"isconn"}
=============================================================================
