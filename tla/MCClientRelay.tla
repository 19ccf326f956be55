--------------------------- MODULE MCClientRelay ---------------------------
(* ClientRelay with two connections at a time. *)
EXTENDS ClientRelay, TLC

CONSTANTS c1, c2

MCConn == {c1, c2}
=============================================================================
