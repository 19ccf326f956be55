------------------------------ MODULE MCIpLock ------------------------------
(* Small instances of IpLock for TLC. *)
EXTENDS IpLock, TLC

\* Client addresses are interchangeable.
Clients == Permutations(Ip)
=============================================================================
