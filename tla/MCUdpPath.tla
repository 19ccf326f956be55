----------------------------- MODULE MCUdpPath ------------------------------
(* Small instances of UdpPath for TLC. *)
EXTENDS UdpPath, TLC

MCDns == [n \in {"name"} |-> {"d4", "d6"}]
MCSymmetry == Permutations(App)
MCTarget ==
    [header : {[atyp |-> 1, host |-> "d4"], [atyp |-> 4, host |-> "d4"], [atyp |-> 3, host |-> "name"],
               [atyp |-> 3, host |-> "d6"], [atyp |-> 2, host |-> "any"]}, frag : {0}]
        \cup [header : {[atyp |-> 1, host |-> "d4"]}, frag : {1}]
=============================================================================
