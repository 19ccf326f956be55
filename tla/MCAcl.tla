------------------------------- MODULE MCAcl -------------------------------
(* Acl with IPv4 addresses of two bits, IPv6 addresses of three, and a few lines. *)
EXTENDS Acl

CONSTANTS host1, host2

MCName    == {host1, host2}
MCPattern == {{host1}, {}}

V4(x, y) == [version |-> 4, bits |-> <<x, y>>]
V6(x, y, z) == [version |-> 6, bits |-> <<x, y, z>>]
Net(a, p) == [addr |-> a, prefix |-> p]

MCNetwork == {Net(V4(TRUE, FALSE), -1), Net(V4(FALSE, TRUE), 1), Net(V4(TRUE, TRUE), 0), Net(V4(TRUE, TRUE), 3),
              Net(V6(TRUE, FALSE, TRUE), 2)}
=============================================================================
