----------------------------- MODULE UdpService -----------------------------
(***************************************************************************)
(* What a client program and ss-server together promise an application     *)
(* that sends UDP through them.  Datagrams are lost, repeated and          *)
(* reordered.  Those that leave do so from endpoints of ss-server that     *)
(* belong to one application each, and what anybody sends to an endpoint   *)
(* goes to its owner, with the address of the sender on it or with none.   *)
(*                                                                         *)
(* The one exception: while the lookup of a name outlives the association  *)
(* it began with, its datagram may leave from anybody's endpoint.          *)
(***************************************************************************)
EXTENDS Integers, Sequences

CONSTANTS
    Request,            \* what applications may send: [app, target, frag]
    Address,            \* who may answer
    Meaning(_),         \* the addresses that a target stands for
    ByName,             \* targets that have to be looked up
    None

VARIABLES
    asked,      \* what the applications have sent
    owner,      \* of every endpoint there was, the application
    reached,    \* what has arrived at destinations
    replied,    \* what has been sent to endpoints
    answers,    \* what the applications have received
    late        \* requests whose lookup has outlived its association

vars == <<asked, owner, reached, replied, answers, late>>

-----------------------------------------------------------------------------
Init ==
    /\ asked = {} /\ reached = {} /\ replied = {} /\ answers = {} /\ late = {}
    /\ owner = << >>

Ask(r) ==
    /\ asked' = asked \cup {r}
    /\ UNCHANGED <<owner, reached, replied, answers, late>>

\* Fragments are not put together: they never leave.
Arrive(e, r) ==
    /\ r \in asked /\ r.frag = 0
    /\ \E d \in Meaning(r.target) : reached' = reached \cup {[from |-> e, to |-> d, payload |-> r]}
    /\ UNCHANGED <<asked, replied, answers>>

Reach(e, r) ==
    /\ Arrive(e, r)
    /\ UNCHANGED late
    /\ \/ e \in DOMAIN owner /\ owner[e] = r.app /\ UNCHANGED owner
       \/ e = Len(owner) + 1 /\ owner' = Append(owner, r.app)

Stray(e, r) ==
    /\ r \in late /\ e \in DOMAIN owner
    /\ Arrive(e, r)
    /\ late' \in {late, late \ {r}}
    /\ UNCHANGED owner

Late ==
    /\ late' \in SUBSET {r \in asked : r.target \in ByName}
    /\ UNCHANGED <<asked, owner, reached, replied, answers>>

Reply(a, e) ==
    /\ e \in DOMAIN owner
    /\ replied' = replied \cup {[from |-> a, to |-> e]}
    /\ UNCHANGED <<asked, owner, reached, answers, late>>

Answer(p, label) ==
    /\ p \in replied
    /\ label \in {p.from, None}
    /\ answers' = answers \cup {[app |-> owner[p.to], label |-> label, payload |-> p]}
    /\ UNCHANGED <<asked, owner, reached, replied, late>>

Next ==
    \/ \E r \in Request : Ask(r)
    \/ \E e \in 1..(Len(owner) + 1), r \in asked : Reach(e, r) \/ Stray(e, r)
    \/ Late
    \/ \E a \in Address, e \in DOMAIN owner : Reply(a, e)
    \/ \E p \in replied, label \in Address \cup {None} : Answer(p, label)

Spec == Init /\ [][Next]_vars
=============================================================================
