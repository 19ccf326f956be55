-------------------------------- MODULE Relay --------------------------------
(***************************************************************************)
(* What a TCP relay promises about one connection, whichever program it    *)
(* runs in: ss-server, ss-local, ss-tunnel or ss-redir.                    *)
(*                                                                         *)
(* Between the client and the host are two channels with room for one      *)
(* piece of data each.  A piece is taken only when the one before it was   *)
(* handed on, so nothing is overwritten and nothing overtakes.  The host   *)
(* is sent nothing before it was told where to connect to, and nothing     *)
(* comes back before that.  A connection whose data was rejected is never  *)
(* taken up again.                                                         *)
(***************************************************************************)
VARIABLES
    phase,  \* "none", "asked", "open" or "refused"
    up,     \* data for the host: "empty" or "full"
    down    \* data for the client

vars == <<phase, up, down>>

Channel == {"empty", "full"}

Nothing == up' = "empty" /\ down' = "empty"

Init == phase = "none" /\ up = "empty" /\ down = "empty"

Ask == phase = "none" /\ phase' = "asked" /\ Nothing

\* The connection opens, with or without data that came with the request.
Open ==
    /\ phase = "asked"
    /\ phase' = "open"
    /\ up' \in Channel
    /\ UNCHANGED down

\* Data that comes before the connection is open is kept.
Keep == phase = "asked" /\ up = "empty" /\ up' = "full" /\ UNCHANGED <<phase, down>>

ReceiveUp == phase = "open" /\ up = "empty" /\ up' = "full" /\ UNCHANGED <<phase, down>>
DeliverUp == phase = "open" /\ up = "full" /\ up' = "empty" /\ UNCHANGED <<phase, down>>

ReceiveDown == phase = "open" /\ down = "empty" /\ down' = "full" /\ UNCHANGED <<phase, up>>
DeliverDown == phase = "open" /\ down = "full" /\ down' = "empty" /\ UNCHANGED <<phase, up>>

Refuse == phase \in {"asked", "open"} /\ phase' = "refused" /\ Nothing

End == phase # "none" /\ phase' = "none" /\ Nothing

Next ==
    \/ Ask \/ Open \/ Keep \/ Refuse \/ End
    \/ ReceiveUp \/ DeliverUp \/ ReceiveDown \/ DeliverDown

Spec == Init /\ [][Next]_vars
=============================================================================
