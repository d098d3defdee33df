---------------------------- MODULE ObjectStore ----------------------------
(***************************************************************************)
(* What the object store promises to those who use it: an object appears   *)
(* whole under its id and is never replaced, and once an upload of it has  *)
(* been acknowledged not even a loss of power takes it away.               *)
(***************************************************************************)
CONSTANT Objects

VARIABLES
    stored,        \* objects a reader sees
    durable,       \* those a loss of power cannot take away
    acknowledged   \* objects some upload has been answered with success for

vars == <<stored, durable, acknowledged>>

Init == stored = {} /\ durable = {} /\ acknowledged = {}

Link(o) ==
    /\ o \notin stored
    /\ stored' = stored \cup {o}
    /\ UNCHANGED <<durable, acknowledged>>

Sync(o) ==
    /\ o \in stored
    /\ durable' = durable \cup {o}
    /\ UNCHANGED <<stored, acknowledged>>

Acknowledge(o) ==
    /\ o \in durable
    /\ acknowledged' = acknowledged \cup {o}
    /\ UNCHANGED <<stored, durable>>

PowerLoss ==
    /\ \E lost \in SUBSET (stored \ durable) : stored' = stored \ lost
    /\ durable' = stored'
    /\ UNCHANGED acknowledged

Next ==
    \/ \E o \in Objects : Link(o) \/ Sync(o) \/ Acknowledge(o)
    \/ PowerLoss

Spec == Init /\ [][Next]_vars
=============================================================================
