---------------------------- MODULE SerialDomain ----------------------------
(***************************************************************************)
(* What the host promises of one domain, however many processes serve it:  *)
(* commands are accepted one at a time, each judged on the world every     *)
(* earlier one left, and its effects and its sagas are kept with it.       *)
(***************************************************************************)
CONSTANTS
    Commands,
    Accepts(_, _),  \* whether the kernel accepts a command in a world
    Apply(_, _),    \* the world a command leaves
    FirstWorlds     \* the worlds a deployment may start from

VARIABLES world, accepted

Init == world \in FirstWorlds /\ accepted = {}

Accept(c) ==
    /\ c \notin accepted /\ Accepts(world, c)
    /\ world' = Apply(world, c)
    /\ accepted' = accepted \cup {c}

Next == \E c \in Commands : Accept(c)

Spec == Init /\ [][Next]_<<world, accepted>>
=============================================================================
