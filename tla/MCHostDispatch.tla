-------------------------- MODULE MCHostDispatch ----------------------------
(* Commands that begin and move a saga, one that conflicts with another,   *)
(* one refused for its role and run again, and a read.                     *)
EXTENDS HostDispatch, TLC

CONSTANTS open, move, rival, r1, h1, h2

MCHosts == {h1, h2}
(* Both commits of the saga may fall between the statements of the read. *)
MCHostOf == (open :> h1) @@ (move :> h1) @@ (rival :> h2) @@ (r1 :> h2)
(* What the saga's leg did refuses the rival: a saga kept apart is noticed. *)
MCBars == (open :> {}) @@ (move :> {}) @@ (rival :> {FollowUp})
MCReactions == (open :> 0) @@ (move :> 2) @@ (rival :> 0)
=============================================================================
