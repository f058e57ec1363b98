------------------------- MODULE MCCommandDispatch --------------------------
(* Small instances of CommandDispatch for TLC. *)
EXTENDS CommandDispatch, TLC
CONSTANTS w1, w2, w3, seed, record

ThreeWorkers == {w1, w2, w3}

(* w3's given is the debit's: refused once another act has drawn. *)
OneBars == [w \in ThreeWorkers |-> IF w = w3 THEN {w1} ELSE {}]

(* Every mix in which a creating command that reads is the only creator. *)
LoneReaders ==
    {k \in [Workers -> AllKinds] :
        \A v, w \in Workers :
            (v # w /\ k[v] = "create") => k[w] \notin {"put", "create"}}

SameKey == {[w \in Workers |-> record]}
=============================================================================
