--------------------------- MODULE OutboxPromise ----------------------------
(***************************************************************************)
(* What the outbox promises of each (event, consumer) row, with no relay,  *)
(* process or crash in sight: a save owes a set of reactions at once, each *)
(* owed reaction is started at most once, a started one is either closed   *)
(* with an outcome or put back by an operator, and a closed one stays so.  *)
(***************************************************************************)
CONSTANT Rows
VARIABLE debt

Init == debt = [r \in Rows |-> "none"]

Move(r, from, to) == debt[r] = from /\ debt' = [debt EXCEPT ![r] = to]

Owe(S) ==
    /\ \A r \in S : debt[r] = "none"
    /\ debt' = [r \in Rows |-> IF r \in S THEN "owed" ELSE debt[r]]

Start(r) == Move(r, "owed", "started")
Close(r) == Move(r, "started", "closed")
PutBack(r) == Move(r, "started", "owed")

Next ==
    \/ \E S \in SUBSET Rows : Owe(S)
    \/ \E r \in Rows : Start(r) \/ Close(r) \/ PutBack(r)

Spec == Init /\ [][Next]_debt
=============================================================================
