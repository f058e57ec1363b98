---------------------------- MODULE AtomicRecord ----------------------------
(***************************************************************************)
(* What dispatching commands at one record promises its callers, with no   *)
(* store, lock, version, journal or retry in sight: each command takes     *)
(* effect at one instant, against the record as it is at that instant, or  *)
(* is refused for what the record is at one instant, or has no effect.     *)
(*                                                                         *)
(* The record is the set of the commands whose effect it carries, {} when  *)
(* it does not exist.  `kind` says what each command is.                   *)
(***************************************************************************)
CONSTANTS Workers, Bars
VARIABLES kind, record, outcome

Outcomes == {"none", "done", "refused", "stale"}

(* A creating command needs the record absent, an acting one needs it        *)
(* present, and one with a `given` needs it free of what the given bars.     *)
Admitted(w) ==
    IF kind[w] \in {"create", "put"} THEN record = {}
    ELSE record # {} /\ (kind[w] = "act" => record \cap Bars[w] = {})

(* An acting command builds on the record; the others state all of it.       *)
Effect(w) == IF kind[w] = "act" THEN record \cup {w} ELSE {w}

Init == outcome = [w \in Workers |-> "none"]

Answer(w, o) == outcome[w] = "none" /\ outcome' = [outcome EXCEPT ![w] = o]

Apply(w) == Answer(w, "done") /\ Admitted(w) /\ record' = Effect(w)
Refuse(w) == Answer(w, "refused") /\ ~Admitted(w) /\ UNCHANGED record
GiveUp(w) == Answer(w, "stale") /\ UNCHANGED record

Next == (\E w \in Workers : Apply(w) \/ Refuse(w) \/ GiveUp(w)) /\ UNCHANGED kind

Spec == Init /\ [][Next]_<<kind, record, outcome>>
=============================================================================
