--------------------------- MODULE KernelCascade ----------------------------
(***************************************************************************)
(* The Rust kernel's cascade: one command dispatched with every policy and *)
(* process-manager leg its events set off, run depth first on one thread.  *)
(*                                                                         *)
(* The recursion of Cascade.run is the stack `todo`, what is left to do,   *)
(* the innermost call first:                                               *)
(*   run     a command, dispatched by a caller or by a policy              *)
(*   event   one emitted event, whose policies are next                    *)
(*   policy  one policy that answers the event                             *)
(*   sagas   the event's begin_saga and advance_saga                       *)
(*   end     the event's end_saga                                          *)
(*   leg     the dispatches of a leg still to deliver, and whether one was *)
(*           refused; `heeds` is FALSE for a compensating leg, whose       *)
(*           refusals set nothing off                                      *)
(*   drain   the ledger's compensations still to fire                      *)
(* One process manager and one correlation are modelled; what a command's  *)
(* own rules decide is a free choice between accepting and refusing.       *)
(***************************************************************************)
EXTENDS Integers, FiniteSets, Sequences, SequencesExt

CONSTANTS
    Events,      \* event names
    Commands,    \* command names
    States,      \* the process manager's states
    First,       \* its initial_state
    StartsOn,    \* its starts_on
    EndsOn,      \* its ends_on
    Handlers,    \* its legs: [on, from, to, does]
    Refused,     \* the trigger of a compensating leg
    CompOf,      \* command -> the command its dispatch `compensates` with, or None
    EmitsOf,     \* command -> the events it emits, in order
    Carries,     \* events whose payload or reference key gives the correlation
    PoliciesOn,  \* event -> the same-domain policies that answer it, in order
    CrossOn,     \* events a cross-domain policy answers
    Entry,       \* commands callers dispatch
    None,
    MaxDepth,    \* MAX_REACTION_DEPTH
    MaxRows,     \* bound: rows a fan-out's query answers
    MaxCalls     \* bound: commands callers dispatch

PolicyType == [does: Commands, root: BOOLEAN, each: BOOLEAN]
HandlerType == [on: Events \cup {Refused}, from: States, to: States, does: Seq(Commands)]

ASSUME KernelAssumption ==
    /\ First \in States /\ StartsOn \in Events /\ EndsOn \in Events
    /\ Refused \notin Events /\ None \notin Commands
    /\ Handlers \subseteq HandlerType
    /\ \A g, h \in Handlers : g.on = h.on /\ g.from = h.from => g = h
    /\ CompOf \in [Commands -> Commands \cup {None}]
    /\ EmitsOf \in [Commands -> Seq(Events)]
    /\ Carries \subseteq Events /\ CrossOn \subseteq Events /\ Entry \subseteq Commands
    /\ PoliciesOn \in [Events -> Seq(PolicyType)]
    /\ MaxDepth \in Nat /\ MaxRows \in Nat /\ MaxCalls \in Nat

VARIABLES
    todo,      \* what the cascade has left to do, the next first
    live,      \* the conversation has an instance
    state,     \* its state
    ledger,    \* completed_compensations, each by the command it undoes
    standing,  \* per command, compensable deliveries neither undone nor reported failed
    logged,    \* events logged in this cascade that a cross-domain policy answers
    cross,     \* reactions this cascade hands to the host
    calls      \* commands callers have dispatched

vars == <<todo, live, state, ledger, standing, logged, cross, calls>>
conversation == <<live, state, ledger, standing>>

Nothing == [c \in Commands |-> 0]

RunTask(c, d) == [op |-> "run", cmd |-> c, depth |-> d]
EventTask(e, d, known) == [op |-> "event", name |-> e, depth |-> d, known |-> known]
PolicyTask(p, d) == [op |-> "policy", rule |-> p, depth |-> d]
SagasTask(e, d, known) == [op |-> "sagas", name |-> e, depth |-> d, known |-> known]
EndTask(e, d, known) == [op |-> "end", name |-> e, depth |-> d, known |-> known]
LegTask(does, d, refused, heeds) ==
    [op |-> "leg", does |-> does, depth |-> d, refused |-> refused, heeds |-> heeds]
DrainTask(d) == [op |-> "drain", depth |-> d]

(* reaction_depth: one deeper, or back at zero for a root reaction. *)
ReactionDepth(root, d) == IF root THEN 0 ELSE d + 1

(* The ceiling, asked before a reaction re-enters run. *)
AtCeiling(d) == d >= MaxDepth

(* The events of a dispatched command: the whole batch is logged, then each is *)
(* reacted to in order.  A leg's dispatches stamp theirs with the correlation. *)
Emitted(c, d, stamped) ==
    [i \in DOMAIN EmitsOf[c] |->
        EventTask(EmitsOf[c][i], d, stamped \/ EmitsOf[c][i] \in Carries)]

CrossAnswers(c) == Cardinality({i \in DOMAIN EmitsOf[c] : EmitsOf[c][i] \in CrossOn})

(* Mutant: an event at the ceiling is not handed to the host. *)
CrossShallow(e, d) == IF e \in CrossOn /\ ~AtCeiling(d) THEN 1 ELSE 0

(* The cross-domain half of react_policies, which no ceiling stops. *)
CrossMatched(e, d) == IF e \in CrossOn THEN 1 ELSE 0


Legs(on, from) == {h \in Handlers : h.on = on /\ h.from = from}

(* What a dispatch of the process manager comes to. *)
Answers(d) == IF AtCeiling(d) THEN {"stopped"} ELSE {"accepted", "refused"}

Init ==
    /\ todo = << >> /\ live = FALSE /\ state = First /\ ledger = << >>
    /\ standing = Nothing /\ logged = 0 /\ cross = 0 /\ calls = 0

(* orchestrate: a caller's command, at depth 0 and with vectors of its own. *)
Call(c) ==
    /\ todo = << >> /\ calls < MaxCalls
    /\ calls' = calls + 1 /\ logged' = 0 /\ cross' = 0
    /\ todo' = <<RunTask(c, 0)>>
    /\ UNCHANGED conversation

Doing(op) == todo # << >> /\ Head(todo).op = op

(* run: dispatch_fn accepts a caller's or a policy's command; nothing is stamped. *)
RunAccepted ==
    /\ Doing("run")
    /\ LET t == Head(todo) IN
       /\ todo' = Emitted(t.cmd, t.depth, FALSE) \o Tail(todo)
       /\ logged' = logged + CrossAnswers(t.cmd)
    /\ UNCHANGED <<conversation, cross, calls>>

(* ... or refuses it: returned to a caller, logged and swallowed for a policy. *)
RunRefused ==
    /\ Doing("run")
    /\ todo' = Tail(todo)
    /\ UNCHANGED <<conversation, logged, cross, calls>>

(* One event: its policies in order, then its sagas, then its end. *)
React ==
    /\ Doing("event")
    /\ LET t == Head(todo)
           answering == PoliciesOn[t.name]
       IN todo' = [i \in DOMAIN answering |-> PolicyTask(answering[i], t.depth)]
                  \o <<SagasTask(t.name, t.depth, t.known), EndTask(t.name, t.depth, t.known)>>
                  \o Tail(todo)
    /\ UNCHANGED <<conversation, logged, cross, calls>>

(* react_policies, one policy: skipped at the ceiling unless it is a root one; a *)
(* fan-out dispatches once per row its query answers by now.                     *)
FollowPolicy ==
    /\ Doing("policy")
    /\ LET t == Head(todo)
           p == t.rule
           rows == IF AtCeiling(t.depth) /\ ~p.root THEN {0}
                   ELSE IF p.each THEN 0..MaxRows ELSE {1}
       IN \E n \in rows :
            todo' = [i \in 1..n |-> RunTask(p.does, ReactionDepth(p.root, t.depth))]
                    \o Tail(todo)
    /\ UNCHANGED <<conversation, logged, cross, calls>>

(* The cross-domain policies, then begin_saga and advance_saga: the instance is *)
(* born on starts_on, and a leg for the event and the state it is in moves it   *)
(* on before the first of the leg's dispatches.                                 *)
BeginAndAdvance ==
    /\ Doing("sagas")
    /\ LET t == Head(todo)
           born == t.known /\ t.name = StartsOn /\ ~live
           from == IF born THEN First ELSE state
           legs == IF t.known /\ (live \/ born) THEN Legs(t.name, from) ELSE {}
       IN /\ cross' = cross + CrossMatched(t.name, t.depth)
          /\ live' = (live \/ born)
          /\ ledger' = IF born THEN << >> ELSE ledger
          /\ standing' = IF born THEN Nothing ELSE standing
          /\ \/ /\ legs = {} /\ state' = from /\ todo' = Tail(todo)
             \/ \E h \in legs :
                  /\ state' = h.to
                  /\ todo' = <<LegTask(h.does, t.depth, FALSE, TRUE)>> \o Tail(todo)
    /\ UNCHANGED <<logged, calls>>

Recorded(c) == live /\ CompOf[c] # None

(* Mutant: a refused dispatch leaves its entry. *)
LedgerAfterUnpopped(c, answer) ==
    IF answer # "stopped" /\ Recorded(c) THEN Append(ledger, c) ELSE ledger

(* What a delivery leaves on the ledger: the entry is pushed before the dispatch *)
(* runs, so that a refusal nested in it already sees it, and popped again if the *)
(* dispatch itself is refused.                                                   *)
LedgerAfter(c, answer) ==
    IF answer = "accepted" /\ Recorded(c) THEN Append(ledger, c) ELSE ledger

(* deliver_saga_dispatch: the next of a leg's dispatches. *)
Deliver ==
    /\ Doing("leg") /\ Head(todo).does # << >>
    /\ LET t == Head(todo)
           c == Head(t.does)
           after(refused) == <<LegTask(Tail(t.does), t.depth, refused, t.heeds)>> \o Tail(todo)
       IN \E answer \in Answers(t.depth) :
            /\ ledger' = LedgerAfter(c, answer)
            /\ IF answer = "accepted"
               THEN /\ standing' = IF Recorded(c) THEN [standing EXCEPT ![c] = @ + 1] ELSE standing
                    /\ logged' = logged + CrossAnswers(c)
                    /\ todo' = Emitted(c, t.depth + 1, TRUE) \o after(t.refused)
               ELSE /\ todo' = after(t.refused \/ answer = "refused")
                    /\ UNCHANGED <<standing, logged>>
    /\ UNCHANGED <<live, state, cross, calls>>

(* The leg is over.  If one of its dispatches was refused, compensate: the       *)
(* compensating leg of the state the instance is in by now moves it on, then the *)
(* ledger is drained and the compensating leg's own dispatches run.              *)
Settle ==
    /\ Doing("leg") /\ Head(todo).does = << >>
    /\ LET t == Head(todo)
           legs == IF t.refused /\ t.heeds /\ live THEN Legs(Refused, state) ELSE {}
       IN \/ /\ legs = {} /\ todo' = Tail(todo) /\ UNCHANGED state
          \/ \E h \in legs :
               /\ state' = h.to
               /\ todo' = <<DrainTask(t.depth), LegTask(h.does, t.depth, FALSE, FALSE)>> \o Tail(todo)
    /\ UNCHANGED <<live, ledger, standing, logged, cross, calls>>

(* The drain's loop fetches the ledger anew each time; an instance that is gone stops it. *)
Draining == Doing("drain") /\ live /\ ledger # << >>

(* Mutant: one entry is fired, and the drain is over. *)
StillToDrainOnce == Tail(todo)

StillToDrain == todo

(* Mutant: the newest entry is read and left there. *)
TakeEntryPeeking == UNCHANGED <<ledger, standing>>

TakeEntry ==
    /\ ledger' = Front(ledger)
    /\ standing' = [standing EXCEPT ![Last(ledger)] = @ - 1]

(* deliver_derived_compensation: the newest entry leaves the ledger and is fired; *)
(* a refusal, or the ceiling, is logged as compensation_failed.                   *)
Undo ==
    /\ Draining
    /\ LET t == Head(todo)
           u == CompOf[Last(ledger)]
       IN \E answer \in Answers(t.depth) :
            IF answer = "accepted"
            THEN /\ todo' = Emitted(u, t.depth + 1, TRUE) \o StillToDrain
                 /\ logged' = logged + CrossAnswers(u)
            ELSE /\ todo' = StillToDrain
                 /\ UNCHANGED logged
    /\ TakeEntry
    /\ UNCHANGED <<live, state, cross, calls>>

Drained ==
    /\ Doing("drain") /\ ~Draining
    /\ todo' = Tail(todo)
    /\ UNCHANGED <<conversation, logged, cross, calls>>

(* end_saga: the instance is removed, its ledger with it. *)
EndSaga ==
    /\ Doing("end")
    /\ todo' = Tail(todo)
    /\ IF Head(todo).known /\ Head(todo).name = EndsOn
       THEN live' = FALSE /\ state' = First /\ ledger' = << >> /\ standing' = Nothing
       ELSE UNCHANGED conversation
    /\ UNCHANGED <<logged, cross, calls>>

Step ==
    \/ RunAccepted \/ RunRefused \/ React \/ FollowPolicy \/ BeginAndAdvance
    \/ Deliver \/ Settle \/ Undo \/ Drained \/ EndSaga

Next == Step \/ \E c \in Entry : Call(c)

Spec == Init /\ [][Next]_vars

(* The cascade is ordinary calls of one thread, which run on until they return. *)
FairSpec == Spec /\ WF_vars(Step)

-----------------------------------------------------------------------------
(* A compensation fires only for a dispatch that was accepted and has not   *)
(* been compensated yet, however legs and unwindings nest: the entry pushed *)
(* before a dispatch runs is gone if the dispatch is refused                *)
(* (orchestrate.rs, deliver_saga_dispatch, compensate).                     *)
CompensatedOnce == \A c \in Commands : standing[c] >= 0

AtRest == todo = << >>

(* compensate's promise, with compensations recorded ahead of the dispatch they *)
(* undo so that a refusal nested in it sees them: when the cascade is over and  *)
(* a conversation is in the state a compensating leg leads to, every            *)
(* compensable dispatch it made was undone or reported compensation_failed.     *)
ReversedUndone ==
    AtRest /\ live /\ state \in {h.to : h \in {g \in Handlers : g.on = Refused}}
        => standing = Nothing

(* react_policies hands the host every cross-domain match: when the cascade is *)
(* over each logged event that a cross-domain policy answers was handed over   *)
(* once, at whatever depth it was emitted and whatever was refused around it.  *)
CrossHandedOver == AtRest => cross = logged

(* A cascade comes to an end, though a policy may trigger the very command *)
(* whose event it answers: the ceiling cuts it.                            *)
CascadeEnds == ~AtRest ~> AtRest
=============================================================================
