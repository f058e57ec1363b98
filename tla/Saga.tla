-------------------------------- MODULE Saga --------------------------------
(***************************************************************************)
(* One saga instance (one correlation of one process manager) run by the   *)
(* Ruby runtime's SagaInterpreter: transitions checkpointed before their   *)
(* dispatches, nested reactions on the same thread, retries, refusals that *)
(* unwind, the compensation ledger, process death, and the boot that       *)
(* rehydrates the instance, redrives owed events and finishes cut legs.    *)
(*                                                                         *)
(* Each thread has a stack of calls.  An `adv` call is SagaInterpreter's   *)
(* advance on one event; a `leg` call settles one transition; a `boot`     *)
(* call is Loader's redrive_outbox! then redrive_sagas!; a `resume` call is *)
(* a person's.  A dispatch that commits emits an event whose outbox row is *)
(* owed until some advance claims it; a claimed row is not redelivered     *)
(* (see Outbox).                                                           *)
(***************************************************************************)
EXTENDS Integers, Sequences, FiniteSets

CONSTANTS
    Threads,      \* threads of the process
    Events,       \* event names
    Commands,     \* command names
    States,       \* the saga's states
    First,        \* the state an instance is born in
    StartsOn,     \* the event an instance is born on
    EndsOn,       \* the events that end one
    Handlers,     \* the declared legs: [on, from, to, does]
    CompOf,       \* command -> the command that compensates it, or None
    EmitsOf,      \* command -> the event it emits, or None
    Entry,        \* events a caller's own command emits
    Idempotent,   \* commands declared idempotent
    Dedupes,      \* the store has the :dispatch_claims capability
    OneSecond,    \* same-named events carry the same id and second
    Refused,      \* the trigger of a compensating leg
    NeedsHuman,   \* the state a faulted saga parks in, if it has one
    None,
    MaxDepth,     \* MAX_REACTION_DEPTH
    MaxRetries,   \* MAX_DEFECT_RETRIES
    MaxEntries,   \* bound: caller commands
    MaxCrashes,   \* bound: process deaths
    MaxObj        \* bound: instances one process builds in memory

HandlerType == [on: Events \cup {Refused}, from: States, to: States, does: Seq(Commands)]

ASSUME SagaAssumption ==
    /\ First \in States /\ StartsOn \in Events /\ EndsOn \subseteq Events
    /\ Entry \subseteq Events /\ Refused \notin Events
    /\ None \notin Events \cup Commands \cup States \cup {NeedsHuman} /\ First # NeedsHuman
    /\ Handlers \subseteq HandlerType
    /\ \A g, h \in Handlers : g.on = h.on /\ g.from = h.from => g = h
    /\ CompOf \in [Commands -> Commands \cup {None}]
    /\ EmitsOf \in [Commands -> Events \cup {None}]
    /\ Idempotent \subseteq Commands
    /\ Dedupes \in BOOLEAN /\ OneSecond \in BOOLEAN
    /\ MaxDepth \in Nat /\ MaxRetries \in Nat /\ MaxEntries \in Nat
    /\ MaxCrashes \in Nat /\ MaxObj \in Nat

VARIABLES
    stack,     \* per thread, its calls, the innermost last
    cur,       \* the registry's live instance, 0 when none
    obj,       \* every instance object a call may still hold
    disk,      \* the store's saga row
    owed,      \* events committed with their outbox row still pending
    occ,       \* history: the name of each event ever emitted
    claims,    \* dispatch keys recorded with the writes they guarded
    up,        \* the process is running
    entries, crashes,
    taken,     \* history: the legs taken, each [on, ev, h]
    answered,  \* history: dispatches with an outcome, <<trigger, event, index>>
    applied,   \* history: dispatches whose write committed
    twice,     \* history: commands applied again for the same dispatch
    past,      \* history: dispatches applied before this process
    again,     \* history: commands applied again for a dispatch of the past
    skipped,   \* history: dispatches answered as already applied
    undone,    \* history: dispatches whose compensation committed
    reported,  \* history: the moving events of legs a boot reported
    failed     \* history: the events whose outbox row was settled as failed

vars == <<stack, cur, obj, disk, owed, occ, claims, up, entries, crashes,
          taken, answered, applied, twice, past, again, skipped, undone, reported, failed>>
history ==
    <<taken, answered, applied, twice, past, again, skipped, undone, reported, failed>>

(* The pending marker of a cut leg: pending_marker names the moving event,  *)
(* even for a leg whose trigger is the refusal.                             *)
NoMarker == [on |-> None, from |-> First, ev |-> 0, settled |-> 0, attempting |-> FALSE]
NoRow == [there |-> FALSE, state |-> First, faulted |-> None, ledger |-> << >>, marker |-> NoMarker]

(* An instance in memory: its state, the state it faulted from, the ledger  *)
(* (each entry a compensation and the dispatch it would undo), and the      *)
(* marker a boot found on it.                                               *)
Instance(state, faulted, ledger, stalled) ==
    [state |-> state, faulted |-> faulted, ledger |-> ledger, stalled |-> stalled]

(* Mutant: the state the saga faulted from is not remembered. *)
MovedForgetting(o, h) == [o EXCEPT !.state = h.to]
(* Leg#take. *)
Moved(o, h) ==
    [o EXCEPT !.state = h.to, !.faulted = IF h.to = NeedsHuman THEN o.state ELSE @]

----------------------------------------------------------------------------
(* Calls.  Every call has the same fields; `at` is its next step, `entry`   *)
(* the compensation it delivers.                                            *)
NoEntry == [cmd |-> None, of |-> <<None, 0, 0>>]
Call(k, at, on, ev, h, inst, i) ==
    [k |-> k, at |-> at, on |-> on, ev |-> ev, h |-> h, inst |-> inst, i |-> i,
     tries |-> 0, rec |-> FALSE, entry |-> NoEntry, todo |-> {}, copy |-> NoRow,
     then |-> at]
NoHandler == [on |-> Refused, from |-> First, to |-> First, does |-> << >>]

Adv(ev) == Call("adv", "claim", None, ev, NoHandler, 0, 0)
Leg(on, ev, h, inst, i) ==
    Call("leg", IF on = Refused /\ i = 0 THEN "drain" ELSE "start", on, ev, h, inst,
         IF i = 0 THEN 1 ELSE i)
BootCall(rows) == [Call("boot", "rows", None, 0, NoHandler, 0, 0) EXCEPT !.todo = rows]

Depth(t) == Len(stack[t])
Top(t) == stack[t][Depth(t)]
At(t, k, at) == up /\ stack[t] # << >> /\ Top(t).k = k /\ Top(t).at = at
Goto(t, at) == [Top(t) EXCEPT !.at = at]
SetTop(t, f) == stack' = [stack EXCEPT ![t] = [@ EXCEPT ![Len(@)] = f]]
SetTopAndPush(t, f, g) ==
    stack' = [stack EXCEPT ![t] = Append([@ EXCEPT ![Len(@)] = f], g)]
Pop(t) == stack' = [stack EXCEPT ![t] = SubSeq(@, 1, Len(@) - 1)]

(* Reactions nested on this thread: the dispatches whose commit it is       *)
(* still reacting to (Dispatcher#reaction_depth_reached?).                  *)
InReaction(f) == f.at \in {"sent", "compensated"}
ReactionDepth(t) == Cardinality({i \in 1..(Depth(t) - 1) : InReaction(stack[t][i])})
DepthReached(t) == ReactionDepth(t) >= MaxDepth

HandlerFor(on, state) == {h \in Handlers : h.on = on /\ h.from = state}
CommandAt(f) == f.h.does[f.i]

(* Mutant: a key without the dispatch's position in its leg. *)
KeyOfLeg(on, ev, i) == <<on, ev>>

(* DispatchClaim.key: the trigger, the moving event's name, id and second,  *)
(* and the position.                                                        *)
Stamp(ev) == IF OneSecond THEN occ[ev] ELSE ev
Key(on, ev, i) == <<on, Stamp(ev), i>>

(* checkpoint: the instance as written, with or without a pending marker.   *)
RowOf(o, marker) ==
    [there |-> TRUE, state |-> o.state, faulted |-> o.faulted, ledger |-> o.ledger,
     marker |-> marker]
MarkerOf(f, settled, attempting) ==
    [on |-> occ[f.ev], from |-> f.h.from, ev |-> f.ev, settled |-> settled,
     attempting |-> attempting]

(* A command commits: its event's row is owed, and the reaction follows.    *)
NextOcc == Len(occ) + 1
Emits(c) ==
    /\ occ' = IF EmitsOf[c] = None THEN occ ELSE Append(occ, EmitsOf[c])
    /\ owed' = IF EmitsOf[c] = None THEN owed ELSE owed \cup {NextOcc}
ReactTo(t, c, done, reacting) ==
    IF EmitsOf[c] = None THEN SetTop(t, done) ELSE SetTopAndPush(t, reacting, Adv(NextOcc))

----------------------------------------------------------------------------
Init ==
    /\ stack = [t \in Threads |-> << >>]
    /\ cur = 0 /\ obj = << >> /\ disk = NoRow
    /\ owed = {} /\ occ = << >> /\ claims = {} /\ up = TRUE
    /\ entries = 0 /\ crashes = 0
    /\ taken = {} /\ answered = {} /\ applied = {} /\ twice = {} /\ past = {}
    /\ again = {} /\ skipped = {} /\ undone = {} /\ reported = {} /\ failed = {}

(* A boot's call becomes the leg it redrives. *)
Booting == \E t \in Threads : stack[t] # << >> /\ stack[t][1].k \in {"boot", "leg"}

(* A caller's command commits an event this saga listens to. *)
Enter(t, e) ==
    /\ up /\ ~Booting /\ stack[t] = << >> /\ entries < MaxEntries
    /\ entries' = entries + 1
    /\ occ' = Append(occ, e) /\ owed' = owed \cup {NextOcc}
    /\ stack' = [stack EXCEPT ![t] = <<Adv(NextOcc)>>]
    /\ UNCHANGED <<cur, obj, disk, claims, up, crashes, history>>

(* The relay claims the event's row, or finds it taken. *)
ClaimEvent(t) ==
    /\ At(t, "adv", "claim")
    /\ IF Top(t).ev \in owed THEN SetTop(t, Goto(t, "begin")) ELSE Pop(t)
    /\ owed' = owed \ {Top(t).ev}
    /\ UNCHANGED <<cur, obj, disk, occ, claims, up, entries, crashes, history>>

(* instantiate_saga?, under the mutex. *)
BeginSaga(t) ==
    /\ At(t, "adv", "begin")
    /\ SetTop(t, Goto(t, "take"))
    /\ IF occ[Top(t).ev] = StartsOn /\ cur = 0
       THEN /\ Len(obj) < MaxObj
            /\ cur' = Len(obj) + 1
            /\ obj' = Append(obj, Instance(First, None, << >>, NoMarker))
            /\ disk' = RowOf(obj'[cur'], NoMarker)
       ELSE UNCHANGED <<cur, obj, disk>>
    /\ UNCHANGED <<owed, occ, claims, up, entries, crashes, history>>

(* remembered_leg_taken? and leg_taken?: the state moves and is written     *)
(* with a marker naming the leg, all under the mutex.                       *)
AdvanceSaga(t) ==
    LET ev == Top(t).ev
        legs == IF cur = 0 THEN {} ELSE HandlerFor(occ[ev], obj[cur].state)
    IN  /\ At(t, "adv", "take")
        /\ IF legs = {}
           THEN SetTop(t, Goto(t, "end")) /\ UNCHANGED <<obj, disk, taken>>
           ELSE \E h \in legs :
                  LET leg == Leg(h.on, ev, h, cur, 0) IN
                  /\ obj' = [obj EXCEPT ![cur] = Moved(@, h)]
                  /\ disk' = RowOf(obj'[cur], MarkerOf(leg, 0, FALSE))
                  /\ taken' = taken \cup {[on |-> h.on, ev |-> ev, h |-> h]}
                  /\ SetTopAndPush(t, Goto(t, "end"), leg)
        /\ UNCHANGED <<cur, owed, occ, claims, up, entries, crashes,
                       answered, applied, twice, past, again, skipped, undone,
                       reported, failed>>

(* forget_saga?, under the mutex. *)
EndSaga(t) ==
    /\ At(t, "adv", "end")
    /\ Pop(t)
    /\ IF occ[Top(t).ev] \in EndsOn /\ cur # 0
       THEN cur' = 0 /\ disk' = NoRow
       ELSE UNCHANGED <<cur, disk>>
    /\ UNCHANGED <<obj, owed, occ, claims, up, entries, crashes, history>>

(* resume: a person finds the instance parked. *)
Resume(t) ==
    /\ up /\ ~Booting /\ stack[t] = << >>
    /\ cur # 0 /\ obj[cur].state = NeedsHuman
    /\ stack' = [stack EXCEPT ![t] = <<Call("resume", "restore", None, 0, NoHandler, cur, 0)>>]
    /\ UNCHANGED <<cur, obj, disk, owed, occ, claims, up, entries, crashes, history>>

(* restore_faulted_stage: back in the stage it faulted from, without the     *)
(* mutex, and copied; nothing is dispatched.                                 *)
Restored(o) == [o EXCEPT !.state = o.faulted, !.faulted = None]
ResumeRestore(t) ==
    LET f == Top(t) IN
    /\ At(t, "resume", "restore")
    /\ obj' = [obj EXCEPT ![f.inst] = Restored(@)]
    /\ SetTop(t, [f EXCEPT !.at = "store", !.copy = RowOf(obj'[f.inst], NoMarker)])
    /\ UNCHANGED <<cur, disk, owed, occ, claims, up, entries, crashes, history>>

(* checkpoint, without the mutex. *)
ResumeStore(t) ==
    /\ At(t, "resume", "store")
    /\ disk' = Top(t).copy
    /\ Pop(t)
    /\ UNCHANGED <<cur, obj, owed, occ, claims, up, entries, crashes, history>>

----------------------------------------------------------------------------
(* Mutant: no `.equal?` guard. *)
WriteAnyway(f, marker) == disk' = RowOf(obj[f.inst], marker)

(* Writes only while the leg's instance is still the live one.              *)
WriteIfLive(f, marker) ==
    disk' = IF cur = f.inst THEN RowOf(obj[f.inst], marker) ELSE disk

(* Mutant: the dispatch about to run counted as settled. *)
StartDispatchSettled(t) ==
    LET f == Top(t) IN
    /\ At(t, "leg", "start") /\ f.i <= Len(f.h.does)
    /\ WriteIfLive(f, MarkerOf(f, f.i, TRUE))
    /\ SetTop(t, Goto(t, IF DepthReached(t) THEN "unwind" ELSE "record"))
    /\ UNCHANGED <<cur, obj, owed, occ, claims, up, entries, crashes, history>>

(* record_progress before a dispatch. *)
StartDispatch(t) ==
    LET f == Top(t) IN
    /\ At(t, "leg", "start") /\ f.i <= Len(f.h.does)
    /\ WriteIfLive(f, MarkerOf(f, f.i - 1, TRUE))
    /\ SetTop(t, Goto(t, IF DepthReached(t) THEN "unwind" ELSE "record"))
    /\ UNCHANGED <<cur, obj, owed, occ, claims, up, entries, crashes, history>>

(* The relay call a raise on this thread reaches: the innermost advance. *)
Relays(t) ==
    {n \in 1..Depth(t) :
        stack[t][n].k = "adv" /\ \A m \in (n + 1)..Depth(t) : stack[t][m].k # "adv"}

(* dispatch_args raises, outside deliver_saga_dispatch's rescues: every call *)
(* up to the relay's settle_delivery is left, with the marker in the store,  *)
(* and the relay settles the moving event's row as failed.                   *)
StartRaised(t) ==
    LET f == Top(t) IN
    /\ At(t, "leg", "start") /\ f.i <= Len(f.h.does)
    /\ WriteIfLive(f, MarkerOf(f, f.i - 1, TRUE))
    /\ \E n \in Relays(t) : stack' = [stack EXCEPT ![t] = SubSeq(@, 1, n - 1)]
    /\ failed' = failed \cup {f.ev}
    /\ UNCHANGED <<cur, obj, owed, occ, claims, up, entries, crashes, taken, answered,
                   applied, twice, past, again, skipped, undone, reported>>

(* The process is gone, with every call and every object in memory. *)
Gone ==
    /\ up' = FALSE /\ past' = applied
    /\ stack' = [t \in Threads |-> << >>]
    /\ cur' = 0 /\ obj' = << >>
    /\ UNCHANGED <<taken, answered, applied, twice, again, skipped, undone, reported, failed>>

(* The same in a leg the boot redrives, which nothing rescues: the process   *)
(* does not come up.                                                         *)
BootRaised(t) ==
    LET f == Top(t) IN
    /\ At(t, "leg", "start") /\ f.i <= Len(f.h.does)
    /\ \A n \in 1..Depth(t) : stack[t][n].k = "leg"
    /\ WriteIfLive(f, MarkerOf(f, f.i - 1, TRUE))
    /\ Gone
    /\ UNCHANGED <<owed, occ, claims, entries, crashes>>

(* checkpoint_leg with no marker and outside the mutex: the instance is     *)
(* copied now and written later, whether or not it is still live.           *)
CopyThen(t, o, f, next) == SetTop(t, [f EXCEPT !.at = "save", !.copy = RowOf(o, NoMarker), !.then = next])
SaveCopy(t) ==
    LET f == Top(t) IN
    /\ At(t, "leg", "save")
    /\ disk' = f.copy
    /\ SetTop(t, [f EXCEPT !.at = f.then, !.copy = NoRow, !.then = "start"])
    /\ UNCHANGED <<cur, obj, owed, occ, claims, up, entries, crashes, history>>

(* record_compensation: pushed on the ledger, then checkpointed. *)
RecordCompensation(t) ==
    LET f == Top(t) c == CommandAt(f) IN
    /\ At(t, "leg", "record")
    /\ IF CompOf[c] # None /\ ~f.rec
       THEN /\ obj' = [obj EXCEPT ![f.inst].ledger =
                          Append(@, [cmd |-> CompOf[c], of |-> <<f.on, f.ev, f.i>>])]
            /\ CopyThen(t, obj'[f.inst], [f EXCEPT !.rec = TRUE], "send")
       ELSE SetTop(t, Goto(t, "send")) /\ UNCHANGED obj
    /\ UNCHANGED <<cur, disk, owed, occ, claims, up, entries, crashes, history>>

(* Mutant: the claim is recorded and never read. *)
NeverApplied(f) == FALSE
AlreadyApplied(f) == Dedupes /\ Key(f.on, f.ev, f.i) \in claims

(* The dispatch commits: its write, its key and its event's row together.   *)
Commits(f) ==
    LET c == CommandAt(f) d == <<f.on, f.ev, f.i>> IN
    /\ ~AlreadyApplied(f)
    /\ claims' = IF Dedupes THEN claims \cup {Key(f.on, f.ev, f.i)} ELSE claims
    /\ applied' = applied \cup {d}
    /\ twice' = IF d \in applied THEN twice \cup {c} ELSE twice
    /\ again' = IF d \in past THEN again \cup {c} ELSE again
    /\ Emits(c)

SendDelivered(t) ==
    LET f == Top(t) IN
    /\ At(t, "leg", "send") /\ Commits(f)
    /\ answered' = answered \cup {<<f.on, f.ev, f.i>>}
    /\ ReactTo(t, CommandAt(f), Goto(t, "settle"), Goto(t, "sent"))
    /\ UNCHANGED <<cur, obj, disk, up, entries, crashes, taken, past, skipped, undone,
                   reported, failed>>

(* dispatch_applied?: nothing runs, and the dispatch counts as delivered.   *)
SendSkipped(t) ==
    LET f == Top(t) d == <<f.on, f.ev, f.i>> IN
    /\ At(t, "leg", "send") /\ AlreadyApplied(f)
    /\ skipped' = skipped \cup {d} /\ answered' = answered \cup {d}
    /\ SetTop(t, Goto(t, "settle"))
    /\ UNCHANGED <<cur, obj, disk, owed, occ, claims, up, entries, crashes, taken,
                   applied, twice, past, again, undone, reported, failed>>

(* unrecord_compensation: whatever entry is newest is popped, then          *)
(* checkpointed.                                                            *)
Popped(o) == [o EXCEPT !.ledger = IF @ = << >> THEN @ ELSE SubSeq(@, 1, Len(@) - 1)]
(* Mutant: the failed dispatch's entry stays on the ledger. *)
FailKeepingEntry(t, f, next) == SetTop(t, [f EXCEPT !.at = next]) /\ UNCHANGED obj
FailDispatch(t, f, next) ==
    IF f.rec
    THEN /\ obj' = [obj EXCEPT ![f.inst] = Popped(@)]
         /\ CopyThen(t, obj'[f.inst], [f EXCEPT !.rec = FALSE], next)
    ELSE SetTop(t, [f EXCEPT !.at = next]) /\ UNCHANGED obj

(* The target refuses: the leg unwinds. *)
SendRefused(t) ==
    /\ At(t, "leg", "send") /\ ~AlreadyApplied(Top(t))
    /\ FailDispatch(t, Top(t), "unwind")
    /\ UNCHANGED <<cur, disk, owed, occ, claims, up, entries, crashes, history>>

(* A defect: tried again up to MAX_DEFECT_RETRIES times, then unwound.      *)
TryAgain(t) ==
    FailDispatch(t, [Top(t) EXCEPT !.tries = @ + 1],
                 IF Top(t).tries < MaxRetries THEN "record" ELSE "unwind")

(* It is raised by the compensation's arguments, by the dispatch, or after   *)
(* the commit, when the relay or a reaction raises.                          *)
SendRaised(t) ==
    /\ \E at \in {"record", "send", "sent"} : At(t, "leg", at)
    /\ TryAgain(t)
    /\ UNCHANGED <<cur, disk, owed, occ, claims, up, entries, crashes, history>>

(* The dispatch commits and its answer is lost: nothing reacts, and what     *)
(* committed is tried again.                                                 *)
SendLost(t) ==
    /\ At(t, "leg", "send") /\ Commits(Top(t))
    /\ TryAgain(t)
    /\ UNCHANGED <<cur, disk, up, entries, crashes, taken, answered, past, skipped,
                   undone, reported, failed>>

(* unwind: takes the compensating leg declared from the state the instance  *)
(* is in, if there is one.                                                  *)
Unwind(t) ==
    LET f == Top(t) legs == HandlerFor(Refused, obj[f.inst].state) IN
    /\ At(t, "leg", "unwind")
    /\ answered' = answered \cup {<<f.on, f.ev, f.i>>}
    /\ IF legs = {}
       THEN SetTop(t, Goto(t, "settle")) /\ UNCHANGED <<obj, disk, taken>>
       ELSE \E h \in legs :
              LET leg == Leg(Refused, f.ev, h, f.inst, 0) IN
              /\ obj' = [obj EXCEPT ![f.inst] = Moved(@, h)]
              /\ disk' = RowOf(obj'[f.inst], MarkerOf(leg, 0, FALSE))
              /\ taken' = taken \cup {[on |-> Refused, ev |-> f.ev, h |-> h]}
              /\ SetTopAndPush(t, Goto(t, "settle"), leg)
    /\ UNCHANGED <<cur, owed, occ, claims, up, entries, crashes, applied, twice, past,
                   again, skipped, undone, reported, failed>>

(* record_progress after a dispatch. *)
SettleDispatch(t) ==
    LET f == Top(t) IN
    /\ At(t, "leg", "settle") \/ At(t, "leg", "sent")
    /\ WriteIfLive(f, MarkerOf(f, f.i, FALSE))
    /\ SetTop(t, [Goto(t, "start") EXCEPT !.i = @ + 1, !.tries = 0, !.rec = FALSE])
    /\ UNCHANGED <<cur, obj, owed, occ, claims, up, entries, crashes, history>>

(* clear_pending_marker, and the leg is settled. *)
FinishLeg(t) ==
    /\ At(t, "leg", "start") /\ Top(t).i > Len(Top(t).h.does)
    /\ WriteIfLive(Top(t), NoMarker)
    /\ Pop(t)
    /\ UNCHANGED <<cur, obj, owed, occ, claims, up, entries, crashes, history>>

(* drain_derived_compensations: the newest entry is popped in memory only   *)
(* and delivered; the emptied ledger is checkpointed.                       *)
Draining(t) == At(t, "leg", "drain") \/ At(t, "leg", "compensated")
NextEntry(f) == [f EXCEPT !.at = "drain", !.entry = NoEntry, !.tries = 0]

DrainDone(t) ==
    LET f == Top(t) IN
    /\ Draining(t) /\ obj[f.inst].ledger = << >>
    /\ CopyThen(t, obj[f.inst], NextEntry(f), "start")
    /\ UNCHANGED <<cur, obj, disk, owed, occ, claims, up, entries, crashes, history>>

Newest(o) == o.ledger[Len(o.ledger)]
Drain(t) ==
    LET f == Top(t) IN
    /\ Draining(t) /\ obj[f.inst].ledger # << >>
    /\ obj' = [obj EXCEPT ![f.inst] = Popped(@)]
    /\ SetTop(t, [f EXCEPT !.at = "compensate", !.entry = Newest(obj[f.inst]), !.tries = 0])
    /\ UNCHANGED <<cur, disk, owed, occ, claims, up, entries, crashes, history>>

(* deliver_derived_compensation commits; no dispatch key guards it.          *)
Undo(e) == undone' = undone \cup {e.of} /\ Emits(e.cmd)
Compensate(t) ==
    LET f == Top(t) IN
    /\ At(t, "leg", "compensate") /\ ~DepthReached(t)
    /\ Undo(f.entry)
    /\ ReactTo(t, f.entry.cmd, NextEntry(f), Goto(t, "compensated"))
    /\ UNCHANGED <<cur, obj, disk, claims, up, entries, crashes, taken, answered, applied,
                   twice, past, again, skipped, reported, failed>>

(* Refused, or at the depth ceiling: recorded, never again. *)
CompensationFails(t) ==
    /\ At(t, "leg", "compensate")
    /\ SetTop(t, NextEntry(Top(t)))
    /\ UNCHANGED <<cur, obj, disk, owed, occ, claims, up, entries, crashes, history>>

(* A defect, before the commit or after it: tried again, then abandoned.     *)
CompensateAgain(t) ==
    LET f == Top(t) IN
    SetTop(t, IF f.tries < MaxRetries THEN [f EXCEPT !.at = "compensate", !.tries = @ + 1]
              ELSE NextEntry(f))
CompensationRaised(t) ==
    /\ At(t, "leg", "compensated") \/ (At(t, "leg", "compensate") /\ ~DepthReached(t))
    /\ CompensateAgain(t)
    /\ UNCHANGED <<cur, obj, disk, owed, occ, claims, up, entries, crashes, history>>

(* The compensation commits and its answer is lost. *)
CompensateLost(t) ==
    /\ At(t, "leg", "compensate") /\ ~DepthReached(t)
    /\ Undo(Top(t).entry)
    /\ CompensateAgain(t)
    /\ UNCHANGED <<cur, obj, disk, claims, up, entries, crashes, taken, answered, applied,
                   twice, past, again, skipped, reported, failed>>

----------------------------------------------------------------------------
(* The process dies. *)
Crash ==
    /\ up /\ crashes < MaxCrashes
    /\ crashes' = crashes + 1
    /\ Gone
    /\ UNCHANGED <<disk, owed, occ, claims, entries>>

(* rehydrate_sagas!, then the redrives of boot_described, before any caller. *)
Boot(t) ==
    /\ ~up
    /\ up' = TRUE
    /\ IF disk.there
       THEN cur' = 1 /\ obj' = <<Instance(disk.state, disk.faulted, disk.ledger, disk.marker)>>
       ELSE cur' = 0 /\ obj' = << >>
    /\ stack' = [stack EXCEPT ![t] = <<BootCall(owed)>>]
    /\ UNCHANGED <<disk, owed, occ, claims, entries, crashes, history>>

(* redrive_outbox!: the pending rows it read, oldest first. *)
BootRow(t) ==
    LET f == Top(t) IN
    /\ At(t, "boot", "rows")
    /\ IF f.todo = {}
       THEN SetTop(t, Goto(t, "sagas"))
       ELSE \E ev \in f.todo :
              /\ \A o \in f.todo : ev <= o
              /\ SetTopAndPush(t, [f EXCEPT !.todo = @ \ {ev}], Adv(ev))
    /\ UNCHANGED <<cur, obj, disk, owed, occ, claims, up, entries, crashes, history>>

(* Mutant: whatever may have run is delivered again. *)
RedeliverableAlways(c) == TRUE
Redeliverable(c) == Dedupes \/ c \in Idempotent

(* stalled_leg: nil when an unwinding leg still has compensations, the leg  *)
(* is gone, or the instance is no longer where the leg left it.             *)
StalledLeg(o, m) ==
    IF m.on = Refused /\ o.ledger # << >> THEN {}
    ELSE {h \in HandlerFor(m.on, m.from) : h.to = o.state}

(* redrive_sagas!: the cut leg is resumed, or reported for a person. *)
RedriveSaga(t) ==
    LET o == obj[cur]  m == o.stalled  legs == StalledLeg(o, m) IN
    /\ At(t, "boot", "sagas")
    /\ IF cur = 0 \/ m = NoMarker
       THEN Pop(t) /\ UNCHANGED <<obj, disk, reported>>
       ELSE /\ obj' = [obj EXCEPT ![cur].stalled = NoMarker]
            /\ \/ /\ legs = {}
                  /\ reported' = reported \cup {m.ev}
                  /\ Pop(t) /\ UNCHANGED disk
               \/ \E h \in legs :
                    LET f == Leg(m.on, m.ev, h, cur, m.settled + 1)
                        ambiguous == /\ m.attempting /\ m.settled < Len(h.does)
                                     /\ ~Redeliverable(h.does[m.settled + 1])
                    IN  IF ambiguous
                        THEN /\ reported' = reported \cup {m.ev}
                             /\ disk' = RowOf(obj'[cur], MarkerOf(f, m.settled, TRUE))
                             /\ Pop(t)
                        ELSE SetTop(t, f) /\ UNCHANGED <<disk, reported>>
    /\ UNCHANGED <<cur, owed, occ, claims, up, entries, crashes, taken, answered,
                   applied, twice, past, again, skipped, undone, failed>>

----------------------------------------------------------------------------
Step(t) ==
    \/ ClaimEvent(t) \/ BeginSaga(t) \/ AdvanceSaga(t) \/ EndSaga(t)
    \/ StartDispatch(t) \/ StartRaised(t) \/ BootRaised(t)
    \/ RecordCompensation(t) \/ SendDelivered(t) \/ SendSkipped(t)
    \/ SendRefused(t) \/ SendRaised(t) \/ SendLost(t) \/ Unwind(t)
    \/ SettleDispatch(t) \/ FinishLeg(t) \/ SaveCopy(t) \/ DrainDone(t)
    \/ Drain(t) \/ Compensate(t) \/ CompensationFails(t)
    \/ CompensationRaised(t) \/ CompensateLost(t)
    \/ BootRow(t) \/ RedriveSaga(t) \/ ResumeRestore(t) \/ ResumeStore(t)

Next ==
    \/ \E t \in Threads : Step(t) \/ Boot(t) \/ Resume(t) \/ \E e \in Entry : Enter(t, e)
    \/ Crash

Spec == Init /\ [][Next]_vars

----------------------------------------------------------------------------
(* Properties. *)
Quiescent == up /\ \A t \in Threads : stack[t] = << >>

(* A dispatch's write commits at most once, however often it raises and is  *)
(* tried again, the process dies and the boot redrives the leg, unless the  *)
(* command is declared idempotent (dispatch_claim.rb).                      *)
NoDoubleApply == twice \subseteq Idempotent

(* A boot never applies again what may have been applied before it, unless  *)
(* the command is declared idempotent: what it cannot tell it withholds     *)
(* (redrive.rb withhold_ambiguous).                                         *)
RedriveAppliesOnce == again \subseteq Idempotent

(* At rest, the store holds the live instance's state, and no row once the  *)
(* instance ended: what a restart would restore is what was there           *)
(* (transitions.rb record_progress, clear_pending_marker).                  *)
StoreMirrorsLive ==
    Quiescent => IF cur = 0 THEN ~disk.there ELSE disk.there /\ disk.state = obj[cur].state

(* A saga parked for a person knows the stage it faulted from, across any   *)
(* death and boot, so that a resume puts it back there (saga_interpreter.rb *)
(* resume, Leg#take).                                                       *)
ParkedKnowsStage ==
    \A i \in 1..Len(obj) : obj[i].state = NeedsHuman => obj[i].faulted \in States \ {NeedsHuman}

(* A forward leg that a crash cut short is finished by a later boot, every  *)
(* one of its dispatches answered, or is reported for a person; one that a  *)
(* raise cut short leaves its event's row failed; unless it was refused and *)
(* unwound (redrive.rb, transitions.rb deliver_dispatches, relay.rb         *)
(* settle_failed).                                                          *)
AllAnswered(l) == \A i \in 1..Len(l.h.does) : <<l.on, l.ev, i>> \in answered
Unwound(ev) == \E l \in taken : l.on = Refused /\ l.ev = ev
LegFinishedOrReported ==
    Quiescent => \A l \in taken : 
        Unwound(l.ev) \/ AllAnswered(l) \/ l.ev \in reported \cup failed

(* Only a dispatch that was applied is answered as already applied          *)
(* (dispatch_claim.rb key).                                                 *)
SkippedWasApplied == skipped \subseteq applied

(* In a process that never died, only a dispatch that was applied is        *)
(* compensated: a refused or failed one takes its own entry off the ledger  *)
(* (compensation.rb unrecord_compensation).                                 *)
NoPhantomCompensation == crashes = 0 => undone \subseteq applied
=============================================================================
