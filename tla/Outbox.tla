------------------------------- MODULE Outbox -------------------------------
(***************************************************************************)
(* The transactional outbox of the Ruby runtime (Hecks::Runtime::Outbox):  *)
(* one row per (event, consumer), written in the transaction of the save   *)
(* that announced the event, then claimed, run and settled by a relay.     *)
(*                                                                         *)
(* Several processes share one store.  A process delivers the rows of its  *)
(* own saves inline; a consumer it runs may dispatch again, which enqueues *)
(* and delivers more rows in a nested call.  A process may die between any *)
(* two steps.  A boot redrives the pending rows it reads and only reports  *)
(* the stalled ones; an operator may redrive or abandon stalled rows.      *)
(*                                                                         *)
(* Rows are numbered by the store's autoincrement id, and both the inline  *)
(* list and `outbox_rows` (ORDER BY id) are in that order, so a relay's    *)
(* list of rows still to visit is a set visited least id first.            *)
(***************************************************************************)
EXTENDS Integers, Sequences, FiniteSets

CONSTANTS
    Procs,       \* processes that boot a runtime on this store
    Operators,   \* the processes an operator redrives or abandons from
    HasAdapter,  \* the processes with the adapter an `ask` policy needs
    Prompt,      \* no reaction outlives STALLED_AFTER in a live process
    MaxRows,     \* bound: rows ever enqueued
    MaxFanout,   \* bound: rows one save enqueues
    MaxDepth,    \* bound: nested relay calls in one process
    MaxCrashes,  \* bound: process deaths
    MaxOps       \* bound: operator calls

ASSUME ConstantsAssumption ==
    /\ Operators \subseteq Procs
    /\ HasAdapter \subseteq Procs
    /\ Prompt \in BOOLEAN
    /\ MaxRows \in Nat /\ MaxFanout \in Nat /\ MaxDepth \in Nat
    /\ MaxCrashes \in Nat /\ MaxOps \in Nat

VARIABLES
    outbox,   \* the store's table: row id -> row
    stack,    \* per process, its relay calls, the innermost last
    up,       \* the processes running
    resets,   \* history: times an operator's redrive put a row back to pending
    warned,   \* rows some relay's log names as stalled
    crashes,  \* deaths so far
    ops       \* operator calls so far

vars == <<outbox, stack, up, resets, warned, crashes, ops>>

Rows == 1..MaxRows

Settled == {"delivered", "failed", "refused"}
Statuses == {"pending", "claimed"} \cup Settled

(* `old` stands for claimed_for >= STALLED_AFTER, `batch` for the save that *)
(* wrote the row (its first id), `ask` for a policy whose trigger needs an  *)
(* adapter.  A row not yet inserted is "absent".                            *)
Row == [status: Statuses \cup {"absent"}, attempts: Nat, old: BOOLEAN,
        batch: Nat, ask: BOOLEAN]
NoRow == [status |-> "absent", attempts |-> 0, old |-> FALSE,
          batch |-> 0, ask |-> FALSE]

(* A relay call.  Modes: deliver (the rows of a save, inline), pending and  *)
(* stalled (the two halves of redrive_store), abandon.  `force` is          *)
(* redrive!'s claimed: flag.  `at` is the step the least row of todo is at. *)
Frame == [mode: {"deliver", "pending", "stalled", "abandon"}, force: BOOLEAN,
          todo: SUBSET Rows, at: {"reset", "claim", "run", "ran"},
          attempt: Nat, outcome: Settled]

(* Mutant: rows visited newest first. *)
LastOf(r, S) == r \in S /\ \A s \in S : r >= s

(* ORDER BY id, which is the order Fanout.rows_for inserted the rows in. *)
FirstOf(r, S) == r \in S /\ \A s \in S : r <= s

Status(st) == {r \in Rows : outbox[r].status = st}

(* Mutant: every claim counts as stalled, however young. *)
StalledAnyAge == Status("claimed")

(* The id the store assigns next. *)
NextId(r) == r \in Status("absent") /\ \A s \in Status("absent") : r <= s

(* Row#stalled?: a claim whose age is past STALLED_AFTER. *)
Stalled == {r \in Status("claimed") : outbox[r].old}

(* Runnable#withheld?: a redriven ask this process has no adapter for. *)
Withheld(p, r) == outbox[r].ask /\ p \notin HasAdapter

----------------------------------------------------------------------------
Depth(p) == Len(stack[p])
Top(p) == stack[p][Depth(p)]
Push(p, f) == stack' = [stack EXCEPT ![p] = Append(@, f)]
Pop(p) == stack' = [stack EXCEPT ![p] = SubSeq(@, 1, Len(@) - 1)]
SetTop(p, f) == stack' = [stack EXCEPT ![p] = [@ EXCEPT ![Len(@)] = f]]

(* Where a call starts on a row: a stalled row is first put back to pending. *)
FirstStep(mode) == IF mode = "stalled" THEN "reset" ELSE "claim"

Call(mode, force, todo) ==
    [mode |-> mode, force |-> force, todo |-> todo, at |-> FirstStep(mode),
     attempt |-> 0, outcome |-> "failed"]

(* The call done with row r. *)
NextRow(f, r) == Call(f.mode, f.force, f.todo \ {r})

(* The innermost call of p is at this step of row r. *)
Working(p, r, at) ==
    /\ p \in up
    /\ stack[p] # << >>
    /\ FirstOf(r, Top(p).todo)
    /\ Top(p).at = at

(* A process free to dispatch: idle, or inside a consumer it is running. *)
MayDispatch(p) ==
    /\ p \in up
    /\ \/ stack[p] = << >>
       \/ Depth(p) <= MaxDepth /\ \E r \in Rows : Working(p, r, "run")

Idle(p) == p \in up /\ stack[p] = << >>

----------------------------------------------------------------------------
Init ==
    /\ outbox = [r \in Rows |-> NoRow]
    /\ stack = [p \in Procs |-> << >>]
    /\ up = Procs
    /\ resets = [r \in Rows |-> 0]
    /\ warned = {}
    /\ crashes = 0
    /\ ops = 0

(* Relay#enqueue inside the save's transaction, then Relay#deliver: the     *)
(* rows of every consumer appear together, and the dispatching process      *)
(* starts on them.                                                          *)
Enqueue(p, first, n, asks) ==
    LET new == first..(first + n - 1)
    IN  /\ MayDispatch(p)
        /\ NextId(first) /\ new \subseteq Rows
        /\ outbox' = [r \in Rows |->
                        IF r \in new
                        THEN [status |-> "pending", attempts |-> 0,
                              old |-> FALSE, batch |-> first,
                              ask |-> r - first + 1 \in asks]
                        ELSE outbox[r]]
        /\ Push(p, Call("deliver", FALSE, new))
        /\ UNCHANGED <<up, resets, warned, crashes, ops>>

(* Mutants: the claim without its status condition; one that reopens a     *)
(* closed row.                                                              *)
ClaimableAlways(r) == outbox[r].status \in {"pending", "claimed"}
ClaimableUnlessClaimed(r) == outbox[r].status # "claimed"

(* outbox_claim: UPDATE ... WHERE id = ? AND status = 'pending'. *)
Claimable(r) == outbox[r].status = "pending"

(* deliver_row won the claim; its consumer starts. *)
Claim(p, r) ==
    /\ Working(p, r, "claim") /\ Top(p).mode # "abandon"
    /\ ~(Top(p).mode = "pending" /\ Withheld(p, r))
    /\ Claimable(r)
    /\ outbox' = [outbox EXCEPT ![r].status = "claimed",
                                ![r].attempts = @ + 1, ![r].old = FALSE]
    /\ SetTop(p, [Top(p) EXCEPT !.at = "run", !.attempt = outbox[r].attempts + 1])
    /\ UNCHANGED <<up, resets, warned, crashes, ops>>

(* The claim is lost to another relay, or redrive_pending? withholds the row. *)
PassOver(p, r) ==
    /\ Working(p, r, "claim") /\ Top(p).mode # "abandon"
    /\ \/ Top(p).mode = "pending" /\ Withheld(p, r)
       \/ ~Claimable(r)
    /\ SetTop(p, NextRow(Top(p), r))
    /\ UNCHANGED <<outbox, up, resets, warned, crashes, ops>>

(* run_consumer returns (delivered or refused) or raises (failed). *)
RunConsumer(p, r, outcome) ==
    /\ Working(p, r, "run")
    /\ SetTop(p, [Top(p) EXCEPT !.at = "ran", !.outcome = outcome])
    /\ UNCHANGED <<outbox, up, resets, warned, crashes, ops>>

(* Mutant: no rescue around run_consumer, so a raise leaves the claim. *)
SettleUnlessRaised(p, r) ==
    /\ Working(p, r, "ran")
    /\ outbox' = IF Top(p).outcome = "failed" THEN outbox
                 ELSE [outbox EXCEPT ![r].status = Top(p).outcome]
    /\ SetTop(p, NextRow(Top(p), r))
    /\ UNCHANGED <<up, resets, warned, crashes, ops>>

(* outbox_settle writes the outcome whatever status the row holds. *)
Settle(p, r) ==
    /\ Working(p, r, "ran")
    /\ outbox' = [outbox EXCEPT ![r].status = Top(p).outcome]
    /\ SetTop(p, NextRow(Top(p), r))
    /\ UNCHANGED <<up, resets, warned, crashes, ops>>

(* Mutant: the stalled rows are reported only when they are redriven. *)
FinishSilently(p) ==
    LET f == Top(p) IN
    /\ p \in up /\ stack[p] # << >> /\ f.todo = {}
    /\ IF f.mode = "pending" /\ f.force
       THEN SetTop(p, Call("stalled", TRUE, Stalled)) /\ warned' = warned \cup Stalled
       ELSE Pop(p) /\ UNCHANGED warned
    /\ UNCHANGED <<outbox, up, resets, crashes, ops>>

(* A call with no row left.  redrive_store goes on from the pending rows to *)
(* the stalled ones it reads now, which it reports unless told claimed:.    *)
Finish(p) ==
    LET f == Top(p) IN
    /\ p \in up /\ stack[p] # << >> /\ f.todo = {}
    /\ IF f.mode = "pending" /\ f.force
       THEN SetTop(p, Call("stalled", TRUE, Stalled)) /\ UNCHANGED warned
       ELSE /\ Pop(p)
            /\ warned' = IF f.mode = "pending" THEN warned \cup Stalled ELSE warned
    /\ UNCHANGED <<outbox, up, resets, crashes, ops>>

(* redrive_claimed?: the unconditional settle back to pending, before the   *)
(* delivery; a withheld row is left claimed.                                *)
Reset(p, r) ==
    /\ Working(p, r, "reset")
    /\ IF Withheld(p, r)
       THEN SetTop(p, NextRow(Top(p), r)) /\ UNCHANGED <<outbox, resets>>
       ELSE /\ outbox' = [outbox EXCEPT ![r].status = "pending"]
            /\ resets' = [resets EXCEPT ![r] = @ + 1]
            /\ SetTop(p, [Top(p) EXCEPT !.at = "claim"])
    /\ UNCHANGED <<up, warned, crashes, ops>>

(* abandon: settled failed without running the consumer. *)
Abandon(p, r) ==
    /\ Working(p, r, "claim") /\ Top(p).mode = "abandon"
    /\ outbox' = [outbox EXCEPT ![r].status = "failed"]
    /\ SetTop(p, NextRow(Top(p), r))
    /\ UNCHANGED <<up, resets, warned, crashes, ops>>

(* An operator's redrive!(claimed: true). *)
OperatorRedrive(p) ==
    /\ p \in Operators /\ Idle(p) /\ ops < MaxOps
    /\ ops' = ops + 1
    /\ Push(p, Call("pending", TRUE, Status("pending")))
    /\ UNCHANGED <<outbox, up, resets, warned, crashes>>

(* redrive_row! and abandon_row!: stalled_row reads the one row, and raises *)
(* NotFound (nothing happens) unless it is claimed and stalled.             *)
OperatorRow(p, r, mode) ==
    /\ p \in Operators /\ Idle(p) /\ ops < MaxOps
    /\ r \in Stalled
    /\ ops' = ops + 1
    /\ Push(p, Call(mode, TRUE, {r}))
    /\ UNCHANGED <<outbox, up, resets, warned, crashes>>

(* A process dies with whatever it was doing. *)
Crash(p) ==
    /\ p \in up /\ crashes < MaxCrashes
    /\ up' = up \ {p}
    /\ crashes' = crashes + 1
    /\ stack' = [stack EXCEPT ![p] = << >>]
    /\ UNCHANGED <<outbox, resets, warned, ops>>

(* Mutant: a boot that redrives nothing. *)
BootOnly(p) ==
    /\ p \notin up
    /\ up' = up \cup {p}
    /\ Push(p, Call("pending", FALSE, {}))
    /\ UNCHANGED <<outbox, resets, warned, crashes, ops>>

(* Loader.boot: redrive_outbox! once the dispatcher exists.  A new process  *)
(* starts with an empty relay log, and reads the pending rows.              *)
Boot(p) ==
    /\ p \notin up
    /\ up' = up \cup {p}
    /\ Push(p, Call("pending", FALSE, Status("pending")))
    /\ UNCHANGED <<outbox, resets, warned, crashes, ops>>

Running(r) ==
    {pi \in {<<p, i>> : p \in up, i \in 1..(MaxDepth + 1)} :
        /\ pi[2] \in DOMAIN stack[pi[1]]
        /\ LET f == stack[pi[1]][pi[2]]
           IN  f.at \in {"run", "ran"} /\ FirstOf(r, f.todo)}

(* Time passes STALLED_AFTER over a claim.  With Prompt, a live reaction    *)
(* stays inside that ceiling, so only an orphaned claim gets that old.      *)
Age(r) ==
    /\ outbox[r].status = "claimed" /\ ~outbox[r].old
    /\ Prompt => Running(r) = {}
    /\ outbox' = [outbox EXCEPT ![r].old = TRUE]
    /\ UNCHANGED <<stack, up, resets, warned, crashes, ops>>

Relay(p) ==
    \/ Finish(p)
    \/ \E r \in Rows :
         \/ Claim(p, r) \/ PassOver(p, r) \/ Settle(p, r)
         \/ Reset(p, r) \/ Abandon(p, r)
         \/ \E o \in Settled : RunConsumer(p, r, o)

Next ==
    \/ \E p \in Procs :
         \/ Relay(p)
         \/ \E first \in Rows, n \in 1..MaxFanout :
                \E asks \in SUBSET (1..n) : Enqueue(p, first, n, asks)
         \/ OperatorRedrive(p)
         \/ \E r \in Rows, mode \in {"stalled", "abandon"} : OperatorRow(p, r, mode)
         \/ Crash(p)
         \/ Boot(p)
    \/ \E r \in Rows : Age(r)

(* A live relay keeps going, a dead process is started again, and time passes. *)
Fairness ==
    /\ \A p \in Procs : WF_vars(Relay(p)) /\ WF_vars(Boot(p))
    /\ \A r \in Rows : WF_vars(Age(r))

Spec == Init /\ [][Next]_vars
LiveSpec == Spec /\ Fairness

----------------------------------------------------------------------------
(* The rows, the relays' calls and the counters keep their types: no store  *)
(* holds a status outside Outbox::STATUSES.                                 *)
TypeOK ==
    /\ outbox \in [Rows -> Row]
    /\ stack \in [Procs -> Seq(Frame)]
    /\ up \subseteq Procs
    /\ resets \in [Rows -> Nat]
    /\ warned \subseteq Rows
    /\ crashes \in 0..MaxCrashes
    /\ ops \in 0..MaxOps

(* At most once per arming: a row's consumer is started once for the save   *)
(* that enqueued it and at most once more for each time an operator put the *)
(* row back, however many relays, boots and crashes race for it.            *)
ClaimsBounded ==
    \A r \in Rows : outbox[r].attempts <= 1 + resets[r]

(* A relay inside a consumer still holds the claim it won: no redrive has   *)
(* taken the row from under it, so the outcome it settles is its own and no *)
(* second relay runs the same attempt.                                      *)
RunnerHoldsClaim ==
    \A p \in up, r \in Rows : \A i \in DOMAIN stack[p] :
        LET f == stack[p][i] IN
        (FirstOf(r, f.todo) /\ f.at \in {"run", "ran"}) =>
            outbox[r].status = "claimed" /\ outbox[r].attempts = f.attempt

(* Consumers of one save start in the order Fanout listed them (policies,   *)
(* then sagas), whoever starts them: a later row is never started while an  *)
(* earlier one has not been, unless the earlier one was withheld.           *)
StartsInOrder ==
    \A i, j \in Rows :
        (/\ i < j /\ outbox[i].batch = outbox[j].batch
         /\ outbox[j].attempts > 0)
        => outbox[i].attempts > 0 \/ outbox[i].ask

(* Without a death, a claimed row is always one that a live relay is        *)
(* running: no path through deliver_row drops a claim it won.               *)
NoOrphanWithoutCrash ==
    crashes = 0 =>
        \A r \in Rows : outbox[r].status = "claimed" => Cardinality(Running(r)) = 1

(* An owed reaction is never lost: a pending row that any process can run   *)
(* does not stay pending, crashes between commit and delivery included.     *)
PendingStarts ==
    \A r \in Rows : (outbox[r].status = "pending" /\ ~outbox[r].ask)
                        ~> outbox[r].status # "pending"

(* What the store promises about a row, stated without relays.             *)
Promise == INSTANCE OutboxPromise WITH
    debt <- [r \in Rows |->
               CASE outbox[r].status = "absent"  -> "none"
                 [] outbox[r].status = "pending" -> "owed"
                 [] outbox[r].status = "claimed" -> "started"
                 [] OTHER                        -> "closed"]

(* The relays implement that promise: an owed reaction starts once, a       *)
(* closed one is never reopened, and only a started one is put back.        *)
KeepsPromise == Promise!Spec

(* The guide on process managers: a crash inside a consumer leaves its row  *)
(* claimed, and the next boot warns about it.  What the code keeps of that: *)
(* an orphaned claim already past STALLED_AFTER while some process is down  *)
(* is named by a boot, or redriven or abandoned, even if that boot dies.    *)
OldOrphanSurfaces ==
    \A r \in Rows :
        (r \in Stalled /\ up # Procs)
            ~> (outbox[r].status # "claimed" \/ r \in warned)
=============================================================================
