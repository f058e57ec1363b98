-------------------------- MODULE CommandDispatch ---------------------------
(***************************************************************************)
(* Concurrent dispatches at one record (CommandInterpreter#call) over the  *)
(* append-then-project repository (Ports::Persistence::AppendOnly).        *)
(*                                                                         *)
(* Each worker carries one command: it hydrates the record, evaluates the  *)
(* command's givens on what it read, appends a journal entry and projects  *)
(* it onto the record's row.  What keeps two workers apart depends on the  *)
(* store: Postgres compares the row's version on the write and the whole   *)
(* dispatch is retried; Sqlite and Heki hold a Mutex of the process by     *)
(* lock key; PostgresEra holds a write lock of the database.  A process    *)
(* may die, and a boot replays the journal (recover!).                     *)
(*                                                                         *)
(* The row's state is the set of commands whose effect it carries, {} when *)
(* there is no row; no command deletes a record.                           *)
(***************************************************************************)
EXTENDS Integers, FiniteSets

CONSTANTS
    Workers,     \* dispatches, one command each
    Seed,        \* the command that created the record, when it exists at first
    Stores,      \* the stores considered, of AllStores
    Kinds,       \* the assignments of kinds to workers considered
    LockKeys,    \* the assignments of lock keys to workers considered
    Keys,        \* lock keys (Identity.best_effort)
    Bars,        \* per worker, the effects its givens refuse
    Retries,     \* MAX_STALE_WRITE_RETRIES
    Alongside,   \* a process may boot on Postgres while others dispatch
    MaxCrashes,  \* bound: process deaths
    MaxBoots     \* bound: boots of further processes

AllStores == {"Postgres", "PostgresEra", "Sqlite", "Heki"}

(* act: reads the record and writes what it makes of it.  blind: acts on a   *)
(* record that must exist, and states all of it.  put: creates, reads        *)
(* nothing.  create: creates, and its plan reads prior state.                *)
AllKinds == {"act", "blind", "put", "create"}

ASSUME DispatchAssumption ==
    /\ Seed \notin Workers
    /\ Stores \subseteq AllStores
    /\ Kinds \subseteq [Workers -> AllKinds]
    /\ LockKeys \subseteq [Workers -> Keys]
    /\ Bars \in [Workers -> SUBSET (Workers \cup {Seed})]
    /\ Retries \in Nat \ {0}
    /\ Alongside \in BOOLEAN
    /\ MaxCrashes \in Nat /\ MaxBoots \in Nat

(* Two commands at one record resolve the same lock key. *)
OneKey == \A k \in LockKeys : \A v, w \in Workers : k[v] = k[w]

VARIABLES
    store, kind, key,  \* the setting: chosen once
    row,         \* the projected table's row: its hecks_version and state
    journal,     \* the committed entries
    checkpoint,  \* hecks_checkpoints.last_sequence
    sequence,    \* the last sequence handed out; a rollback keeps it
    pc,          \* per worker, the dispatch step it has reached
    seen,        \* per worker, the row its attempt hydrated
    mine,        \* per worker, the sequence its attempt's append was given
    tries,       \* per worker, the attempts that ended in StaleWrite
    answer,      \* per worker, what its caller was told
    held,        \* per lock key, the workers holding it
    boot,        \* the booting process: its step, and the entries to replay
    crashes, boots

setting == <<store, kind, key>>
durable == <<row, journal, checkpoint, sequence>>
working == <<pc, seen, mine, tries, answer, held>>
vars == <<store, kind, key, row, journal, checkpoint, sequence,
          pc, seen, mine, tries, answer, held, boot, crashes, boots>>

States == SUBSET (Workers \cup {Seed})
Versioned == [ver: Nat, val: States]
Entry == [seq: Nat, val: States, by: Workers \cup {Seed}]
Outcomes == {"none", "done", "refused", "stale"}

InFlight == {"begun", "hydrated", "checked", "appended"}
Steps == {"idle", "answered", "dead"} \cup InFlight

----------------------------------------------------------------------------
(* The capabilities each adapter declares. *)
Cas == store = "Postgres"
AtomicPut == store # "Heki"
Transactional == store # "Heki"
OneProcess == store \in {"Sqlite", "Heki"}
Checkpointed == store \in {"Postgres", "Sqlite"}

(* The commands whose strategy is ATOMIC_PUT. *)
Puts(w) == kind[w] \in {"put", "blind"} /\ AtomicPut
Creates(w) == kind[w] \in {"put", "create"}

Serving == boot.at = "idle" \/ (store = "Postgres" /\ Alongside)
At(w, step) == pc[w] = step
Goto(w, step) == pc' = [pc EXCEPT ![w] = step]

Release(w) == held' = [k \in Keys |-> held[k] \ {w}]

Tell(w, outcome) ==
    /\ Goto(w, "answered")
    /\ answer' = [answer EXCEPT ![w] = outcome]
    /\ Release(w)

(* Mutant: the Mutex is not released when the dispatch raises. *)
RefusedHolding(w) ==
    /\ Goto(w, "answered")
    /\ answer' = [answer EXCEPT ![w] = "refused"]
    /\ UNCHANGED held

(* A refusal unwinds the dispatch. *)
Refused(w) == Tell(w, "refused")

----------------------------------------------------------------------------
Init ==
    /\ store \in Stores /\ kind \in Kinds /\ key \in LockKeys
    /\ \/ /\ row = [ver |-> 0, val |-> {}] /\ journal = {} /\ sequence = 0
       \/ /\ row = [ver |-> 1, val |-> {Seed}] /\ sequence = 1
          /\ journal = {[seq |-> 1, val |-> {Seed}, by |-> Seed]}
    /\ checkpoint = sequence
    /\ pc = [w \in Workers |-> "idle"]
    /\ seen = [w \in Workers |-> row]
    /\ mine = [w \in Workers |-> 0]
    /\ tries = [w \in Workers |-> 0]
    /\ answer = [w \in Workers |-> "none"]
    /\ held = [k \in Keys |-> {}]
    /\ boot = [at |-> "idle", from |-> 0, todo |-> {}]
    /\ crashes = 0 /\ boots = 0

(* run_dispatch_order_with_isolation: no lock where the write is compared,   *)
(* else the lock of this command's key.  PostgresEra's is one for the table. *)
Isolated(w) ==
    IF Cas THEN UNCHANGED held
    ELSE IF store = "PostgresEra"
    THEN /\ \A k \in Keys : held[k] = {}
         /\ held' = [k \in Keys |-> {w}]
    ELSE /\ held[key[w]] = {}
         /\ held' = [held EXCEPT ![key[w]] = {w}]

(* A caller's command reaches dispatch_once. *)
Begin(w) ==
    /\ At(w, "idle") /\ Serving
    /\ Isolated(w)
    /\ Goto(w, "begun")
    /\ UNCHANGED <<setting, durable, seen, mine, tries, answer, boot, crashes, boots>>

(* hydrate_for, then enforce_givens: an occupied identity (AlreadyExists), a *)
(* missing record (NotFound) or an unmet given (GivenNotMet) refuses.  A     *)
(* creating atomic put looks nothing up.                                     *)
Admits(w) ==
    IF Creates(w) THEN Puts(w) \/ row.ver = 0
    ELSE row.ver # 0 /\ (kind[w] = "act" => row.val \cap Bars[w] = {})

Hydrate(w) ==
    /\ At(w, "begun")
    /\ seen' = [seen EXCEPT ![w] = row]
    /\ IF Admits(w)
       THEN Goto(w, "hydrated") /\ UNCHANGED <<answer, held>>
       ELSE Refused(w)
    /\ UNCHANGED <<setting, durable, mine, tries, boot, crashes, boots>>

(* Mutant: no advisory lock around the existence check. *)
AdvisoryNever(w) == TRUE

(* pg_advisory_xact_lock on the identity, held to the end of the transaction. *)
Advisory(w) == \A v \in Workers \ {w} : ~(Puts(v) /\ pc[v] \in {"checked", "appended"})

(* put_entry up to its existence check; a conflict raises AlreadyExists. *)
PutCheck(w) ==
    /\ At(w, "hydrated") /\ Puts(w) /\ Advisory(w)
    /\ IF kind[w] = "put" /\ row.ver # 0
       THEN Refused(w)
       ELSE Goto(w, "checked") /\ UNCHANGED <<answer, held>>
    /\ UNCHANGED <<setting, durable, seen, mine, tries, boot, crashes, boots>>

(* The state the attempt built from what it hydrated. *)
Built(w) == IF kind[w] = "act" THEN seen[w].val \cup {w} ELSE {w}
EntryOf(w, n) == [seq |-> n, val |-> Built(w), by |-> w]

(* append: the entry takes the next sequence.  Heki has no transaction, so   *)
(* its fsynced line is durable at once.                                      *)
Append(w) ==
    /\ At(w, IF Puts(w) THEN "checked" ELSE "hydrated")
    /\ sequence' = sequence + 1
    /\ mine' = [mine EXCEPT ![w] = sequence + 1]
    /\ journal' = IF Transactional THEN journal
                  ELSE journal \cup {EntryOf(w, sequence + 1)}
    /\ Goto(w, "appended")
    /\ UNCHANGED <<setting, row, checkpoint, seen, tries, answer, held, boot, crashes, boots>>

(* Mutant: the checkpoint lets an older sequence win. *)
CheckpointSet(s) == s

Max2(a, b) == IF a >= b THEN a ELSE b

(* project's guard: expected_version is the version hydrated, and nil for a  *)
(* record the dispatch built; atomic_put passes none.                        *)
Stale(w) == Cas /\ kind[w] = "act" /\ row.ver # seen[w].ver

(* advance_checkpoint!: GREATEST, never backwards. *)
Checkpoint(s) == IF Checkpointed THEN Max2(checkpoint, s) ELSE checkpoint

(* project and commit.  advance_checkpoint! locks the table's checkpoint row *)
(* until the transaction ends, so projections commit one at a time.          *)
Commit(w) ==
    /\ At(w, "appended") /\ ~Stale(w)
    /\ row' = [ver |-> row.ver + 1, val |-> Built(w)]
    /\ journal' = journal \cup {EntryOf(w, mine[w])}
    /\ checkpoint' = Checkpoint(mine[w])
    /\ Tell(w, "done")
    /\ UNCHANGED <<setting, sequence, seen, mine, tries, boot, crashes, boots>>

(* Mutant: only the save is retried, against the version now in the row. *)
RetrySave(w) ==
    /\ Goto(w, "hydrated") /\ UNCHANGED <<answer, held>>
    /\ seen' = [seen EXCEPT ![w].ver = row.ver]

(* A StaleWrite retries the whole dispatch, hydration included. *)
Retry(w) == Goto(w, "begun") /\ UNCHANGED <<seen, answer, held>>

(* A stale outcome rolls the transaction back; the last attempt re-raises.   *)
LoseRace(w) ==
    /\ At(w, "appended") /\ Stale(w)
    /\ tries' = [tries EXCEPT ![w] = @ + 1]
    /\ IF tries[w] + 1 < Retries
       THEN Retry(w)
       ELSE Tell(w, "stale") /\ UNCHANGED seen
    /\ UNCHANGED <<setting, durable, mine, boot, crashes, boots>>

----------------------------------------------------------------------------
(* The process of one dispatch dies; its transaction and locks go with it.   *)
Die(w) ==
    /\ ~OneProcess /\ pc[w] \in InFlight /\ crashes < MaxCrashes
    /\ Goto(w, "dead") /\ Release(w)
    /\ crashes' = crashes + 1
    /\ UNCHANGED <<setting, durable, seen, mine, tries, answer, boot, boots>>

(* The one process of the store dies with every dispatch in it, and starts   *)
(* again: its repository recovers before it serves.                          *)
Restart ==
    /\ OneProcess /\ crashes < MaxCrashes
    /\ crashes' = crashes + 1
    /\ pc' = [w \in Workers |-> IF pc[w] \in InFlight THEN "dead" ELSE pc[w]]
    /\ held' = [k \in Keys |-> {}]
    /\ boot' = [at |-> "checkpoint", from |-> 0, todo |-> {}]
    /\ UNCHANGED <<setting, durable, seen, mine, tries, answer, boots>>

(* Another process boots on Postgres; PostgresEra's repository is not        *)
(* recovered.                                                                *)
BootAnother ==
    /\ store = "Postgres" /\ boot.at = "idle" /\ boots < MaxBoots
    /\ Alongside \/ \A w \in Workers : pc[w] \notin InFlight
    /\ boots' = boots + 1
    /\ boot' = [at |-> "checkpoint", from |-> 0, todo |-> {}]
    /\ UNCHANGED <<setting, durable, working, crashes>>

(* recover!: the checkpoint, then the entries past it, are two reads.  Heki  *)
(* reads every entry.                                                        *)
ReadCheckpoint ==
    /\ boot.at = "checkpoint"
    /\ boot' = [at |-> "entries", from |-> IF Checkpointed THEN checkpoint ELSE 0,
                todo |-> {}]
    /\ UNCHANGED <<setting, durable, working, crashes, boots>>

(* Mutant: recovery starts one entry late. *)
PastSkipping(from) == {e \in journal : e.seq > from + 1}

Past(from) == {e \in journal : e.seq > from}

ReadEntries ==
    /\ boot.at = "entries"
    /\ boot' = [boot EXCEPT !.at = "replay", !.todo = Past(boot.from)]
    /\ UNCHANGED <<setting, durable, working, crashes, boots>>

(* project(entry) for each in order, unconditionally. *)
Replay(e) ==
    /\ boot.at = "replay" /\ e \in boot.todo
    /\ \A d \in boot.todo : e.seq <= d.seq
    /\ row' = [ver |-> row.ver + 1, val |-> e.val]
    /\ checkpoint' = Checkpoint(e.seq)
    /\ boot' = [boot EXCEPT !.todo = @ \ {e}]
    /\ UNCHANGED <<setting, journal, sequence, working, crashes, boots>>

Recovered ==
    /\ boot.at = "replay" /\ boot.todo = {}
    /\ boot' = [at |-> "idle", from |-> 0, todo |-> {}]
    /\ UNCHANGED <<setting, durable, working, crashes, boots>>

Dispatch(w) ==
    \/ Begin(w) \/ Hydrate(w) \/ PutCheck(w)
    \/ Append(w) \/ Commit(w) \/ LoseRace(w)

Recover ==
    \/ ReadCheckpoint \/ ReadEntries \/ Recovered
    \/ \E e \in boot.todo : Replay(e)

Next ==
    \/ \E w \in Workers : Dispatch(w) \/ Die(w)
    \/ Restart \/ BootAnother \/ Recover

(* A thread the scheduler runs keeps going, and a boot finishes. *)
Fairness == WF_vars(Recover) /\ \A w \in Workers : WF_vars(Dispatch(w))

Spec == Init /\ [][Next]_vars
LiveSpec == Spec /\ Fairness

----------------------------------------------------------------------------
(* The row, the journal and every worker's dispatch keep their types.       *)
TypeOK ==
    /\ store \in AllStores /\ kind \in [Workers -> AllKinds]
    /\ key \in [Workers -> Keys]
    /\ row \in Versioned
    /\ journal \subseteq Entry
    /\ checkpoint \in Nat /\ sequence \in Nat
    /\ pc \in [Workers -> Steps]
    /\ seen \in [Workers -> Versioned]
    /\ mine \in [Workers -> Nat]
    /\ tries \in [Workers -> Nat]
    /\ answer \in [Workers -> Outcomes]
    /\ held \in [Keys -> SUBSET Workers]
    /\ boot \in [at: {"idle", "checkpoint", "entries", "replay"},
                 from: Nat, todo: SUBSET Entry]
    /\ crashes \in Nat /\ boots \in Nat

(* ADR 0035: a state-dependent command commits against the very state its   *)
(* givens were evaluated on.  Whoever else wrote, died or recovered since,  *)
(* the row a done `act` replaces is the row it hydrated.                    *)
CommitsOnWhatItRead ==
    [][\A w \in Workers :
          (kind[w] = "act" /\ answer[w] # "done" /\ answer'[w] = "done")
              => row.val = seen[w].val /\ row'.val = row.val \cup {w}]_vars

(* The newest entry is what the journal says the record is. *)
JournalState ==
    IF journal = {} THEN {}
    ELSE (CHOOSE e \in journal : \A d \in journal : d.seq <= e.seq).val

(* The record a caller can rely on: Heki's is its fsynced journal.          *)
Promised == INSTANCE AtomicRecord WITH
    record <- IF Transactional THEN row.val ELSE JournalState,
    outcome <- [w \in Workers |->
                  IF \E e \in journal : e.by = w THEN "done" ELSE answer[w]]

(* Dispatch is linearizable on every store: each command takes effect at    *)
(* one instant or not at all, and every refusal was true when it was made.  *)
Linearizable == Promised!Spec

(* AppendOnly#recover!: the projected table never falls behind its journal. *)
(* Once no projection is pending, the row is what the newest entry says.  A *)
(* blind put on Postgres is left out: it takes its sequence before it waits *)
(* for the row.                                                             *)
JournalAgrees ==
    \/ Cas /\ \E w \in Workers : kind[w] = "blind"
    \/ boot.at # "idle" \/ (~Transactional /\ \E w \in Workers : pc[w] = "appended")
    \/ row.val = JournalState

(* What bounds recover!: no committed entry is past the checkpoint, so a    *)
(* boot of Postgres or Sqlite has nothing to replay.                        *)
CheckpointCovers ==
    Checkpointed => \A e \in journal : e.seq <= checkpoint

(* Every command called ends: its caller is answered, or its process died.  *)
(* No refusal, retry or death leaves a lock behind that others wait for.    *)
Answered ==
    \A w \in Workers : <>(pc[w] \in {"answered", "dead"})
=============================================================================
