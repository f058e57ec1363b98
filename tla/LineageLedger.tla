---------------------------- MODULE LineageLedger ---------------------------
(***************************************************************************)
(* The Rust host's lineage journal of one domain, its heads and its seals: *)
(* rust/host/src/store/postgres.rs, journal_sql.rs and ledger.rs.          *)
(*                                                                         *)
(* Host processes run transactions over one Postgres database.  A dispatch *)
(* commits under the domain's journal lock; put_head and amend_head run    *)
(* under the domain's ordinal lock.  Each takes ordinals from one sequence *)
(* as it goes, and its rows become visible at its commit.  A dispatch may  *)
(* seal the journal inside its commit (seal_due); an operator seals it     *)
(* from a connection of its own (seal), and verify walks the seals.        *)
(*                                                                         *)
(* A row is its ordinal and the record it is about, and a record's head is *)
(* the ordinal of the row it shows, 0 before there is one.  A digest is    *)
(* the set of the ordinals folded into it: rows are never rewritten and    *)
(* are folded in order, so two folds agree exactly when they took the same *)
(* rows.                                                                   *)
(***************************************************************************)
EXTENDS Integers, FiniteSets

CONSTANTS
    Hosts,       \* host processes, one connection each
    Ids,         \* records with a head
    Settings,    \* what this deployment runs, of AllSettings
    MaxOrdinal,  \* bound: ordinals taken
    MaxAborts    \* bound: transactions that end without a commit

AllKinds == {"dispatch", "put", "amend"}

(* kinds: the transactions the hosts run.  every: seal_every, 0 to seal only *)
(* by hand.  operators: the `ledger seal` invocations at once.               *)
AllSettings == [kinds: SUBSET AllKinds, every: Nat, operators: SUBSET {"o1", "o2"}]

ASSUME LedgerAssumption ==
    /\ Settings \subseteq AllSettings
    /\ MaxOrdinal \in Nat /\ MaxAborts \in Nat

None == "none"
ASSUME NoneAssumption == None \notin Hosts

VARIABLES
    setting,   \* chosen once
    sequence,  \* the last ordinal the journal's sequence handed out
    rows,      \* the committed journal rows
    head,      \* per record, the ordinal its head snapshot holds
    anchors,   \* the committed seals
    lock,      \* per advisory lock, the transaction's host or None
    rowlock,   \* per record, the host whose open transaction upserted it
    pc,        \* per host, the step of its transaction
    kind,      \* per host, what its transaction is
    mine,      \* per host, its uncommitted rows
    staged,    \* per host and record, the head its transaction leaves
    saw,       \* per host, the heads an amendment decided on
    due,       \* per host and operator, the last seal it read, and its end
    seal,      \* per host, the seal staged in its commit
    op,        \* per operator, the step of its seal
    aborts

vars == <<setting, sequence, rows, head, anchors, lock, rowlock, pc, kind,
          mine, staged, saw, due, seal, op, aborts>>

Locks == {"journal", "ordinal"}
Operators == {"o1", "o2"}
Genesis == {}
NoHeads == [i \in Ids |-> 0]

----------------------------------------------------------------------------
(* page, fold: the digest after the visible rows in (after, through]. *)
Fold(visible, seed, after, through) ==
    seed \cup {n \in {r.ord : r \in visible} : after < n /\ n <= through}

(* The last of the seals, or the chain's start. *)
LastSeals ==
    IF anchors = {} THEN {[through |-> 0, head |-> Genesis]}
    ELSE {[through |-> a.through, head |-> a.head] :
             a \in {b \in anchors : \A c \in anchors : c.through <= b.through}}

(* last_ordinal: the highest of the ordinals a transaction sees. *)
Ends(visible) ==
    {n \in {r.ord : r \in visible} \cup {0} : \A r \in visible : r.ord <= n}

SealOf(visible, last, end) ==
    [through |-> end, previous |-> last.head,
     head |-> Fold(visible, last.head, last.through, end)]

Sealed(through) == \E a \in anchors : a.through = through

(* verify: each seal follows the one before it and matches the journal. *)
Verified ==
    \A a \in anchors :
       LET before == {b \in anchors : b.through < a.through}
       IN  /\ before = {} => /\ a.previous = Genesis
                             /\ a.head = Fold(rows, Genesis, 0, a.through)
           /\ \A b \in before : (\A c \in before : c.through <= b.through) =>
                 /\ a.previous = b.head
                 /\ a.head = Fold(rows, b.head, b.through, a.through)

----------------------------------------------------------------------------
(* Mutant: put_head and amend_head take no lock. *)
LockOfDispatchOnly(k) == IF k = "dispatch" THEN {"journal"} ELSE {}

(* The advisory lock each transaction takes first. *)
LockOf(k) == IF k = "dispatch" THEN {"journal"} ELSE {"ordinal"}

(* Mutant: the rows a transaction upserted stay locked after it. *)
ReleaseKeepingRows(h) ==
    /\ lock' = [l \in Locks |-> IF lock[l] = h THEN None ELSE lock[l]]
    /\ pc' = [pc EXCEPT ![h] = "idle"]
    /\ mine' = [mine EXCEPT ![h] = {}]
    /\ staged' = [staged EXCEPT ![h] = NoHeads]
    /\ saw' = [saw EXCEPT ![h] = NoHeads]
    /\ seal' = [seal EXCEPT ![h] = {}]
    /\ UNCHANGED rowlock

(* The end of a transaction: its advisory and row locks are released. *)
Release(h) ==
    /\ lock' = [l \in Locks |-> IF lock[l] = h THEN None ELSE lock[l]]
    /\ rowlock' = [i \in Ids |-> IF rowlock[i] = h THEN None ELSE rowlock[i]]
    /\ pc' = [pc EXCEPT ![h] = "idle"]
    /\ mine' = [mine EXCEPT ![h] = {}]
    /\ staged' = [staged EXCEPT ![h] = NoHeads]
    /\ saw' = [saw EXCEPT ![h] = NoHeads]
    /\ seal' = [seal EXCEPT ![h] = {}]

Init ==
    /\ setting \in Settings
    /\ sequence = 0 /\ rows = {} /\ head = NoHeads /\ anchors = {}
    /\ lock = [l \in Locks |-> None] /\ rowlock = [i \in Ids |-> None]
    /\ pc = [h \in Hosts |-> "idle"] /\ kind = [h \in Hosts |-> "put"]
    /\ mine = [h \in Hosts |-> {}] /\ staged = [h \in Hosts |-> NoHeads]
    /\ saw = [h \in Hosts |-> NoHeads]
    /\ due = [x \in Hosts \cup Operators |-> [through |-> 0, head |-> Genesis]]
    /\ seal = [h \in Hosts |-> {}]
    /\ op = [o \in Operators |-> "idle"]
    /\ aborts = 0

(* BEGIN and the advisory lock.  An amendment then reads every head. *)
Begin(h, k) ==
    /\ pc[h] = "idle" /\ k \in setting.kinds
    /\ sequence < MaxOrdinal
    /\ \A l \in LockOf(k) : lock[l] = None
    /\ lock' = [l \in Locks |-> IF l \in LockOf(k) THEN h ELSE lock[l]]
    /\ pc' = [pc EXCEPT ![h] = "open"]
    /\ kind' = [kind EXCEPT ![h] = k]
    /\ saw' = [saw EXCEPT ![h] = IF k = "amend" THEN head ELSE NoHeads]
    /\ UNCHANGED <<setting, sequence, rows, head, anchors, rowlock, mine,
                   staged, due, seal, op, aborts>>

(* append_lineage_mutation, its INSERT: the row takes the next ordinal.  Only *)
(* a dispatch writes more than one row.                                       *)
Append(h, i) ==
    /\ pc[h] = "open" /\ sequence < MaxOrdinal
    /\ kind[h] = "dispatch" \/ mine[h] = {}
    /\ sequence' = sequence + 1
    /\ mine' = [mine EXCEPT ![h] = @ \cup {[ord |-> sequence + 1, id |-> i]}]
    /\ pc' = [pc EXCEPT ![h] = "appended"]
    /\ UNCHANGED <<setting, rows, head, anchors, lock, rowlock, kind, staged,
                   saw, due, seal, op, aborts>>

(* Mutant: the upsert replaces whatever head it finds. *)
NewerAlways(held, ord) == TRUE

(* WHERE snap.ordinal < EXCLUDED.ordinal. *)
Newer(held, ord) == held < ord

(* append_lineage_mutation, its head upsert: it waits for a transaction that  *)
(* upserted the record and is still open.                                     *)
Upsert(h) ==
    /\ pc[h] = "appended"
    /\ \E r \in mine[h] :
          /\ \A s \in mine[h] : s.ord <= r.ord
          /\ rowlock[r.id] \in {None, h}
          /\ rowlock' = [rowlock EXCEPT ![r.id] = h]
          /\ staged' = [staged EXCEPT ![h][r.id] =
                LET held == IF @ # 0 THEN @ ELSE head[r.id]
                IN  IF Newer(held, r.ord) THEN r.ord ELSE held]
    /\ pc' = [pc EXCEPT ![h] = "open"]
    /\ UNCHANGED <<setting, sequence, rows, head, anchors, lock, kind, mine,
                   saw, due, seal, op, aborts>>

(* The mutations are written, if a dispatch has any: a dispatch with an      *)
(* interval reads the seals.                                                 *)
Written(h) ==
    /\ pc[h] = "open"
    /\ kind[h] = "dispatch" \/ mine[h] # {}
    /\ IF kind[h] = "dispatch" /\ setting.every > 0
       THEN /\ pc' = [pc EXCEPT ![h] = "sealing"]
            /\ \E last \in LastSeals : due' = [due EXCEPT ![h] = last]
       ELSE pc' = [pc EXCEPT ![h] = "ready"] /\ UNCHANGED due
    /\ UNCHANGED <<setting, sequence, rows, head, anchors, lock, rowlock, kind,
                   mine, staged, saw, seal, op, aborts>>

(* What the host's open transaction sees. *)
Visible(h) == rows \cup mine[h]

(* seal_due: staged in the transaction once enough rows lie past the last    *)
(* seal.  A seal through the same ordinal refuses the insert, and the        *)
(* transaction with it (Abort).                                              *)
SealDue(h) ==
    /\ pc[h] = "sealing"
    /\ \E end \in Ends(Visible(h)) :
          IF end - due[h].through < setting.every THEN UNCHANGED seal
          ELSE /\ ~Sealed(end)
               /\ seal' = [seal EXCEPT ![h] = {SealOf(Visible(h), due[h], end)}]
    /\ pc' = [pc EXCEPT ![h] = "ready"]
    /\ UNCHANGED <<setting, sequence, rows, head, anchors, lock, rowlock, kind,
                   mine, staged, saw, due, op, aborts>>

(* COMMIT: everything the transaction wrote becomes visible at once. *)
Commit(h) ==
    /\ pc[h] = "ready"
    /\ rows' = rows \cup mine[h]
    /\ head' = [i \in Ids |-> IF staged[h][i] # 0 THEN staged[h][i] ELSE head[i]]
    /\ anchors' = anchors \cup seal[h]
    /\ Release(h)
    /\ UNCHANGED <<setting, sequence, kind, due, op, aborts>>

(* A refusal, an error, a death, or an amendment that decides to write       *)
(* nothing: the transaction is rolled back and its ordinals are spent.       *)
Abort(h) ==
    /\ pc[h] # "idle" /\ aborts < MaxAborts
    /\ aborts' = aborts + 1
    /\ Release(h)
    /\ UNCHANGED <<setting, sequence, rows, head, anchors, kind, due, op>>

----------------------------------------------------------------------------
(* seal, by an operator: the seals are read first. *)
OpRead(o) ==
    /\ op[o] = "idle" /\ o \in setting.operators
    /\ \E last \in LastSeals : due' = [due EXCEPT ![o] = last]
    /\ op' = [op EXCEPT ![o] = "read"]
    /\ UNCHANGED <<setting, sequence, rows, head, anchors, lock, rowlock, pc,
                   kind, mine, staged, saw, seal, aborts>>

(* settled_end's lock: no writer under the ordinal lock is in flight. *)
Settled == lock["ordinal"] = None

(* settled_end, extend: the rows up to the end are folded onto the seal read *)
(* first, unless nothing was appended or that end is already sealed.  The    *)
(* code reads the end, folds and inserts in separate statements; the rows up *)
(* to a settled end no longer change, and no other seal comes in between     *)
(* where the operator is the only sealer.                                    *)
OpSeal(o) ==
    /\ op[o] = "read" /\ Settled
    /\ \E end \in Ends(rows) :
          IF end <= due[o].through \/ Sealed(end) THEN UNCHANGED anchors
          ELSE anchors' = anchors \cup {SealOf(rows, due[o], end)}
    /\ op' = [op EXCEPT ![o] = "idle"]
    /\ UNCHANGED <<setting, sequence, rows, head, lock, rowlock, pc, kind, mine,
                   staged, saw, due, seal, aborts>>

HostStep(h) ==
    \/ \E k \in AllKinds : Begin(h, k)
    \/ \E i \in Ids : Append(h, i)
    \/ Upsert(h) \/ Written(h) \/ SealDue(h) \/ Commit(h) \/ Abort(h)

Next ==
    \/ \E h \in Hosts : HostStep(h)
    \/ \E o \in Operators : OpRead(o) \/ OpSeal(o)

(* A transaction that has begun goes on: its statements are sent one after   *)
(* another, and Postgres answers or ends the connection.                     *)
GoesOn(h) == Upsert(h) \/ Written(h) \/ SealDue(h) \/ Commit(h)

Spec == Init /\ [][Next]_vars
FairSpec == Spec /\ \A h \in Hosts : SF_vars(GoesOn(h))

----------------------------------------------------------------------------
(* verify never reports a journal nobody rewrote: every seal still matches  *)
(* the rows it covers and follows the seal before it, whatever was in       *)
(* flight when it was taken (ledger.rs, seal, seal_due, verify).            *)
SealsVerify == Verified

(* A head shows the newest committed row of its record, whichever order the *)
(* transactions took their ordinals and committed in: the upsert never      *)
(* regresses on a reordered write (journal_sql.rs, append_lineage_mutation).*)
HeadIsLatest ==
    \A i \in Ids :
       /\ \A r \in rows : r.id = i => r.ord <= head[i]
       /\ head[i] # 0 => [ord |-> head[i], id |-> i] \in rows

(* An amendment replaces the heads it decided on: no other writer of the    *)
(* domain's heads commits between its read and its write (amend_head).      *)
AmendsWhatItRead ==
    [][\A h \in Hosts : Commit(h) /\ kind[h] = "amend" => head = saw[h]]_vars

(* A transaction that has appended ends: the journal lock, the ordinal lock *)
(* and the rows' locks are never waited for in a circle.                    *)
TransactionsEnd ==
    \A h \in Hosts : pc[h] = "appended" ~> pc[h] = "idle"

=============================================================================
