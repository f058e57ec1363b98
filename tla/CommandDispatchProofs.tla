----------------------- MODULE CommandDispatchProofs ------------------------
(***************************************************************************)
(* Proofs about CommandDispatch, for any number of dispatches, commands,   *)
(* deaths and boots: what a commit replaces and what the checkpoint        *)
(* covers, boots alongside or not; then that the row follows its journal   *)
(* and that dispatch implements AtomicRecord.                              *)
(***************************************************************************)
EXTENDS CommandDispatch, TLAPS

Holding == {"hydrated", "checked", "appended"}

(* A dispatch in flight on a store without versions holds its lock ... *)
LockHeld == ~Cas => \A w \in Workers : pc[w] \in InFlight => w \in held[key[w]]

(* ... alone. *)
LockAlone == \A k \in Keys : \A v, w \in held[k] : v = w

(* Under the lock, what was hydrated is what the row holds. *)
LockedRead ==
    ~Cas => \A w \in Workers : pc[w] \in Holding => seen[w] = row

(* Without it, what was hydrated at the row's version is what it holds. *)
VersionedRead ==
    Cas => \A w \in Workers : pc[w] \in Holding =>
               /\ seen[w].ver <= row.ver
               /\ seen[w].ver = row.ver => seen[w].val = row.val

(* A store without versions is recovered while nothing is in flight. *)
QuietBoot == (~Cas /\ boot.at # "idle") => \A w \in Workers : pc[w] \notin InFlight

(* Dispatches agree on the lock of the record. *)
KeysAgree == \A v, w \in Workers : key[v] = key[w]

Inv ==
    /\ TypeOK /\ KeysAgree
    /\ LockHeld /\ LockAlone /\ LockedRead /\ VersionedRead /\ QuietBoot

(* The step of a worker keeps the types. *)
LEMMA DispatchTypes ==
    ASSUME TypeOK, NEW w \in Workers, Dispatch(w) PROVE TypeOK'
<1> USE DispatchAssumption DEF TypeOK, setting, durable, Goto, Tell, Release,
        Versioned, Entry, States, Steps, InFlight, Outcomes
<1>1. Built(w) \in States
  BY DEF Built
<1>2. ASSUME NEW n \in Nat PROVE EntryOf(w, n) \in Entry
  BY <1>1 DEF EntryOf
<1>3. CASE Begin(w)
  <2>1. held' \in [Keys -> SUBSET Workers]
    BY <1>3 DEF Begin, Isolated
  <2> QED BY <2>1, <1>3 DEF Begin
<1>4. CASE Hydrate(w)
  BY <1>4 DEF Hydrate, Refused
<1>5. CASE PutCheck(w)
  <2>1. pc' \in [Workers -> Steps] /\ answer' \in [Workers -> Outcomes]
    BY <1>5 DEF PutCheck, Refused
  <2>2. held' \in [Keys -> SUBSET Workers]
    BY <1>5 DEF PutCheck, Refused
  <2> QED BY <2>1, <2>2, <1>5 DEF PutCheck
<1>6. CASE Append(w)
  <2>1. EntryOf(w, sequence + 1) \in Entry
    BY <1>2
  <2>2. journal' \subseteq Entry
    BY <1>6, <2>1 DEF Append
  <2> QED BY <2>2, <1>6 DEF Append
<1>7. CASE Commit(w)
  <2>1. journal' \subseteq Entry
    BY <1>2, <1>7 DEF Commit
  <2>2. row' \in Versioned
    BY <1>1, <1>7 DEF Commit
  <2>3. checkpoint' \in Nat
    BY <1>7 DEF Commit, Checkpoint, Max2
  <2> QED BY <2>1, <2>2, <2>3, <1>7 DEF Commit
<1>8. CASE LoseRace(w)
  BY <1>8 DEF LoseRace, Retry
<1> QED BY <1>3, <1>4, <1>5, <1>6, <1>7, <1>8 DEF Dispatch

(* So do deaths, boots and recovery. *)
LEMMA OutsideTypes ==
    ASSUME TypeOK, (\E w \in Workers : Die(w)) \/ Restart \/ BootAnother \/ Recover
    PROVE  TypeOK'
<1> USE DEF TypeOK, setting, durable, working
<1>1. CASE \E w \in Workers : Die(w)
  BY <1>1 DEF Die, Goto, Release, Steps
<1>2. CASE Restart
  BY <1>2 DEF Restart, Steps
<1>3. CASE BootAnother
  BY <1>3 DEF BootAnother
<1>4. CASE ReadCheckpoint
  BY <1>4 DEF ReadCheckpoint
<1>5. CASE ReadEntries
  BY <1>5 DEF ReadEntries, Past
<1>6. CASE Recovered
  BY <1>6 DEF Recovered
<1>7. CASE \E e \in boot.todo : Replay(e)
  <2>1. PICK e \in boot.todo : Replay(e)
    BY <1>7
  <2>2. e \in Entry
    BY <2>1
  <2>3. row' \in Versioned /\ checkpoint' \in Nat
    BY <2>1, <2>2 DEF Replay, Versioned, Entry, Checkpoint, Max2
  <2>4. boot' \in [at: {"idle", "checkpoint", "entries", "replay"}, from: Nat, todo: SUBSET Entry]
    BY <2>1 DEF Replay
  <2> QED BY <2>1, <2>3, <2>4 DEF Replay
<1> QED BY <1>1, <1>2, <1>3, <1>4, <1>5, <1>6, <1>7 DEF Recover

(* Every step keeps the variables in their types. *)
LEMMA TypeStep == TypeOK /\ [Next]_vars => TypeOK'
<1> SUFFICES ASSUME TypeOK, [Next]_vars PROVE TypeOK'
  OBVIOUS
<1>1. CASE UNCHANGED vars
  BY <1>1 DEF vars, TypeOK
<1> QED BY <1>1, DispatchTypes, OutsideTypes DEF Next

(* They start in their types. *)
LEMMA TypeInit == Init => TypeOK
BY DispatchAssumption DEF Init, TypeOK, Versioned, Entry, States, Steps, Outcomes

(* Every behaviour of dispatch keeps its variables in their types. *)
THEOREM TypeCorrect == Spec => []TypeOK
BY TypeInit, TypeStep, PTL DEF Spec

(* No step leaves an entry past the checkpoint. *)
LEMMA CoversStep == TypeOK /\ CheckpointCovers /\ [Next]_vars => CheckpointCovers'
<1> SUFFICES ASSUME TypeOK, CheckpointCovers, [Next]_vars, Checkpointed',
                    NEW e \in journal'
             PROVE  e.seq <= checkpoint'
  BY DEF CheckpointCovers
<1>1. Checkpointed /\ Transactional
  BY DEF Next, vars, setting, Dispatch, Begin, Hydrate, PutCheck, Append, Commit, LoseRace,
         Die, Restart, BootAnother, Recover, ReadCheckpoint, ReadEntries, Recovered, Replay,
         Checkpointed, Transactional
<1>2. CASE \E w \in Workers : Commit(w)
  <2>1. PICK w \in Workers : Commit(w)
    BY <1>2
  <2>2. checkpoint' = Max2(checkpoint, mine[w]) /\ checkpoint \in Nat /\ mine[w] \in Nat
    BY <1>1, <2>1 DEF Commit, Checkpoint, TypeOK
  <2>3. e \in journal \/ e.seq = mine[w]
    BY <2>1 DEF Commit, EntryOf
  <2>4. ASSUME e \in journal PROVE e.seq <= checkpoint /\ e.seq \in Nat
    BY <1>1, <2>4 DEF CheckpointCovers, TypeOK, Entry
  <2> QED BY <2>2, <2>3, <2>4 DEF Max2
<1>3. CASE \E d \in boot.todo : Replay(d)
  <2>1. PICK d \in boot.todo : Replay(d)
    BY <1>3
  <2>2. checkpoint' = Max2(checkpoint, d.seq) /\ checkpoint \in Nat /\ d.seq \in Nat
    BY <1>1, <2>1 DEF Replay, Checkpoint, TypeOK, Entry
  <2>3. e \in journal /\ e.seq <= checkpoint /\ e.seq \in Nat
    BY <1>1, <2>1 DEF Replay, CheckpointCovers, TypeOK, Entry
  <2> QED BY <2>2, <2>3 DEF Max2
<1>4. CASE ~(\E w \in Workers : Commit(w)) /\ ~(\E d \in boot.todo : Replay(d))
  <2>1. journal' = journal /\ checkpoint' = checkpoint
    BY <1>1, <1>4 DEF Next, vars, durable, Dispatch, Begin, Hydrate, PutCheck, Append, LoseRace,
         Die, Restart, BootAnother, Recover, ReadCheckpoint, ReadEntries, Recovered
  <2> QED BY <1>1, <2>1 DEF CheckpointCovers
<1> QED BY <1>2, <1>3, <1>4

(* recover! is bounded: on Postgres and Sqlite no committed entry is ever    *)
(* past the checkpoint, whatever order concurrent appends commit in and      *)
(* wherever a process dies, so a boot at rest has nothing to replay.         *)
THEOREM CheckpointKeepsUp == Spec => []CheckpointCovers
<1>1. Init => CheckpointCovers
  BY DEF Init, CheckpointCovers
<1> QED BY <1>1, CoversStep, TypeCorrect, PTL DEF Spec

----------------------------------------------------------------------------
(* Nothing is read or committed at the start. *)
LEMMA InvInit == ASSUME OneKey PROVE Init => Inv
<1> SUFFICES ASSUME Init PROVE Inv
  OBVIOUS
<1>1. TypeOK
  BY TypeInit
<1>2. KeysAgree
  BY DEF Init, OneKey, KeysAgree
<1>3. LockHeld /\ LockAlone /\ LockedRead /\ VersionedRead /\ QuietBoot
  BY DEF Init, LockHeld, LockAlone, LockedRead, VersionedRead, QuietBoot, InFlight, Holding
<1> QED BY <1>1, <1>2, <1>3 DEF Inv

(* Two dispatches in flight under the lock are one. *)
LEMMA Exclusive ==
    ASSUME Inv, ~Cas, NEW v \in Workers, NEW w \in Workers,
           pc[v] \in InFlight, pc[w] \in InFlight
    PROVE  v = w
BY DEF Inv, TypeOK, KeysAgree, LockHeld, LockAlone

(* A worker's own step keeps the invariant. *)
LEMMA DispatchInv ==
    ASSUME Inv, NEW w \in Workers, Dispatch(w) PROVE Inv'
<1>1. TypeOK' /\ KeysAgree'
  <2>1. TypeOK'
    BY DispatchTypes DEF Inv
  <2>2. UNCHANGED setting
    BY DEF Dispatch, Begin, Hydrate, PutCheck, Append, Commit, LoseRace
  <2> QED BY <2>1, <2>2 DEF Inv, KeysAgree, setting
<1>2. CASE Begin(w)
  <2>1. LockHeld' /\ LockAlone'
    BY <1>2 DEF Begin, Isolated, Inv, TypeOK, LockHeld, LockAlone, Cas, Goto, setting, InFlight
  <2>2. LockedRead' /\ VersionedRead'
    BY <1>2 DEF Begin, Inv, TypeOK, LockedRead, VersionedRead, Cas, Goto, setting, durable, Holding
  <2>3. QuietBoot'
    BY <1>2 DEF Begin, Inv, QuietBoot, Cas, Serving, setting
  <2> QED BY <1>1, <2>1, <2>2, <2>3 DEF Inv
<1>3. CASE Hydrate(w)
  <2>1. LockHeld' /\ LockAlone'
    BY <1>3, Exclusive DEF Hydrate, Refused, Tell, Release, Inv, TypeOK, LockHeld, LockAlone, Cas, Goto, At, setting, InFlight
  <2>2. LockedRead' /\ VersionedRead'
    BY <1>3 DEF Hydrate, Refused, Tell, Inv, TypeOK, Versioned, LockedRead, VersionedRead, Cas, Goto, setting, durable, Holding
  <2>3. QuietBoot'
    BY <1>3 DEF Hydrate, Refused, Tell, Inv, TypeOK, QuietBoot, Cas, Goto, At, setting, InFlight
  <2> QED BY <1>1, <2>1, <2>2, <2>3 DEF Inv
<1>4. CASE PutCheck(w)
  <2>1. LockHeld' /\ LockAlone'
    BY <1>4, Exclusive DEF PutCheck, Refused, Tell, Release, Inv, TypeOK, LockHeld, LockAlone, Cas, Goto, At, setting, InFlight
  <2>2. LockedRead' /\ VersionedRead'
    BY <1>4 DEF PutCheck, Refused, Tell, Inv, TypeOK, LockedRead, VersionedRead, Cas, Goto, At, setting, durable, Holding
  <2>3. QuietBoot'
    BY <1>4 DEF PutCheck, Refused, Tell, Inv, TypeOK, QuietBoot, Cas, Goto, At, setting, InFlight
  <2> QED BY <1>1, <2>1, <2>2, <2>3 DEF Inv
<1>5. CASE Append(w)
  <2>1. LockHeld' /\ LockAlone'
    BY <1>5 DEF Append, Inv, TypeOK, LockHeld, LockAlone, Cas, Goto, At, setting, InFlight
  <2>2. LockedRead' /\ VersionedRead'
    BY <1>5 DEF Append, Inv, TypeOK, LockedRead, VersionedRead, Cas, Goto, At, setting, Holding
  <2>3. QuietBoot'
    BY <1>5 DEF Append, Inv, TypeOK, QuietBoot, Cas, Goto, At, setting, InFlight
  <2> QED BY <1>1, <2>1, <2>2, <2>3 DEF Inv
<1>6. CASE Commit(w)
  <2>1. LockHeld' /\ LockAlone'
    BY <1>6, Exclusive DEF Commit, Tell, Release, Inv, TypeOK, LockHeld, LockAlone, Cas, Goto, At, setting, InFlight
  <2>2. LockedRead'
    BY <1>6, Exclusive DEF Commit, Tell, Inv, TypeOK, LockedRead, Cas, Goto, At, setting, Holding, InFlight
  <2>3. VersionedRead'
    BY <1>6 DEF Commit, Tell, Inv, TypeOK, Versioned, VersionedRead, Cas, Goto, At, setting, Holding
  <2>4. QuietBoot'
    BY <1>6 DEF Commit, Tell, Inv, TypeOK, QuietBoot, Cas, Goto, At, setting, InFlight
  <2> QED BY <1>1, <2>1, <2>2, <2>3, <2>4 DEF Inv
<1>7. CASE LoseRace(w)
  <2>1. Cas /\ Cas'
    BY <1>7 DEF LoseRace, Stale, Cas, setting
  <2>2. LockAlone'
    BY <1>7 DEF LoseRace, Retry, Tell, Release, Inv, TypeOK, LockAlone
  <2>3. VersionedRead'
    BY <1>7 DEF LoseRace, Retry, Tell, Inv, TypeOK, VersionedRead, Cas, Goto, setting, durable, Holding
  <2> QED BY <1>1, <2>1, <2>2, <2>3 DEF Inv, LockHeld, LockedRead, QuietBoot
<1> QED BY <1>2, <1>3, <1>4, <1>5, <1>6, <1>7 DEF Dispatch

(* Deaths, boots and recovery keep it. *)
LEMMA OutsideInv ==
    ASSUME Inv, (\E w \in Workers : Die(w)) \/ Restart \/ BootAnother \/ Recover
    PROVE  Inv'
<1>1. TypeOK'
  BY OutsideTypes DEF Inv
<1>2. UNCHANGED setting
  BY DEF Die, Restart, BootAnother, Recover, ReadCheckpoint, ReadEntries, Recovered, Replay
<1>3. KeysAgree' /\ (Cas' <=> Cas)
  BY <1>2 DEF Inv, KeysAgree, setting, Cas
<1>4. CASE \E w \in Workers : Die(w)
  <2>1. PICK w \in Workers : Die(w)
    BY <1>4
  <2>2. LockHeld' /\ LockAlone'
    BY <1>2, <1>3, <2>1, Exclusive DEF Die, Release, Inv, TypeOK, LockHeld, LockAlone, Goto, setting, InFlight
  <2>3. LockedRead' /\ VersionedRead'
    BY <1>3, <2>1 DEF Die, Inv, TypeOK, LockedRead, VersionedRead, Goto, durable, Holding
  <2>4. QuietBoot'
    BY <1>3, <2>1 DEF Die, Inv, TypeOK, QuietBoot, Goto, InFlight
  <2> QED BY <1>1, <1>3, <2>2, <2>3, <2>4 DEF Inv
<1>5. CASE Restart
  <2>1. \A w \in Workers : pc'[w] \notin InFlight
    BY <1>5 DEF Restart, InFlight
  <2>2. LockAlone'
    BY <1>5 DEF Restart, LockAlone
  <2> QED BY <1>1, <1>3, <2>1, <2>2 DEF Inv, LockHeld, LockedRead, VersionedRead, QuietBoot, Holding, InFlight
<1>6. CASE BootAnother
  BY <1>1, <1>3, <1>6 DEF BootAnother, Cas, Inv, LockHeld, LockAlone, LockedRead, VersionedRead, QuietBoot, setting, durable, working
<1>7. CASE ReadCheckpoint \/ ReadEntries \/ Recovered
  <2>1. UNCHANGED <<row, pc, seen, held, key>> /\ (boot.at = "idle" => boot'.at = "idle")
    BY <1>7 DEF ReadCheckpoint, ReadEntries, Recovered, setting, durable, working
  <2> QED BY <1>1, <1>3, <2>1 DEF Inv, LockHeld, LockAlone, LockedRead, VersionedRead, QuietBoot
<1>8. CASE \E e \in boot.todo : Replay(e)
  <2>1. PICK e \in boot.todo : Replay(e)
    BY <1>8
  <2>2. UNCHANGED <<pc, seen, held, key>> /\ row'.ver = row.ver + 1 /\ boot.at = "replay"
    BY <2>1 DEF Replay, setting, working
  <2>3. LockedRead' /\ QuietBoot'
    BY <1>3, <2>2 DEF Inv, LockedRead, QuietBoot, Holding, InFlight
  <2>4. VersionedRead'
    BY <1>3, <2>2 DEF Inv, TypeOK, Versioned, VersionedRead
  <2> QED BY <1>1, <1>3, <2>2, <2>3, <2>4 DEF Inv, LockHeld, LockAlone
<1> QED BY <1>4, <1>5, <1>6, <1>7, <1>8 DEF Recover

(* Every step keeps the invariant. *)
LEMMA InvStep == Inv /\ [Next]_vars => Inv'
<1> SUFFICES ASSUME Inv, [Next]_vars PROVE Inv'
  OBVIOUS
<1>1. CASE UNCHANGED vars
  BY <1>1 DEF vars, Inv, TypeOK, KeysAgree, LockHeld, LockAlone, LockedRead, VersionedRead, QuietBoot, Cas
<1> QED BY <1>1, DispatchInv, OutsideInv DEF Next

(* The commit of a state-dependent command replaces the row it hydrated. *)
LEMMA CommitStep ==
    ASSUME Inv, [Next]_vars, NEW w \in Workers,
           kind[w] = "act", answer[w] # "done", answer'[w] = "done"
    PROVE  row.val = seen[w].val /\ row'.val = row.val \cup {w}
<1>1. Commit(w)
  <2>1. PICK v \in Workers : Dispatch(v)
    BY DEF Next, vars, Die, Restart, BootAnother, Recover, ReadCheckpoint, ReadEntries,
           Recovered, Replay, working
  <2>2. Commit(v)
    BY <2>1 DEF Inv, TypeOK, Dispatch, Begin, Hydrate, PutCheck, Append, LoseRace, Retry,
                Refused, Tell
  <2>3. v = w
    BY <2>2 DEF Inv, TypeOK, Commit, Tell
  <2> QED BY <2>2, <2>3
<1>2. row.val = seen[w].val
  BY <1>1 DEF Commit, At, Stale, Inv, TypeOK, LockedRead, VersionedRead, Holding
<1> QED BY <1>1, <1>2 DEF Commit, Built

(* ADR 0035's guarantee, for any number of concurrent dispatches of any      *)
(* kinds, deaths and boots, on all four stores: a state-dependent command    *)
(* commits on the very state its givens were evaluated on.  It rests on the  *)
(* dispatches resolving one lock key (Identity.best_effort).                 *)
THEOREM GivensHoldAtCommit == ASSUME OneKey PROVE Spec => CommitsOnWhatItRead
<1>1. Init => Inv
  BY InvInit
<1>2. Inv /\ [Next]_vars =>
        [\A w \in Workers :
           (kind[w] = "act" /\ answer[w] # "done" /\ answer'[w] = "done")
             => row.val = seen[w].val /\ row'.val = row.val \cup {w}]_vars
  BY CommitStep
<1> QED BY <1>1, <1>2, InvStep, PTL DEF Spec, CommitsOnWhatItRead

----------------------------------------------------------------------------
(* On Postgres a creating command whose plan reads prior state takes neither *)
(* lock nor version, so it must be the only one that may create the record.  *)
CreatorsApart ==
    "Postgres" \in Stores =>
        \A k \in Kinds : \A v, w \in Workers :
            v # w /\ k[v] = "create" => k[w] \notin {"put", "create"}

(* A dispatch past its existence check. *)
Checked(w) == pc[w] \in {"checked", "appended"}

(* The lone creator, of the setting chosen. *)
Apart ==
    Cas => \A v, w \in Workers : v # w /\ kind[v] = "create" => kind[w] \notin {"put", "create"}

(* A record is there when it carries an effect, and entries carry one. *)
Shaped == (row.ver = 0 <=> row.val = {}) /\ \A e \in journal : e.val # {}

(* A dispatch that is not over has told its caller nothing and committed     *)
(* nothing, but for the line Heki has fsynced.                               *)
Untold ==
    /\ \A w \in Workers : pc[w] \in InFlight \cup {"idle"} => answer[w] = "none"
    /\ \A e \in journal : \A w \in Workers :
          e.by = w => \/ pc[w] \in {"answered", "dead"}
                      \/ ~Transactional /\ pc[w] = "appended" /\ e = EntryOf(w, mine[w])
    /\ ~Transactional => \A w \in Workers : pc[w] = "appended" => EntryOf(w, mine[w]) \in journal

(* What a dispatch was admitted on still holds when it commits. *)
Acting ==
    \A w \in Workers : kind[w] = "act" /\ pc[w] \in Holding =>
        seen[w].ver # 0 /\ seen[w].val # {} /\ seen[w].val \cap Bars[w] = {}
Present == \A w \in Workers : kind[w] \in {"act", "blind"} /\ pc[w] \in Holding => row.ver # 0
Absent ==
    \A w \in Workers :
        Creates(w) /\ (Checked(w) \/ (pc[w] = "hydrated" /\ ~Puts(w))) => row.ver = 0
PutsAlone == \A v, w \in Workers : v # w /\ Puts(v) /\ Puts(w) /\ Checked(v) => ~Checked(w)

(* Sequences are handed out upwards, and each to one entry. *)
Numbered ==
    /\ \A e \in journal : e.seq > 0 /\ e.seq <= sequence
    /\ \A w \in Workers : mine[w] <= sequence /\ (pc[w] = "appended" => mine[w] > 0)

(* Postgres with a blind put takes its sequence before it waits for the row. *)
Unblinded == ~(Cas /\ \E w \in Workers : kind[w] = "blind")

Single == Unblinded => \A d, e \in journal : d.seq = e.seq => d = e

(* A dispatch that is going to commit has the newest sequence. *)
Fresh ==
    Unblinded => \A w \in Workers : pc[w] = "appended" /\ ~Stale(w) =>
        \A e \in journal : e.seq < mine[w] \/ (~Transactional /\ e = EntryOf(w, mine[w]))

(* A boot is alone, and what it has to replay is nothing on Postgres and     *)
(* Sqlite, and the rest of the journal, from the oldest, on Heki.            *)
BootAlone == boot.at # "idle" => store # "PostgresEra" /\ \A w \in Workers : pc[w] \notin InFlight
BootReads ==
    IF Transactional
    THEN boot.todo = {} /\ (boot.at = "entries" => boot.from = checkpoint)
    ELSE /\ boot.at = "entries" => boot.from = 0
         /\ boot.at = "replay" =>
              /\ boot.todo \subseteq journal
              /\ \A d \in boot.todo : \A e \in journal \ boot.todo : e.seq < d.seq

(* The row and the journal, boots included. *)
Agreed ==
    Unblinded =>
        IF Transactional THEN row.val = JournalState
        ELSE /\ journal = {} => row.val = {}
             /\ \/ \E w \in Workers : pc[w] = "appended"
                \/ boot.at \in {"checkpoint", "entries"}
                \/ boot.at = "replay" /\ boot.todo # {}
                \/ row.val = JournalState

OrderInv ==
    /\ Inv /\ CheckpointCovers /\ Apart
    /\ Shaped /\ Untold /\ Acting /\ Present /\ Absent /\ PutsAlone
    /\ Numbered /\ Single /\ Fresh /\ BootAlone /\ BootReads /\ Agreed

(* What a set of entries says the record is. *)
NewestVal(J) == IF J = {} THEN {} ELSE (CHOOSE e \in J : \A d \in J : d.seq <= e.seq).val

(* The entry after all others is what they say. *)
LEMMA Newest ==
    ASSUME NEW J, J \subseteq Entry, NEW e \in J, \A d \in J : d = e \/ d.seq < e.seq
    PROVE  NewestVal(J) = e.val
<1> DEFINE m == CHOOSE x \in J : \A d \in J : d.seq <= x.seq
<1>1. \A d \in J : d.seq \in Nat
  BY DEF Entry
<1>2. \A d \in J : d.seq <= e.seq
  BY <1>1
<1>3. m \in J /\ \A d \in J : d.seq <= m.seq
  BY <1>2
<1>4. m = e
  BY <1>1, <1>3
<1> QED BY <1>4 DEF NewestVal

(* The setting, the invariant below and the checkpoint in any step. *)
LEMMA Settled ==
    ASSUME OrderInv, [Next]_vars
    PROVE  /\ store' = store /\ kind' = kind /\ key' = key
           /\ Inv' /\ CheckpointCovers' /\ Apart' /\ TypeOK /\ TypeOK'
           /\ \A w \in Workers : (Puts(w)' <=> Puts(w)) /\ (Creates(w)' <=> Creates(w))
           /\ (Cas' <=> Cas) /\ (Transactional' <=> Transactional) /\ (Unblinded' <=> Unblinded)
<1>1. store' = store /\ kind' = kind /\ key' = key
  BY DEF Next, vars, setting, Dispatch, Begin, Hydrate, PutCheck, Append, Commit, LoseRace,
         Die, Restart, BootAnother, Recover, ReadCheckpoint, ReadEntries, Recovered, Replay
<1>2. Inv'
  BY InvStep DEF OrderInv
<1>3. TypeOK /\ TypeOK'
  BY <1>2 DEF OrderInv, Inv
<1>4. CheckpointCovers'
  BY <1>3, CoversStep DEF OrderInv
<1>5. /\ (Cas' <=> Cas) /\ (Transactional' <=> Transactional) /\ (Unblinded' <=> Unblinded)
      /\ \A w \in Workers : (Puts(w)' <=> Puts(w)) /\ (Creates(w)' <=> Creates(w))
  BY <1>1 DEF Cas, Transactional, Unblinded, Puts, AtomicPut, Creates
<1>6. Apart'
  BY <1>1, <1>5 DEF OrderInv, Apart
<1> QED BY <1>1, <1>2, <1>3, <1>4, <1>5, <1>6

(* A dispatch moves only while nothing boots. *)
LEMMA DispatchIdle ==
    ASSUME OrderInv, ~Alongside, NEW w \in Workers, Dispatch(w)
    PROVE  boot.at = "idle" /\ boot' = boot /\ BootAlone' /\ (BootReads' <=> BootReads)
<1>1. boot.at = "idle"
  BY DEF OrderInv, BootAlone, Dispatch, Begin, Hydrate, PutCheck, Append, Commit, LoseRace, At, Serving, InFlight
<1>2. boot' = boot /\ store' = store
  BY DEF Dispatch, Begin, Hydrate, PutCheck, Append, Commit, LoseRace, setting
<1> QED BY <1>1, <1>2 DEF BootAlone, BootReads, Transactional

(* Before it appends, a dispatch changes nothing that lasts: what is to be   *)
(* kept is what its own new step says of it.                                 *)
QuietDispatch(w) ==
    /\ row' = row /\ journal' = journal /\ sequence' = sequence /\ mine' = mine
    /\ \A v \in Workers \ {w} : pc'[v] = pc[v] /\ seen'[v] = seen[v] /\ answer'[v] = answer[v]
    /\ pc[w] \in InFlight \cup {"idle"} /\ pc'[w] # "appended" /\ (pc[w] = "appended" => Transactional)
    /\ pc'[w] \in InFlight => answer'[w] = "none"
    /\ pc'[w] # "idle"
    /\ kind[w] = "act" /\ pc'[w] \in Holding =>
          seen'[w].ver # 0 /\ seen'[w].val # {} /\ seen'[w].val \cap Bars[w] = {}
    /\ kind[w] \in {"act", "blind"} /\ pc'[w] \in Holding => row.ver # 0
    /\ Creates(w) /\ (pc'[w] = "checked" \/ (pc'[w] = "hydrated" /\ ~Puts(w))) => row.ver = 0
    /\ pc'[w] = "checked" => Puts(w) /\ \A v \in Workers \ {w} : Puts(v) => ~Checked(v)

(* Begin, hydration, the existence check and a lost race are such steps. *)
LEMMA QuietActions ==
    ASSUME OrderInv, NEW w \in Workers, Begin(w) \/ Hydrate(w) \/ PutCheck(w) \/ LoseRace(w)
    PROVE  QuietDispatch(w)
<1>1. TypeOK /\ Shaped /\ Untold /\ Acting /\ Present
  BY DEF OrderInv, Inv
<1>2. pc[w] \in Steps /\ DOMAIN pc = Workers /\ DOMAIN seen = Workers /\ DOMAIN answer = Workers
  BY <1>1 DEF TypeOK
<1>3. CASE Begin(w)
  BY <1>1, <1>2, <1>3 DEF Begin, Goto, At, QuietDispatch, durable, InFlight, Holding, TypeOK, Untold
<1>4. CASE Hydrate(w)
  <2>1. /\ pc[w] = "begun" /\ row' = row /\ journal' = journal /\ sequence' = sequence /\ mine' = mine
        /\ seen' = [seen EXCEPT ![w] = row] /\ answer[w] = "none"
        /\ \/ /\ Admits(w) /\ pc' = [pc EXCEPT ![w] = "hydrated"] /\ answer' = answer
           \/ /\ pc' = [pc EXCEPT ![w] = "answered"] /\ answer' = [answer EXCEPT ![w] = "refused"]
    BY <1>1, <1>4 DEF Hydrate, Refused, Tell, Goto, At, durable, Untold, InFlight
  <2>2. CASE Admits(w) /\ pc' = [pc EXCEPT ![w] = "hydrated"] /\ answer' = answer
    <3>1. pc'[w] = "hydrated" /\ seen'[w] = row /\ answer'[w] = "none"
      BY <1>2, <2>1, <2>2
    <3>2. kind[w] = "act" => row.ver # 0 /\ row.val # {} /\ row.val \cap Bars[w] = {}
      BY <1>1, <2>2 DEF Admits, Creates, Shaped
    <3>3. /\ kind[w] \in {"act", "blind"} => row.ver # 0
          /\ Creates(w) /\ ~Puts(w) => row.ver = 0
      BY <2>2 DEF Admits, Creates
    <3> QED BY <1>2, <2>1, <2>2, <3>1, <3>2, <3>3 DEF QuietDispatch, InFlight, Holding
  <2>3. CASE pc' = [pc EXCEPT ![w] = "answered"] /\ answer' = [answer EXCEPT ![w] = "refused"]
    BY <1>2, <2>1, <2>3 DEF QuietDispatch, InFlight, Holding
  <2> QED BY <2>1, <2>2, <2>3
<1>5. CASE PutCheck(w)
  <2>1. /\ pc[w] = "hydrated" /\ row' = row /\ journal' = journal /\ sequence' = sequence /\ mine' = mine
        /\ seen' = seen /\ answer[w] = "none" /\ Puts(w) /\ Advisory(w)
        /\ \/ /\ ~(kind[w] = "put" /\ row.ver # 0) /\ pc' = [pc EXCEPT ![w] = "checked"] /\ answer' = answer
           \/ /\ pc' = [pc EXCEPT ![w] = "answered"] /\ answer' = [answer EXCEPT ![w] = "refused"]
    BY <1>1, <1>5 DEF PutCheck, Refused, Tell, Goto, At, durable, Untold, InFlight
  <2>2. CASE ~(kind[w] = "put" /\ row.ver # 0) /\ pc' = [pc EXCEPT ![w] = "checked"] /\ answer' = answer
    <3>1. pc'[w] = "checked" /\ answer'[w] = "none"
      BY <1>2, <2>1, <2>2
    <3>2. kind[w] # "act" /\ (kind[w] = "blind" => row.ver # 0) /\ (Creates(w) => row.ver = 0)
      BY <1>1, <2>1, <2>2 DEF Puts, Present, Holding, Creates
    <3>3. \A v \in Workers \ {w} : Puts(v) => ~Checked(v)
      BY <2>1 DEF Advisory, Checked
    <3> QED BY <1>2, <2>1, <2>2, <3>1, <3>2, <3>3 DEF QuietDispatch, InFlight, Holding
  <2>3. CASE pc' = [pc EXCEPT ![w] = "answered"] /\ answer' = [answer EXCEPT ![w] = "refused"]
    BY <1>2, <2>1, <2>3 DEF QuietDispatch, InFlight, Holding
  <2> QED BY <2>1, <2>2, <2>3
<1>6. CASE LoseRace(w)
  <2>1. /\ pc[w] = "appended" /\ row' = row /\ journal' = journal /\ sequence' = sequence /\ mine' = mine
        /\ seen' = seen /\ answer[w] = "none" /\ Cas
        /\ \/ pc' = [pc EXCEPT ![w] = "begun"] /\ answer' = answer
           \/ /\ pc' = [pc EXCEPT ![w] = "answered"] /\ answer' = [answer EXCEPT ![w] = "stale"]
    BY <1>1, <1>6 DEF LoseRace, Retry, Tell, Goto, At, durable, Untold, InFlight, Stale
  <2>2. Transactional
    BY <2>1 DEF Cas, Transactional
  <2> QED BY <1>2, <2>1, <2>2 DEF QuietDispatch, InFlight, Holding
<1> QED BY <1>3, <1>4, <1>5, <1>6

(* Such a step keeps what a dispatch was admitted on. *)
LEMMA QuietAdmits ==
    ASSUME OrderInv, [Next]_vars, NEW w \in Workers, QuietDispatch(w)
    PROVE  Shaped' /\ Untold' /\ Acting' /\ Present' /\ Absent' /\ PutsAlone'
<1>1. /\ kind' = kind /\ TypeOK /\ TypeOK'
      /\ \A v \in Workers : (Puts(v)' <=> Puts(v)) /\ (Creates(v)' <=> Creates(v))
      /\ (Transactional' <=> Transactional)
  BY Settled
<1>2. Shaped /\ Untold /\ Acting /\ Present /\ Absent /\ PutsAlone
  BY DEF OrderInv
<1>3. \A v \in Workers : v # w => pc'[v] = pc[v] /\ seen'[v] = seen[v] /\ answer'[v] = answer[v]
  BY DEF QuietDispatch
<1>4. row' = row /\ journal' = journal /\ mine' = mine
  BY DEF QuietDispatch
<1>5. Shaped'
  BY <1>2, <1>4 DEF Shaped
<1>6. Untold'
  <2>1. ASSUME NEW v \in Workers, pc'[v] \in InFlight \cup {"idle"} PROVE answer'[v] = "none"
    BY <1>2, <1>3, <2>1 DEF Untold, QuietDispatch
  <2>2. ASSUME NEW v \in Workers, v # w PROVE \A n : EntryOf(v, n)' = EntryOf(v, n)
    BY <1>1, <1>3, <2>2 DEF EntryOf, Built
  <2>3. ASSUME NEW e \in journal, NEW v \in Workers, e.by = v
        PROVE  \/ pc'[v] \in {"answered", "dead"}
               \/ ~Transactional /\ pc'[v] = "appended" /\ e = EntryOf(v, mine[v])'
    <3>1. \/ pc[v] \in {"answered", "dead"}
          \/ ~Transactional /\ pc[v] = "appended" /\ e = EntryOf(v, mine[v])
      BY <1>2, <2>3 DEF Untold
    <3>2. v # w
      BY <3>1 DEF QuietDispatch, InFlight
    <3>3. EntryOf(v, mine[v])' = EntryOf(v, mine[v])
      BY <1>4, <2>2, <3>2
    <3> QED BY <1>3, <3>1, <3>2, <3>3
  <2>4. ASSUME ~Transactional, NEW v \in Workers, pc'[v] = "appended"
        PROVE  EntryOf(v, mine[v])' \in journal
    <3>1. v # w
      BY <2>4 DEF QuietDispatch
    <3>2. EntryOf(v, mine[v])' = EntryOf(v, mine[v])
      BY <1>4, <2>2, <3>1
    <3> QED BY <1>2, <1>3, <2>4, <3>1, <3>2 DEF Untold
  <2> QED BY <1>1, <1>4, <2>1, <2>3, <2>4 DEF Untold
<1>7. Acting'
  BY <1>1, <1>2, <1>3 DEF Acting, QuietDispatch
<1>8. Present'
  BY <1>1, <1>2, <1>3, <1>4 DEF Present, QuietDispatch
<1>9. Absent'
  <2> SUFFICES ASSUME NEW v \in Workers, Creates(v),
                      pc'[v] \in {"checked", "appended"} \/ (pc'[v] = "hydrated" /\ ~Puts(v))
               PROVE  row.ver = 0
    BY <1>1, <1>4 DEF Absent, Checked
  <2>1. CASE v = w
    BY <2>1 DEF QuietDispatch
  <2>2. CASE v # w
    BY <1>2, <1>3, <2>2 DEF Absent, Checked
  <2> QED BY <2>1, <2>2
<1>10. PutsAlone'
  <2> SUFFICES ASSUME NEW u \in Workers, NEW v \in Workers, u # v, Puts(u), Puts(v),
                      pc'[u] \in {"checked", "appended"}, pc'[v] \in {"checked", "appended"}
               PROVE  FALSE
    BY <1>1 DEF PutsAlone, Checked
  <2>1. CASE u # w /\ v # w
    BY <1>2, <1>3, <2>1 DEF PutsAlone, Checked
  <2>2. CASE u = w
    BY <1>3, <2>2 DEF QuietDispatch, Checked
  <2>3. CASE v = w
    BY <1>3, <2>3 DEF QuietDispatch, Checked
  <2> QED BY <2>1, <2>2, <2>3
<1> QED BY <1>5, <1>6, <1>7, <1>8, <1>9, <1>10

(* It takes no sequence and writes no entry. *)
LEMMA QuietOrder ==
    ASSUME OrderInv, [Next]_vars, NEW w \in Workers, QuietDispatch(w), boot' = boot, boot.at = "idle"
    PROVE  Numbered' /\ Single' /\ Fresh' /\ Agreed'
<1>1. /\ kind' = kind /\ (Transactional' <=> Transactional) /\ (Cas' <=> Cas) /\ (Unblinded' <=> Unblinded)
  BY Settled
<1>2. Numbered /\ Single /\ Fresh /\ Agreed
  BY DEF OrderInv
<1>3. \A v \in Workers : v # w => pc'[v] = pc[v] /\ seen'[v] = seen[v]
  BY DEF QuietDispatch
<1>4. row' = row /\ journal' = journal /\ mine' = mine /\ sequence' = sequence
  BY DEF QuietDispatch
<1>5. Numbered' /\ Single'
  BY <1>1, <1>2, <1>3, <1>4 DEF Numbered, Single, QuietDispatch
<1>6. Fresh'
  <2> SUFFICES ASSUME Unblinded, NEW v \in Workers, pc'[v] = "appended", ~Stale(v)'
               PROVE  \A e \in journal : e.seq < mine[v] \/ (~Transactional /\ e = EntryOf(v, mine[v])')
    BY <1>1, <1>4 DEF Fresh
  <2>1. v # w
    BY DEF QuietDispatch
  <2>2. pc[v] = "appended" /\ ~Stale(v)
    BY <1>1, <1>3, <1>4, <2>1 DEF Stale
  <2>3. EntryOf(v, mine[v])' = EntryOf(v, mine[v])
    BY <1>1, <1>3, <1>4, <2>1 DEF EntryOf, Built
  <2> QED BY <1>2, <2>2, <2>3 DEF Fresh
<1>7. JournalState' = JournalState
  BY <1>4 DEF JournalState
<1>8. Agreed'
  <2>1. CASE Transactional
    BY <1>1, <1>2, <1>4, <1>7, <2>1 DEF Agreed
  <2>2. CASE ~Transactional
    <3>1. (\E v \in Workers : pc[v] = "appended") => \E v \in Workers : pc'[v] = "appended"
      <4> SUFFICES ASSUME NEW v \in Workers, pc[v] = "appended" PROVE pc'[v] = "appended"
        OBVIOUS
      <4>1. v # w
        BY <2>2 DEF QuietDispatch
      <4> QED BY <1>3, <4>1
    <3> QED BY <1>1, <1>2, <1>4, <1>7, <2>2, <3>1 DEF Agreed
  <2> QED BY <2>1, <2>2
<1> QED BY <1>5, <1>6, <1>8

(* A dispatch's steps before its append, and a lost race, keep the invariant. *)
LEMMA QuietKeeps ==
    ASSUME OrderInv, ~Alongside, NEW w \in Workers,
           Begin(w) \/ Hydrate(w) \/ PutCheck(w) \/ LoseRace(w)
    PROVE  OrderInv'
<1>1. Dispatch(w) /\ [Next]_vars
  BY DEF Dispatch, Next
<1>2. boot.at = "idle" /\ boot' = boot /\ BootAlone'
  BY <1>1, DispatchIdle
<1>3. QuietDispatch(w)
  BY QuietActions
<1>4. BootReads'
  BY <1>1, <1>2, Settled DEF OrderInv, BootReads
<1>5. Inv' /\ CheckpointCovers' /\ Apart'
  BY <1>1, Settled
<1>6. Shaped' /\ Untold' /\ Acting' /\ Present' /\ Absent' /\ PutsAlone'
  BY <1>1, <1>3, QuietAdmits
<1>7. Numbered' /\ Single' /\ Fresh' /\ Agreed'
  BY <1>1, <1>2, <1>3, QuietOrder
<1> QED BY <1>2, <1>4, <1>5, <1>6, <1>7 DEF OrderInv

(* The append keeps what the dispatch was admitted on. *)
LEMMA AppendAdmits ==
    ASSUME OrderInv, [Next]_vars, NEW w \in Workers, Append(w)
    PROVE  Shaped' /\ Untold' /\ Acting' /\ Present' /\ Absent' /\ PutsAlone'
<1>1. /\ kind' = kind /\ TypeOK /\ TypeOK'
      /\ \A v \in Workers : (Puts(v)' <=> Puts(v)) /\ (Creates(v)' <=> Creates(v))
      /\ (Transactional' <=> Transactional)
  BY Settled
<1>2. Shaped /\ Untold /\ Acting /\ Present /\ Absent /\ PutsAlone
  BY DEF OrderInv
<1>3. /\ \A v \in Workers : v # w => pc'[v] = pc[v] /\ mine'[v] = mine[v]
      /\ row' = row /\ seen' = seen /\ answer' = answer
      /\ pc'[w] = "appended" /\ mine'[w] = sequence + 1
  BY <1>1 DEF Append, Goto, TypeOK
<1>4. pc[w] \in Holding /\ (Puts(w) => pc[w] = "checked") /\ (~Puts(w) => pc[w] = "hydrated")
  BY DEF Append, At, Holding
<1>5. PICK n : n = sequence + 1
  OBVIOUS
<1>6. \A e \in journal' : e \in journal \/ (~Transactional /\ e = EntryOf(w, n))
  BY <1>5 DEF Append
<1>8. EntryOf(w, mine[w])' = EntryOf(w, n) /\ EntryOf(w, n).by = w /\ EntryOf(w, n).val # {}
  BY <1>1, <1>3, <1>5 DEF EntryOf, Built
<1>9. Shaped'
  BY <1>2, <1>3, <1>6, <1>8 DEF Shaped
<1>10. Untold'
  <2>1. ASSUME NEW v \in Workers, pc'[v] \in InFlight \cup {"idle"} PROVE answer'[v] = "none"
    <3>1. pc[v] \in InFlight \cup {"idle"}
      BY <1>3, <1>4, <2>1 DEF Holding, InFlight
    <3> QED BY <1>2, <1>3, <3>1 DEF Untold
  <2>2. ASSUME NEW v \in Workers, v # w PROVE EntryOf(v, mine[v])' = EntryOf(v, mine[v])
    BY <1>1, <1>3, <2>2 DEF EntryOf, Built
  <2>3. ASSUME NEW e \in journal', NEW v \in Workers, e.by = v
        PROVE  \/ pc'[v] \in {"answered", "dead"}
               \/ ~Transactional /\ pc'[v] = "appended" /\ e = EntryOf(v, mine[v])'
    <3>1. CASE e \in journal
      <4>1. \/ pc[v] \in {"answered", "dead"}
            \/ ~Transactional /\ pc[v] = "appended" /\ e = EntryOf(v, mine[v])
        BY <1>2, <2>3, <3>1 DEF Untold
      <4>2. v # w
        BY <1>4, <4>1
      <4> QED BY <1>3, <2>2, <4>1, <4>2
    <3>2. CASE ~Transactional /\ e = EntryOf(w, n)
      BY <1>3, <1>8, <2>3, <3>2
    <3> QED BY <1>6, <3>1, <3>2
  <2>4. ASSUME ~Transactional, NEW v \in Workers, pc'[v] = "appended"
        PROVE  EntryOf(v, mine[v])' \in journal'
    <3>1. journal' = journal \cup {EntryOf(w, n)}
      BY <1>5, <2>4 DEF Append
    <3>2. CASE v = w
      BY <1>8, <3>1, <3>2
    <3>3. CASE v # w
      BY <1>2, <1>3, <2>2, <2>4, <3>1, <3>3 DEF Untold
    <3> QED BY <3>2, <3>3
  <2> QED BY <1>1, <2>1, <2>3, <2>4 DEF Untold
<1>11. \A v \in Workers : pc'[v] \in Holding => pc[v] \in Holding
  BY <1>3, <1>4
<1>12. Acting' /\ Present'
  BY <1>1, <1>2, <1>3, <1>11 DEF Acting, Present
<1>13. Absent'
  <2> SUFFICES ASSUME NEW v \in Workers, Creates(v),
                      pc'[v] \in {"checked", "appended"} \/ (pc'[v] = "hydrated" /\ ~Puts(v))
               PROVE  row.ver = 0
    BY <1>1, <1>3 DEF Absent, Checked
  <2>1. CASE v = w
    BY <1>2, <1>4, <2>1 DEF Absent, Checked
  <2>2. CASE v # w
    BY <1>2, <1>3, <2>2 DEF Absent, Checked
  <2> QED BY <2>1, <2>2
<1>14. PutsAlone'
  <2>1. \A v \in Workers : Puts(v) /\ pc'[v] \in {"checked", "appended"} => Checked(v)
    BY <1>3, <1>4 DEF Checked
  <2>2. \A v \in Workers : Checked(v)' <=> pc'[v] \in {"checked", "appended"}
    BY DEF Checked
  <2> QED BY <1>1, <1>2, <2>1, <2>2 DEF PutsAlone
<1> QED BY <1>9, <1>10, <1>12, <1>13, <1>14

(* Its sequence is the newest. *)
LEMMA AppendOrder ==
    ASSUME OrderInv, [Next]_vars, NEW w \in Workers, Append(w), boot' = boot, boot.at = "idle"
    PROVE  Numbered' /\ Single' /\ Fresh' /\ Agreed'
<1>1. /\ kind' = kind /\ (Transactional' <=> Transactional) /\ (Cas' <=> Cas) /\ (Unblinded' <=> Unblinded)
      /\ TypeOK
  BY Settled
<1>2. Numbered /\ Single /\ Fresh /\ Agreed
  BY DEF OrderInv
<1>3. /\ \A v \in Workers : v # w => pc'[v] = pc[v] /\ mine'[v] = mine[v]
      /\ row' = row /\ seen' = seen
      /\ pc'[w] = "appended" /\ mine'[w] = sequence + 1
      /\ sequence \in Nat /\ sequence' = sequence + 1
      /\ pc[w] \in InFlight /\ pc[w] # "appended"
  BY <1>1 DEF Append, At, Goto, TypeOK, InFlight
<1>4. PICK n \in Nat : n = sequence + 1
  BY <1>3
<1>5. /\ \A e \in journal' : e \in journal \/ (~Transactional /\ e = EntryOf(w, n))
      /\ EntryOf(w, n).seq = n
      /\ Transactional => journal' = journal
      /\ ~Transactional => journal' = journal \cup {EntryOf(w, n)}
  BY <1>4 DEF Append, EntryOf
<1>6. /\ \A e \in journal : e.seq \in Nat /\ e.seq > 0 /\ e.seq <= sequence
      /\ \A v \in Workers : mine[v] \in Nat /\ mine[v] <= sequence
  BY <1>1, <1>2 DEF Numbered, TypeOK, Entry
<1>7. Numbered'
  <2>1. \A e \in journal' : e.seq > 0 /\ e.seq <= sequence'
    BY <1>3, <1>4, <1>5, <1>6
  <2>2. \A v \in Workers : mine'[v] <= sequence' /\ (pc'[v] = "appended" => mine'[v] > 0)
    BY <1>2, <1>3, <1>6 DEF Numbered
  <2> QED BY <2>1, <2>2 DEF Numbered
<1>8. Single'
  <2> SUFFICES ASSUME Unblinded, NEW d \in journal', NEW e \in journal', d.seq = e.seq PROVE d = e
    BY <1>1 DEF Single
  <2>1. \A x \in journal : x.seq # n
    BY <1>3, <1>4, <1>6
  <2> QED BY <1>2, <1>5, <2>1 DEF Single
<1>9. EntryOf(w, mine[w])' = EntryOf(w, n)
  BY <1>1, <1>3, <1>4 DEF EntryOf, Built
<1>10. Fresh'
  <2> SUFFICES ASSUME Unblinded, NEW v \in Workers, pc'[v] = "appended", ~Stale(v)'
               PROVE  \A e \in journal' : e.seq < mine'[v] \/ (~Transactional /\ e = EntryOf(v, mine[v])')
    BY <1>1 DEF Fresh
  <2>1. CASE v = w
    <3>1. mine'[v] = n
      BY <1>3, <1>4, <2>1
    <3>2. \A e \in journal : e.seq < n
      BY <1>3, <1>4, <1>6
    <3> QED BY <1>5, <1>9, <2>1, <3>1, <3>2
  <2>2. CASE v # w
    <3>1. pc[v] = "appended" /\ ~Stale(v)
      BY <1>1, <1>3, <2>2 DEF Stale
    <3>2. Transactional
      <4>1. SUFFICES ASSUME ~Transactional PROVE FALSE
        OBVIOUS
      <4>2. ~Cas /\ Inv
        BY <4>1 DEF OrderInv, Cas, Transactional
      <4>3. pc[v] \in InFlight
        BY <3>1 DEF InFlight
      <4> QED BY <1>3, <2>2, <4>2, <4>3, Exclusive
    <3>3. mine'[v] = mine[v] /\ journal' = journal
      BY <1>3, <1>5, <2>2, <3>2
    <3> QED BY <1>2, <3>1, <3>2, <3>3 DEF Fresh
  <2> QED BY <2>1, <2>2
<1>11. Agreed'
  <2>1. CASE Transactional
    <3>1. JournalState' = JournalState
      BY <1>5, <2>1 DEF JournalState
    <3> QED BY <1>1, <1>2, <1>3, <2>1, <3>1 DEF Agreed
  <2>2. CASE ~Transactional
    <3>1. journal' # {}
      BY <1>5, <2>2
    <3> QED BY <1>1, <1>3, <2>2, <3>1 DEF Agreed
  <2> QED BY <2>1, <2>2
<1> QED BY <1>7, <1>8, <1>10, <1>11

(* The append keeps the invariant. *)
LEMMA AppendKeeps ==
    ASSUME OrderInv, ~Alongside, NEW w \in Workers, Append(w)
    PROVE  OrderInv'
<1>1. Dispatch(w) /\ [Next]_vars
  BY DEF Dispatch, Next
<1>2. boot.at = "idle" /\ boot' = boot /\ BootAlone'
  BY <1>1, DispatchIdle
<1>3. BootReads'
  BY <1>1, <1>2, Settled DEF OrderInv, BootReads
<1>4. Inv' /\ CheckpointCovers' /\ Apart'
  BY <1>1, Settled
<1>5. Shaped' /\ Untold' /\ Acting' /\ Present' /\ Absent' /\ PutsAlone'
  BY <1>1, AppendAdmits
<1>6. Numbered' /\ Single' /\ Fresh' /\ Agreed'
  BY <1>1, <1>2, AppendOrder
<1> QED BY <1>2, <1>3, <1>4, <1>5, <1>6 DEF OrderInv

-----------------------------------------------------------------------------
(* While a dispatch commits nobody else is about to create the record, and   *)
(* on a store with locks nobody else is in flight.                           *)
LEMMA CommitsAlone ==
    ASSUME OrderInv, NEW w \in Workers, Commit(w), NEW v \in Workers, v # w
    PROVE  /\ ~(Creates(v) /\ (Checked(v) \/ (pc[v] = "hydrated" /\ ~Puts(v))))
           /\ ~Cas => pc[v] \notin InFlight
<1>1. pc[w] = "appended" /\ TypeOK /\ Inv
  BY DEF Commit, At, OrderInv, Inv
<1>2. ~Cas => pc[v] \notin InFlight
  BY <1>1, Exclusive DEF InFlight
<1>3. ASSUME Creates(v), Checked(v) \/ (pc[v] = "hydrated" /\ ~Puts(v)) PROVE FALSE
  <2>1. pc[v] \in InFlight
    BY <1>3 DEF Checked, InFlight
  <2>2. Cas
    BY <1>2, <2>1
  <2>3. row.ver = 0
    BY <1>3 DEF OrderInv, Absent
  <2>4. kind[w] \notin {"act", "blind"}
    BY <1>1, <2>3 DEF OrderInv, Present, Holding
  <2>5. kind[w] \in {"put", "create"} /\ kind[v] \in {"put", "create"}
    BY <1>1, <1>3, <2>4 DEF TypeOK, AllKinds, Creates
  <2>6. kind[w] = "put" /\ kind[v] = "put"
    BY <2>2, <2>5 DEF OrderInv, Apart
  <2>7. Puts(w) /\ Puts(v)
    BY <2>2, <2>6 DEF Puts, AtomicPut, Cas
  <2>8. Checked(w) /\ Checked(v)
    BY <1>1, <1>3, <2>7 DEF Checked
  <2> QED BY <2>7, <2>8 DEF OrderInv, PutsAlone
<1> QED BY <1>2, <1>3

(* The commit keeps what others were admitted on. *)
LEMMA CommitAdmits ==
    ASSUME OrderInv, [Next]_vars, NEW w \in Workers, Commit(w)
    PROVE  Shaped' /\ Untold' /\ Acting' /\ Present' /\ Absent' /\ PutsAlone'
<1>1. /\ kind' = kind /\ TypeOK /\ TypeOK'
      /\ \A v \in Workers : (Puts(v)' <=> Puts(v)) /\ (Creates(v)' <=> Creates(v))
      /\ (Transactional' <=> Transactional)
  BY Settled
<1>2. Shaped /\ Untold /\ Acting /\ Present /\ Absent /\ PutsAlone
  BY DEF OrderInv
<1>3. /\ \A v \in Workers : v # w => pc'[v] = pc[v] /\ answer'[v] = answer[v]
      /\ mine' = mine /\ seen' = seen /\ pc'[w] = "answered"
      /\ row' = [ver |-> row.ver + 1, val |-> Built(w)]
      /\ journal' = journal \cup {EntryOf(w, mine[w])}
      /\ pc[w] = "appended" /\ row.ver \in Nat
  BY <1>1 DEF Commit, At, Tell, Goto, TypeOK, Versioned
<1>4. row'.ver # 0 /\ row'.val = Built(w) /\ w \in Built(w)
  BY <1>3 DEF Built
<1>5. Shaped'
  <2>1. EntryOf(w, mine[w]).val = Built(w)
    BY DEF EntryOf
  <2> QED BY <1>2, <1>3, <1>4, <2>1 DEF Shaped
<1>6. Untold'
  <2>1. ASSUME NEW v \in Workers, pc'[v] \in InFlight \cup {"idle"} PROVE answer'[v] = "none"
    BY <1>2, <1>3, <2>1 DEF Untold, InFlight
  <2>2. \A v \in Workers : EntryOf(v, mine[v])' = EntryOf(v, mine[v])
    BY <1>1, <1>3 DEF EntryOf, Built
  <2>3. ASSUME NEW e \in journal', NEW v \in Workers, e.by = v
        PROVE  \/ pc'[v] \in {"answered", "dead"}
               \/ ~Transactional /\ pc'[v] = "appended" /\ e = EntryOf(v, mine[v])'
    <3>1. CASE v = w
      BY <1>3, <3>1
    <3>2. CASE v # w
      <4>1. e \in journal
        BY <1>3, <2>3, <3>2 DEF EntryOf
      <4> QED BY <1>2, <1>3, <2>2, <2>3, <3>2, <4>1 DEF Untold
    <3> QED BY <3>1, <3>2
  <2>4. ASSUME ~Transactional, NEW v \in Workers, pc'[v] = "appended"
        PROVE  EntryOf(v, mine[v])' \in journal'
    <3>1. v # w /\ pc[v] = "appended"
      BY <1>3, <2>4
    <3> QED BY <1>2, <1>3, <2>2, <2>4, <3>1 DEF Untold
  <2> QED BY <1>1, <2>1, <2>3, <2>4 DEF Untold
<1>7. \A v \in Workers : pc'[v] \in Holding => pc[v] \in Holding /\ v # w
  BY <1>3 DEF Holding
<1>8. Acting' /\ Present'
  BY <1>1, <1>2, <1>3, <1>4, <1>7 DEF Acting, Present
<1>9. Absent'
  <2> SUFFICES ASSUME NEW v \in Workers, Creates(v),
                      pc'[v] \in {"checked", "appended"} \/ (pc'[v] = "hydrated" /\ ~Puts(v))
               PROVE  FALSE
    BY <1>1 DEF Absent, Checked
  <2>1. v # w
    BY <1>3
  <2> QED BY <1>3, <2>1, CommitsAlone DEF Checked
<1>10. PutsAlone'
  <2>1. \A v \in Workers : Checked(v)' => Checked(v)
    BY <1>3 DEF Checked
  <2> QED BY <1>1, <1>2, <2>1 DEF PutsAlone
<1> QED BY <1>5, <1>6, <1>8, <1>9, <1>10

(* The commit writes the newest entry, and the row with it. *)
LEMMA CommitOrder ==
    ASSUME OrderInv, [Next]_vars, NEW w \in Workers, Commit(w), boot' = boot, boot.at = "idle"
    PROVE  Numbered' /\ Single' /\ Fresh' /\ Agreed'
<1>1. /\ kind' = kind /\ (Transactional' <=> Transactional) /\ (Cas' <=> Cas) /\ (Unblinded' <=> Unblinded)
      /\ TypeOK /\ TypeOK'
  BY Settled
<1>2. Numbered /\ Single /\ Fresh /\ Agreed /\ Untold
  BY DEF OrderInv
<1>3. /\ \A v \in Workers : v # w => pc'[v] = pc[v]
      /\ mine' = mine /\ seen' = seen /\ sequence' = sequence /\ pc'[w] = "answered"
      /\ row' = [ver |-> row.ver + 1, val |-> Built(w)]
      /\ journal' = journal \cup {EntryOf(w, mine[w])}
      /\ pc[w] = "appended" /\ row.ver \in Nat /\ ~Stale(w) /\ sequence \in Nat
  BY <1>1 DEF Commit, At, Tell, Goto, TypeOK, Versioned
<1>4. PICK x : x = EntryOf(w, mine[w])
  OBVIOUS
<1>5. x.seq = mine[w] /\ x.val = Built(w) /\ mine[w] \in Nat /\ mine[w] <= sequence
  BY <1>1, <1>2, <1>4 DEF EntryOf, TypeOK, Numbered
<1>6. Unblinded => \A e \in journal : e = x \/ e.seq < mine[w]
  BY <1>2, <1>3, <1>4 DEF Fresh
<1>7. Single'
  <2> SUFFICES ASSUME Unblinded, NEW d \in journal', NEW e \in journal', d.seq = e.seq PROVE d = e
    BY <1>1 DEF Single
  <2>1. \A y \in journal : y = x \/ (y.seq \in Nat /\ y.seq # x.seq)
    BY <1>1, <1>5, <1>6 DEF TypeOK, Entry
  <2> QED BY <1>2, <1>3, <1>4, <2>1 DEF Single
<1>8. Fresh'
  <2> SUFFICES ASSUME Unblinded, NEW v \in Workers, pc'[v] = "appended", ~Stale(v)'
               PROVE  FALSE
    BY <1>1 DEF Fresh
  <2>1. v # w /\ pc[v] = "appended"
    BY <1>3
  <2>2. Cas /\ Inv
    BY <2>1, CommitsAlone DEF InFlight, OrderInv
  <2>3. CASE kind[v] = "act"
    <3>1. seen[v].ver = row.ver + 1
      BY <1>1, <1>3, <2>2, <2>3 DEF Stale
    <3>2. seen[v].ver <= row.ver
      BY <2>1, <2>2 DEF Inv, VersionedRead, Holding
    <3> QED BY <1>3, <3>1, <3>2
  <2>4. CASE kind[v] = "blind"
    BY <2>2, <2>4 DEF Unblinded
  <2>5. CASE kind[v] \in {"put", "create"}
    BY <2>1, <2>5, CommitsAlone DEF Creates, Checked
  <2> QED BY <1>1, <2>3, <2>4, <2>5 DEF TypeOK, AllKinds
<1>9. Numbered'
  <2>1. x.seq > 0
    BY <1>2, <1>3, <1>5 DEF Numbered
  <2>2. \A v \in Workers : pc'[v] = "appended" => pc[v] = "appended"
    BY <1>3
  <2> QED BY <1>2, <1>3, <1>4, <1>5, <2>1, <2>2 DEF Numbered
<1>10. Agreed'
  <2> SUFFICES ASSUME Unblinded
               PROVE  IF Transactional THEN row'.val = JournalState'
                      ELSE journal' # {} /\ row'.val = JournalState'
    BY <1>1 DEF Agreed
  <2>1. journal' \subseteq Entry
    BY <1>1 DEF TypeOK
  <2>2. x \in journal' /\ \A d \in journal' : d = x \/ d.seq < x.seq
    BY <1>3, <1>4, <1>5, <1>6
  <2>3. NewestVal(journal') = x.val
    BY <2>1, <2>2, Newest
  <2>4. JournalState' = NewestVal(journal')
    BY DEF JournalState, NewestVal
  <2> QED BY <1>3, <1>5, <2>2, <2>3, <2>4
<1> QED BY <1>7, <1>8, <1>9, <1>10

(* The commit keeps the invariant. *)
LEMMA CommitKeeps ==
    ASSUME OrderInv, ~Alongside, NEW w \in Workers, Commit(w)
    PROVE  OrderInv'
<1>1. Dispatch(w) /\ [Next]_vars
  BY DEF Dispatch, Next
<1>2. boot.at = "idle" /\ boot' = boot /\ BootAlone'
  BY <1>1, DispatchIdle
<1>3. BootReads'
  BY <1>1, <1>2, Settled DEF OrderInv, BootReads
<1>4. Inv' /\ CheckpointCovers' /\ Apart'
  BY <1>1, Settled
<1>5. Shaped' /\ Untold' /\ Acting' /\ Present' /\ Absent' /\ PutsAlone'
  BY <1>1, CommitAdmits
<1>6. Numbered' /\ Single' /\ Fresh' /\ Agreed'
  BY <1>1, <1>2, CommitOrder
<1> QED BY <1>2, <1>3, <1>4, <1>5, <1>6 DEF OrderInv

-----------------------------------------------------------------------------
(* A death, a restart or a boot: some dispatches are dead, the rest is as it was. *)
Deaths ==
    /\ row' = row /\ journal' = journal /\ sequence' = sequence /\ mine' = mine
    /\ seen' = seen /\ answer' = answer
    /\ \A w \in Workers : pc'[w] = pc[w] \/ (pc[w] \in InFlight /\ pc'[w] = "dead")

(* The dead had told their callers nothing, and what Heki had fsynced stays. *)
LEMMA DeathAdmits ==
    ASSUME OrderInv, [Next]_vars, Deaths
    PROVE  Shaped' /\ Untold' /\ Acting' /\ Present' /\ Absent' /\ PutsAlone' /\ Numbered' /\ Single' /\ Fresh'
<1>1. /\ kind' = kind /\ (Cas' <=> Cas) /\ (Unblinded' <=> Unblinded)
      /\ \A v \in Workers : (Puts(v)' <=> Puts(v)) /\ (Creates(v)' <=> Creates(v))
      /\ (Transactional' <=> Transactional)
  BY Settled
<1>2. Shaped /\ Untold /\ Acting /\ Present /\ Absent /\ PutsAlone /\ Numbered /\ Single /\ Fresh
  BY DEF OrderInv
<1>3. \A v \in Workers : pc'[v] \in InFlight \cup {"idle"} => pc'[v] = pc[v]
  BY DEF Deaths, InFlight
<1>4. /\ \A v \in Workers : EntryOf(v, mine[v])' = EntryOf(v, mine[v])
      /\ \A v \in Workers : Stale(v)' <=> Stale(v)
  BY <1>1 DEF Deaths, EntryOf, Built, Stale
<1>5. \A v \in Workers : /\ pc'[v] = "appended" => pc[v] = "appended"
                         /\ pc'[v] \in Holding => pc[v] \in Holding
                         /\ pc'[v] = "hydrated" => pc[v] = "hydrated"
                         /\ Checked(v)' => Checked(v)
  BY <1>3 DEF InFlight, Holding, Checked
<1>6. Shaped' /\ Acting' /\ Present' /\ Numbered' /\ Single'
  BY <1>1, <1>2, <1>5 DEF Shaped, Acting, Present, Numbered, Single, Deaths
<1>7. Absent' /\ PutsAlone'
  BY <1>1, <1>2, <1>5 DEF Absent, PutsAlone, Deaths
<1>8. Fresh'
  BY <1>1, <1>2, <1>4, <1>5 DEF Fresh, Deaths
<1>9. Untold'
  <2>1. ASSUME NEW v \in Workers, pc'[v] \in InFlight \cup {"idle"} PROVE answer'[v] = "none"
    BY <1>2, <1>3, <2>1 DEF Untold, Deaths
  <2>2. ASSUME NEW e \in journal, NEW v \in Workers, e.by = v
        PROVE  \/ pc'[v] \in {"answered", "dead"}
               \/ ~Transactional /\ pc'[v] = "appended" /\ e = EntryOf(v, mine[v])
    BY <1>2, <2>2 DEF Untold, Deaths
  <2>3. ASSUME ~Transactional, NEW v \in Workers, pc'[v] = "appended"
        PROVE  EntryOf(v, mine[v]) \in journal
    BY <1>2, <1>5, <2>3 DEF Untold
  <2> QED BY <1>1, <1>4, <2>1, <2>2, <2>3 DEF Untold, Deaths
<1> QED BY <1>6, <1>7, <1>8, <1>9

(* The death of a process keeps the invariant. *)
LEMMA DieKeeps ==
    ASSUME OrderInv, NEW w \in Workers, Die(w) PROVE OrderInv'
<1>1. [Next]_vars
  BY DEF Next
<1>2. /\ TypeOK /\ Inv' /\ CheckpointCovers' /\ Apart'
      /\ (Unblinded' <=> Unblinded) /\ (Transactional' <=> Transactional) /\ store' = store
  BY <1>1, Settled
<1>3. Deaths /\ boot' = boot /\ checkpoint' = checkpoint
  BY <1>2 DEF Die, Deaths, Goto, durable, TypeOK
<1>4. Transactional
  BY DEF Die, OneProcess, Transactional
<1>5. Shaped' /\ Untold' /\ Acting' /\ Present' /\ Absent' /\ PutsAlone' /\ Numbered' /\ Single' /\ Fresh'
  BY <1>1, <1>3, DeathAdmits
<1>6. BootAlone'
  BY <1>2, <1>3 DEF OrderInv, BootAlone, Deaths, InFlight
<1>7. BootReads'
  BY <1>2, <1>3, <1>4 DEF OrderInv, BootReads
<1>8. Agreed'
  BY <1>2, <1>3, <1>4 DEF OrderInv, Agreed, JournalState, Deaths
<1> QED BY <1>2, <1>5, <1>6, <1>7, <1>8 DEF OrderInv

(* So does a boot, of the one process of a store or of another one. *)
LEMMA BootKeeps ==
    ASSUME OrderInv, ~Alongside, Restart \/ BootAnother PROVE OrderInv'
<1>1. [Next]_vars
  BY DEF Next
<1>2. /\ TypeOK /\ Inv' /\ CheckpointCovers' /\ Apart'
      /\ (Unblinded' <=> Unblinded) /\ (Transactional' <=> Transactional) /\ store' = store
  BY <1>1, Settled
<1>3. /\ Deaths /\ boot' = [at |-> "checkpoint", from |-> 0, todo |-> {}]
      /\ store # "PostgresEra" /\ \A w \in Workers : pc'[w] \notin InFlight
  <2>1. CASE Restart
    BY <2>1 DEF Restart, Deaths, durable, InFlight, OneProcess
  <2>2. CASE BootAnother
    BY <2>2 DEF BootAnother, Deaths, durable, working
  <2> QED BY <2>1, <2>2
<1>4. Shaped' /\ Untold' /\ Acting' /\ Present' /\ Absent' /\ PutsAlone' /\ Numbered' /\ Single' /\ Fresh'
  BY <1>1, <1>3, DeathAdmits
<1>5. BootAlone' /\ BootReads'
  BY <1>2, <1>3 DEF BootAlone, BootReads
<1>6. JournalState' = JournalState
  BY <1>3 DEF JournalState, Deaths
<1>7. Agreed'
  BY <1>2, <1>3, <1>6 DEF OrderInv, Agreed, Deaths
<1> QED BY <1>2, <1>4, <1>5, <1>7 DEF OrderInv

(* Recovery works alone, and what it replays is what the journal holds. *)
LEMMA RecoverKeeps ==
    ASSUME OrderInv, Recover PROVE OrderInv'
<1>1. [Next]_vars
  BY DEF Next
<1>2. /\ TypeOK /\ TypeOK' /\ Inv' /\ CheckpointCovers' /\ Apart' /\ kind' = kind
      /\ (Unblinded' <=> Unblinded) /\ (Transactional' <=> Transactional) /\ store' = store
      /\ (Cas' <=> Cas)
  BY <1>1, Settled
<1>3. /\ boot.at # "idle" /\ journal' = journal /\ sequence' = sequence /\ mine' = mine
      /\ seen' = seen /\ answer' = answer /\ pc' = pc
  BY DEF Recover, ReadCheckpoint, ReadEntries, Recovered, Replay, durable, working
<1>4. store # "PostgresEra" /\ \A w \in Workers : pc[w] \notin InFlight
  BY <1>3 DEF OrderInv, BootAlone
<1>5. JournalState' = JournalState
  BY <1>3 DEF JournalState
<1>6. BootAlone'
  BY <1>2, <1>3, <1>4 DEF BootAlone
<1>7. CASE row' = row
  <2>1. Deaths
    BY <1>3, <1>7 DEF Deaths
  <2>2. Shaped' /\ Untold' /\ Acting' /\ Present' /\ Absent' /\ PutsAlone' /\ Numbered' /\ Single' /\ Fresh'
    BY <1>1, <2>1, DeathAdmits
  <2>3. CASE ReadCheckpoint
    <3>1. /\ boot.at = "checkpoint" /\ checkpoint' = checkpoint
          /\ boot' = [at |-> "entries", from |-> IF Checkpointed THEN checkpoint ELSE 0, todo |-> {}]
      BY <2>3 DEF ReadCheckpoint, durable
    <3>2. Checkpointed <=> Transactional
      BY <1>2, <1>4 DEF Checkpointed, Transactional, TypeOK, AllStores
    <3>3. BootReads'
      BY <1>2, <3>1, <3>2 DEF BootReads
    <3>4. Agreed'
      BY <1>2, <1>3, <1>5, <1>7, <3>1 DEF OrderInv, Agreed
    <3> QED BY <1>2, <1>6, <2>2, <3>3, <3>4 DEF OrderInv
  <2>4. CASE ReadEntries
    <3>1. /\ boot.at = "entries" /\ checkpoint' = checkpoint
          /\ boot'.at = "replay" /\ boot'.todo = Past(boot.from)
      BY <1>2, <2>4 DEF ReadEntries, durable, TypeOK
    <3>2. ASSUME Transactional PROVE Past(boot.from) = {}
      <4>1. boot.from = checkpoint /\ Checkpointed
        BY <1>2, <1>4, <3>1, <3>2 DEF OrderInv, BootReads, Checkpointed, Transactional, TypeOK, AllStores
      <4>2. \A e \in journal : e.seq <= checkpoint /\ e.seq \in Nat /\ checkpoint \in Nat
        BY <1>2, <4>1 DEF OrderInv, CheckpointCovers, TypeOK, Entry
      <4> QED BY <4>1, <4>2 DEF Past
    <3>3. ASSUME ~Transactional PROVE Past(boot.from) = journal
      <4>1. boot.from = 0
        BY <3>1, <3>3 DEF OrderInv, BootReads
      <4>2. \A e \in journal : e.seq > 0
        BY DEF OrderInv, Numbered
      <4> QED BY <4>1, <4>2 DEF Past
    <3>4. BootReads'
      BY <1>2, <1>3, <3>1, <3>2, <3>3 DEF BootReads
    <3>5. Agreed'
      BY <1>2, <1>3, <1>5, <1>7, <3>1, <3>3 DEF OrderInv, Agreed, JournalState
    <3> QED BY <1>2, <1>6, <2>2, <3>4, <3>5 DEF OrderInv
  <2>5. CASE Recovered
    <3>1. boot.at = "replay" /\ boot.todo = {} /\ boot' = [at |-> "idle", from |-> 0, todo |-> {}]
      BY <2>5 DEF Recovered
    <3>2. BootReads'
      BY <1>2, <3>1 DEF BootReads
    <3>3. \A w \in Workers : pc[w] # "appended"
      BY <1>4 DEF InFlight
    <3>4. Agreed'
      BY <1>2, <1>3, <1>5, <1>7, <3>1, <3>3 DEF OrderInv, Agreed
    <3> QED BY <1>2, <1>6, <2>2, <3>2, <3>4 DEF OrderInv
  <2>6. CASE \E e \in boot.todo : Replay(e)
    <3>1. row'.ver = row.ver + 1 /\ row.ver \in Nat
      BY <1>2, <2>6 DEF Replay, TypeOK, Versioned
    <3> QED BY <1>7, <3>1
  <2> QED BY <2>3, <2>4, <2>5, <2>6 DEF Recover
<1>8. CASE row' # row
  <2>1. PICK e \in boot.todo : Replay(e)
    BY <1>8 DEF Recover, ReadCheckpoint, ReadEntries, Recovered, durable
  <2>2. /\ boot.at = "replay" /\ boot'.at = "replay" /\ boot'.todo = boot.todo \ {e}
        /\ row' = [ver |-> row.ver + 1, val |-> e.val] /\ row.ver \in Nat
        /\ \A d \in boot.todo : e.seq <= d.seq
    BY <1>2, <2>1 DEF Replay, TypeOK, Versioned
  <2>3. ~Transactional
    BY <2>1 DEF OrderInv, BootReads
  <2>4. /\ boot.todo \subseteq journal
        /\ \A d \in boot.todo : \A x \in journal \ boot.todo : x.seq < d.seq
    BY <2>2, <2>3 DEF OrderInv, BootReads
  <2>5. Unblinded /\ Single /\ Shaped
    BY <2>3 DEF OrderInv, Unblinded, Cas, Transactional
  <2>6. \A d \in journal : d.seq \in Nat
    BY <1>2 DEF TypeOK, Entry
  <2>7. BootReads'
    <3>1. ASSUME NEW d \in boot'.todo, NEW x \in journal \ boot'.todo PROVE x.seq < d.seq
      <4>1. d \in boot.todo /\ d # e
        BY <2>2
      <4>2. CASE x = e
        <5>1. e.seq <= d.seq /\ e.seq # d.seq
          BY <2>1, <2>2, <2>4, <2>5, <4>1 DEF Single
        <5> QED BY <2>4, <2>6, <4>1, <4>2, <5>1
      <4>3. CASE x # e
        BY <2>2, <2>4, <4>1, <4>3
      <4> QED BY <4>2, <4>3
    <3> QED BY <1>2, <1>3, <2>2, <2>3, <2>4, <3>1 DEF BootReads
  <2>8. Agreed'
    <3>1. ASSUME boot'.todo = {} PROVE row'.val = JournalState
      <4>1. boot.todo = {e}
        BY <2>1, <2>2, <3>1
      <4>2. \A d \in journal : d = e \/ d.seq < e.seq
        BY <2>4, <4>1
      <4>3. NewestVal(journal) = e.val
        BY <1>2, <2>1, <2>4, <4>2, Newest DEF TypeOK
      <4> QED BY <2>2, <4>3 DEF NewestVal, JournalState
    <3>2. journal # {}
      BY <2>1, <2>4
    <3> QED BY <1>2, <1>3, <1>5, <2>2, <2>3, <3>1, <3>2 DEF Agreed
  <2>9. Shaped'
    BY <1>3, <2>1, <2>2, <2>4, <2>5 DEF Shaped
  <2>10. \A w \in Workers : pc[w] \notin Holding /\ pc[w] # "appended" /\ ~Checked(w)' /\ pc[w] # "hydrated"
    BY <1>3, <1>4 DEF InFlight, Holding, Checked
  <2>11. Acting' /\ Present' /\ Absent' /\ PutsAlone' /\ Fresh'
    BY <1>3, <2>10 DEF Acting, Present, Absent, PutsAlone, Fresh
  <2>12. Numbered' /\ Single'
    BY <1>2, <1>3 DEF OrderInv, Numbered, Single
  <2>13. Untold'
    <3>1. \A v \in Workers : EntryOf(v, mine[v])' = EntryOf(v, mine[v])
      BY <1>2, <1>3 DEF EntryOf, Built
    <3> QED BY <1>2, <1>3, <3>1 DEF OrderInv, Untold
  <2> QED BY <1>2, <1>6, <2>7, <2>8, <2>9, <2>11, <2>12, <2>13 DEF OrderInv
<1> QED BY <1>7, <1>8

(* Every step keeps the invariant. *)
LEMMA OrderStep ==
    ASSUME OrderInv, ~Alongside, [Next]_vars PROVE OrderInv'
<1>1. CASE \E w \in Workers : Dispatch(w)
  BY <1>1, QuietKeeps, AppendKeeps, CommitKeeps DEF Dispatch
<1>2. CASE \E w \in Workers : Die(w)
  BY <1>2, DieKeeps
<1>3. CASE Restart \/ BootAnother
  BY <1>3, BootKeeps
<1>4. CASE Recover
  BY <1>4, RecoverKeeps
<1>5. CASE UNCHANGED vars
  <2>1. Inv' /\ CheckpointCovers' /\ Apart'
    BY Settled
  <2>2. (Shaped /\ Untold /\ Acting /\ Present)' <=> (Shaped /\ Untold /\ Acting /\ Present)
    BY <1>5 DEF vars, Shaped, Untold, Acting, Present, EntryOf, Built, Transactional
  <2>3. (Absent /\ PutsAlone /\ Numbered /\ Single)' <=> (Absent /\ PutsAlone /\ Numbered /\ Single)
    BY <1>5 DEF vars, Absent, PutsAlone, Numbered, Single, Creates, Puts, AtomicPut, Checked, Unblinded, Cas
  <2>4. (Fresh /\ BootAlone /\ BootReads /\ Agreed)' <=> (Fresh /\ BootAlone /\ BootReads /\ Agreed)
    BY <1>5 DEF vars, Fresh, BootAlone, BootReads, Agreed, Unblinded, Cas, Stale, Transactional, EntryOf, Built, JournalState
  <2> QED BY <2>1, <2>2, <2>3, <2>4 DEF OrderInv
<1> QED BY <1>1, <1>2, <1>3, <1>4, <1>5 DEF Next

(* It holds at first, whatever setting is chosen. *)
LEMMA OrderStart ==
    ASSUME OneKey, CreatorsApart, Init PROVE OrderInv
<1>1. Inv /\ TypeOK
  BY InvInit DEF Inv
<1>2. CheckpointCovers
  BY DEF Init, CheckpointCovers
<1>3. Apart
  BY DEF Init, CreatorsApart, Apart, Cas
<1>4. /\ \A w \in Workers : pc[w] = "idle" /\ answer[w] = "none" /\ mine[w] = 0
      /\ boot.at = "idle" /\ boot.todo = {}
      /\ \/ row = [ver |-> 0, val |-> {}] /\ journal = {} /\ sequence = 0
         \/ /\ row = [ver |-> 1, val |-> {Seed}] /\ sequence = 1
            /\ journal = {[seq |-> 1, val |-> {Seed}, by |-> Seed]}
  BY DEF Init
<1>5. Shaped /\ Untold
  <2>1. Shaped
    BY <1>4 DEF Shaped
  <2>2. \A e \in journal : \A w \in Workers : e.by # w
    BY <1>4, DispatchAssumption
  <2> QED BY <1>4, <2>1, <2>2 DEF Untold
<1>6. Acting /\ Present /\ Absent /\ PutsAlone
  BY <1>4 DEF Acting, Present, Absent, PutsAlone, Checked, Holding
<1>7. Numbered /\ Single /\ Fresh
  BY <1>4 DEF Numbered, Single, Fresh
<1>8. BootAlone /\ BootReads
  BY <1>4 DEF BootAlone, BootReads
<1>9. row.val = JournalState /\ (journal = {} => row.val = {})
  <2>1. CASE row = [ver |-> 0, val |-> {}] /\ journal = {}
    BY <2>1 DEF JournalState
  <2>2. CASE row = [ver |-> 1, val |-> {Seed}] /\ journal = {[seq |-> 1, val |-> {Seed}, by |-> Seed]}
    <3>1. PICK e : journal = {e} /\ e.val = row.val
      <4>1. PICK e : e = [seq |-> 1, val |-> {Seed}, by |-> Seed]
        OBVIOUS
      <4>2. journal = {e} /\ e.val = row.val
        BY <2>2, <4>1
      <4> QED BY <4>2
    <3>2. NewestVal(journal) = e.val
      BY <1>1, <3>1, Newest DEF TypeOK
    <3> QED BY <3>1, <3>2 DEF NewestVal, JournalState
  <2> QED BY <1>4, <2>1, <2>2
<1>10. Agreed
  BY <1>9 DEF Agreed
<1> QED BY <1>1, <1>2, <1>3, <1>5, <1>6, <1>7, <1>8, <1>10 DEF OrderInv

(* The row is what the journal's newest entry says whenever no projection is *)
(* pending, for any number of dispatches, deaths and restarts on all four    *)
(* stores (AppendOnly#save, put_entry, recover!).  It rests on dispatches    *)
(* resolving one lock key, on a reading creator being the only creator on    *)
(* Postgres, and on no process booting there while others dispatch.          *)
THEOREM RowIsJournal ==
    ASSUME OneKey, CreatorsApart, ~Alongside PROVE Spec => []JournalAgrees
<1>1. Init => OrderInv
  BY OrderStart
<1>2. OrderInv /\ [Next]_vars => OrderInv'
  BY OrderStep
<1>3. OrderInv => JournalAgrees
  BY DEF OrderInv, Agreed, JournalAgrees, Unblinded
<1> QED BY <1>1, <1>2, <1>3, PTL DEF Spec

-----------------------------------------------------------------------------
(* The refinement's mapping, named. *)
RecordNow == IF Transactional THEN row.val ELSE JournalState
OutcomeNow == [w \in Workers |-> IF \E e \in journal : e.by = w THEN "done" ELSE answer[w]]
AdmittedNow(w) ==
    IF kind[w] \in {"create", "put"} THEN RecordNow = {}
    ELSE RecordNow # {} /\ (kind[w] = "act" => RecordNow \cap Bars[w] = {})

(* The steps of the abstract record, in these names. *)
LEMMA AbstractSteps ==
    ASSUME NEW w \in Workers, kind' = kind, OutcomeNow[w] = "none"
    PROVE  /\ /\ OutcomeNow' = [OutcomeNow EXCEPT ![w] = "done"] /\ AdmittedNow(w)
              /\ RecordNow' = IF kind[w] = "act" THEN RecordNow \cup {w} ELSE {w}
              => Promised!Next
           /\ /\ OutcomeNow' = [OutcomeNow EXCEPT ![w] = "refused"] /\ ~AdmittedNow(w)
              /\ RecordNow' = RecordNow
              => Promised!Next
           /\ /\ OutcomeNow' = [OutcomeNow EXCEPT ![w] = "stale"] /\ RecordNow' = RecordNow
              => Promised!Next
<1>1. ASSUME OutcomeNow' = [OutcomeNow EXCEPT ![w] = "done"], AdmittedNow(w),
             RecordNow' = IF kind[w] = "act" THEN RecordNow \cup {w} ELSE {w}
      PROVE  Promised!Next
  <2>1. Promised!Answer(w, "done")
    BY <1>1 DEF Promised!Answer, OutcomeNow
  <2>2. Promised!Admitted(w)
    BY <1>1 DEF Promised!Admitted, AdmittedNow, RecordNow
  <2>3. RecordNow' = Promised!Effect(w)
    BY <1>1 DEF Promised!Effect, RecordNow
  <2>4. Promised!Apply(w)
    BY <2>1, <2>2, <2>3 DEF Promised!Apply, RecordNow
  <2> QED BY <2>4 DEF Promised!Next
<1>2. ASSUME OutcomeNow' = [OutcomeNow EXCEPT ![w] = "refused"], ~AdmittedNow(w), RecordNow' = RecordNow
      PROVE  Promised!Next
  <2>1. Promised!Answer(w, "refused")
    BY <1>2 DEF Promised!Answer, OutcomeNow
  <2>2. ~Promised!Admitted(w)
    BY <1>2 DEF Promised!Admitted, AdmittedNow, RecordNow
  <2>3. Promised!Refuse(w)
    BY <1>2, <2>1, <2>2 DEF Promised!Refuse, RecordNow
  <2> QED BY <2>3 DEF Promised!Next
<1>3. ASSUME OutcomeNow' = [OutcomeNow EXCEPT ![w] = "stale"], RecordNow' = RecordNow
      PROVE  Promised!Next
  <2>1. Promised!Answer(w, "stale")
    BY <1>3 DEF Promised!Answer, OutcomeNow
  <2>2. Promised!GiveUp(w)
    BY <1>3, <2>1 DEF Promised!GiveUp, RecordNow
  <2> QED BY <2>2 DEF Promised!Next
<1> QED BY <1>1, <1>2, <1>3

(* What the callers are told and the record together, as one step may leave them. *)
LinearStep == Promised!Next \/ (kind' = kind /\ RecordNow' = RecordNow /\ OutcomeNow' = OutcomeNow)

(* A dispatch in flight has not taken effect, but for Heki's fsynced line. *)
LEMMA NotYet ==
    ASSUME OrderInv, NEW w \in Workers, pc[w] \in InFlight, pc[w] = "appended" => Transactional
    PROVE  OutcomeNow[w] = "none" /\ answer[w] = "none" /\ \A e \in journal : e.by # w
<1>1. \A e \in journal : e.by # w
  BY DEF OrderInv, Untold, InFlight
<1>2. answer[w] = "none"
  BY DEF OrderInv, Untold
<1> QED BY <1>1, <1>2 DEF OutcomeNow

(* While a dispatch that has not appended is in flight under a lock, the row *)
(* is the record; elsewhere it always is.                                    *)
LEMMA RowIsRecord ==
    ASSUME OrderInv, NEW w \in Workers, pc[w] \in InFlight, pc[w] # "appended"
    PROVE  RecordNow = row.val
<1>1. CASE Transactional
  BY <1>1 DEF RecordNow
<1>2. CASE ~Transactional
  <2>1. ~Cas /\ Inv /\ Unblinded
    BY <1>2 DEF Cas, Transactional, OrderInv, Unblinded
  <2>2. \A v \in Workers : pc[v] # "appended"
    BY <2>1, Exclusive DEF InFlight
  <2>3. boot.at = "idle"
    BY DEF OrderInv, BootAlone
  <2> QED BY <1>2, <2>1, <2>2, <2>3 DEF OrderInv, Agreed, RecordNow
<1> QED BY <1>1, <1>2

(* A step that writes no entry changes the outcomes as it changes the answers. *)
LEMMA SameJournal ==
    ASSUME OrderInv, NEW w \in Workers, journal' = journal, OutcomeNow[w] = "none",
           NEW o, answer' = [answer EXCEPT ![w] = o]
    PROVE  OutcomeNow' = [OutcomeNow EXCEPT ![w] = o]
<1>1. \A e \in journal : e.by # w
  BY DEF OutcomeNow
<1>2. DOMAIN answer = Workers
  BY DEF OrderInv, Inv, TypeOK
<1>3. \A v \in Workers : OutcomeNow'[v] = [OutcomeNow EXCEPT ![w] = o][v]
  <2> SUFFICES ASSUME NEW v \in Workers PROVE OutcomeNow'[v] = [OutcomeNow EXCEPT ![w] = o][v]
    OBVIOUS
  <2>1. CASE v = w
    BY <1>1, <1>2, <2>1 DEF OutcomeNow
  <2>2. CASE v # w
    BY <1>2, <2>2 DEF OutcomeNow
  <2> QED BY <2>1, <2>2
<1> QED BY <1>3 DEF OutcomeNow

(* Hydration and the existence check refuse for what the record is. *)
LEMMA RefusalLinear ==
    ASSUME OrderInv, [Next]_vars, NEW w \in Workers, Hydrate(w) \/ PutCheck(w) PROVE LinearStep
<1>1. kind' = kind /\ TypeOK /\ (Transactional' <=> Transactional) /\ Shaped
  BY Settled DEF OrderInv
<1>2. row' = row /\ journal' = journal /\ pc[w] \in InFlight /\ pc[w] # "appended"
  BY DEF Hydrate, PutCheck, durable, At, InFlight
<1>3. RecordNow' = RecordNow /\ RecordNow = row.val
  BY <1>1, <1>2, RowIsRecord DEF RecordNow, JournalState
<1>4. OutcomeNow[w] = "none"
  BY <1>2, NotYet
<1>5. CASE answer' = answer
  BY <1>1, <1>2, <1>3, <1>5 DEF LinearStep, OutcomeNow
<1>6. CASE answer' = [answer EXCEPT ![w] = "refused"] /\ ~AdmittedNow(w)
  <2>1. OutcomeNow' = [OutcomeNow EXCEPT ![w] = "refused"]
    BY <1>2, <1>4, <1>6, SameJournal
  <2> QED BY <1>1, <1>3, <1>4, <1>6, <2>1, AbstractSteps DEF LinearStep
<1>7. CASE Hydrate(w)
  <2>1. answer' = answer \/ (answer' = [answer EXCEPT ![w] = "refused"] /\ ~Admits(w))
    BY <1>7 DEF Hydrate, Refused, Tell
  <2>2. ~Admits(w) => ~AdmittedNow(w)
    BY <1>1, <1>3 DEF Admits, AdmittedNow, Creates, Shaped
  <2> QED BY <1>5, <1>6, <2>1, <2>2
<1>8. CASE PutCheck(w)
  <2>1. answer' = answer \/ (answer' = [answer EXCEPT ![w] = "refused"] /\ kind[w] = "put" /\ row.ver # 0)
    BY <1>8 DEF PutCheck, Refused, Tell
  <2>2. kind[w] = "put" /\ row.ver # 0 => ~AdmittedNow(w)
    BY <1>1, <1>3 DEF AdmittedNow, Shaped
  <2> QED BY <1>5, <1>6, <2>1, <2>2
<1> QED BY <1>7, <1>8

(* A lost race changes nothing, or ends in StaleWrite. *)
LEMMA LoseLinear ==
    ASSUME OrderInv, [Next]_vars, NEW w \in Workers, LoseRace(w) PROVE LinearStep
<1>1. kind' = kind /\ TypeOK /\ (Transactional' <=> Transactional)
  BY Settled
<1>2. row' = row /\ journal' = journal /\ pc[w] \in InFlight /\ Transactional
  BY DEF LoseRace, durable, At, InFlight, Stale, Cas, Transactional
<1>3. RecordNow' = RecordNow
  BY <1>1, <1>2 DEF RecordNow, JournalState
<1>4. OutcomeNow[w] = "none"
  BY <1>2, NotYet
<1>5. CASE answer' = answer
  BY <1>1, <1>2, <1>3, <1>5 DEF LinearStep, OutcomeNow
<1>6. CASE answer' = [answer EXCEPT ![w] = "stale"]
  <2>1. OutcomeNow' = [OutcomeNow EXCEPT ![w] = "stale"]
    BY <1>2, <1>4, <1>6, SameJournal
  <2> QED BY <1>1, <1>3, <1>4, <2>1, AbstractSteps DEF LinearStep
<1> QED BY <1>5, <1>6 DEF LoseRace, Retry, Tell

(* A dispatch that is about to take effect is admitted by the record as it is *)
(* now, and builds on it.                                                     *)
LEMMA AdmittedWhenApplied ==
    ASSUME OrderInv, NEW w \in Workers, pc[w] \in Holding, RecordNow = row.val,
           Creates(w) => Checked(w) \/ ~Puts(w),
           kind[w] = "act" => seen[w].val = row.val
    PROVE  AdmittedNow(w) /\ Built(w) = IF kind[w] = "act" THEN RecordNow \cup {w} ELSE {w}
<1>1. TypeOK /\ Shaped /\ Acting /\ Present /\ Absent
  BY DEF OrderInv, Inv
<1>2. kind[w] \in {"act", "blind", "put", "create"}
  BY <1>1 DEF TypeOK, AllKinds
<1>3. CASE kind[w] = "act"
  BY <1>1, <1>3 DEF Acting, AdmittedNow, Built
<1>4. CASE kind[w] = "blind"
  BY <1>1, <1>4 DEF Present, Shaped, AdmittedNow, Built
<1>5. CASE kind[w] \in {"put", "create"}
  <2>1. row.ver = 0
    BY <1>1, <1>5 DEF Absent, Creates, Checked, Holding
  <2> QED BY <1>1, <1>5, <2>1 DEF Shaped, AdmittedNow, Built
<1> QED BY <1>2, <1>3, <1>4, <1>5

(* Heki's append is where its dispatch takes effect; elsewhere it shows nothing. *)
LEMMA AppendLinear ==
    ASSUME OrderInv, [Next]_vars, NEW w \in Workers, Append(w) PROVE LinearStep
<1>1. kind' = kind /\ TypeOK /\ TypeOK' /\ (Transactional' <=> Transactional)
  BY Settled
<1>2. row' = row /\ answer' = answer /\ pc[w] \in Holding /\ pc[w] # "appended" /\ pc[w] \in InFlight
      /\ (Puts(w) => Checked(w))
  BY DEF Append, At, Holding, InFlight, Checked
<1>3. CASE Transactional
  <2>1. journal' = journal
    BY <1>3 DEF Append
  <2> QED BY <1>1, <1>2, <1>3, <2>1 DEF LinearStep, RecordNow, OutcomeNow
<1>4. CASE ~Transactional
  <2>1. PICK x : x = EntryOf(w, sequence + 1)
    OBVIOUS
  <2>2. /\ journal' = journal \cup {x} /\ x.by = w /\ x.val = Built(w) /\ x.seq = sequence + 1
        /\ sequence \in Nat
    BY <1>1, <1>4, <2>1 DEF Append, EntryOf, TypeOK
  <2>3. RecordNow' = Built(w)
    <3>1. \A d \in journal' : d = x \/ d.seq < x.seq
      BY <1>1, <2>2 DEF OrderInv, Numbered, TypeOK, Entry
    <3>2. NewestVal(journal') = x.val
      BY <1>1, <2>2, <3>1, Newest DEF TypeOK
    <3>3. JournalState' = NewestVal(journal')
      BY DEF JournalState, NewestVal
    <3> QED BY <1>1, <1>4, <2>2, <3>2, <3>3 DEF RecordNow
  <2>4. OutcomeNow[w] = "none"
    BY <1>2, NotYet
  <2>5. OutcomeNow' = [OutcomeNow EXCEPT ![w] = "done"]
    <3>1. \A v \in Workers : OutcomeNow'[v] = [OutcomeNow EXCEPT ![w] = "done"][v]
      <4> SUFFICES ASSUME NEW v \in Workers PROVE OutcomeNow'[v] = [OutcomeNow EXCEPT ![w] = "done"][v]
        OBVIOUS
      <4>1. CASE v = w
        BY <2>2, <4>1 DEF OutcomeNow
      <4>2. CASE v # w
        <5>1. (\E e \in journal' : e.by = v) <=> (\E e \in journal : e.by = v)
          BY <2>2, <4>2
        <5> QED BY <1>2, <4>2, <5>1 DEF OutcomeNow
      <4> QED BY <4>1, <4>2
    <3> QED BY <3>1 DEF OutcomeNow
  <2>6. RecordNow = row.val
    BY <1>2, RowIsRecord
  <2>7. seen[w] = row
    BY <1>2, <1>4 DEF OrderInv, Inv, LockedRead, Cas, Transactional
  <2>8. AdmittedNow(w) /\ Built(w) = IF kind[w] = "act" THEN RecordNow \cup {w} ELSE {w}
    BY <1>2, <2>6, <2>7, AdmittedWhenApplied
  <2> QED BY <1>1, <2>3, <2>4, <2>5, <2>8, AbstractSteps DEF LinearStep
<1> QED BY <1>3, <1>4

(* The commit is where the others' take effect; Heki's shows nothing. *)
LEMMA CommitLinear ==
    ASSUME OrderInv, [Next]_vars, NEW w \in Workers, Commit(w) PROVE LinearStep
<1>1. kind' = kind /\ TypeOK /\ (Transactional' <=> Transactional)
  BY Settled
<1>2. PICK x : x = EntryOf(w, mine[w])
  OBVIOUS
<1>3. /\ pc[w] = "appended" /\ pc[w] \in Holding /\ pc[w] \in InFlight /\ ~Stale(w)
      /\ row'.val = Built(w) /\ journal' = journal \cup {x} /\ x.by = w
      /\ answer' = [answer EXCEPT ![w] = "done"]
      /\ Checked(w) /\ DOMAIN answer = Workers
  BY <1>1, <1>2 DEF Commit, At, Tell, EntryOf, Holding, InFlight, Checked, TypeOK
<1>4. \A v \in Workers : v # w => OutcomeNow'[v] = OutcomeNow[v]
  <2> SUFFICES ASSUME NEW v \in Workers, v # w PROVE OutcomeNow'[v] = OutcomeNow[v]
    OBVIOUS
  <2>1. (\E e \in journal' : e.by = v) <=> (\E e \in journal : e.by = v)
    BY <1>3
  <2> QED BY <1>3, <2>1 DEF OutcomeNow
<1>5. OutcomeNow'[w] = "done"
  BY <1>3 DEF OutcomeNow
<1>6. CASE Transactional
  <2>1. OutcomeNow[w] = "none"
    BY <1>3, <1>6, NotYet
  <2>2. OutcomeNow' = [OutcomeNow EXCEPT ![w] = "done"]
    <3>1. \A v \in Workers : OutcomeNow'[v] = [OutcomeNow EXCEPT ![w] = "done"][v]
      BY <1>4, <1>5 DEF OutcomeNow
    <3> QED BY <3>1 DEF OutcomeNow
  <2>3. RecordNow = row.val /\ RecordNow' = Built(w)
    BY <1>1, <1>3, <1>6 DEF RecordNow
  <2>4. kind[w] = "act" => seen[w].val = row.val
    BY <1>3 DEF Stale, OrderInv, Inv, LockedRead, VersionedRead
  <2>5. AdmittedNow(w) /\ Built(w) = IF kind[w] = "act" THEN RecordNow \cup {w} ELSE {w}
    BY <1>3, <2>3, <2>4, AdmittedWhenApplied
  <2> QED BY <1>1, <2>1, <2>2, <2>3, <2>5, AbstractSteps DEF LinearStep
<1>7. CASE ~Transactional
  <2>1. x \in journal
    BY <1>2, <1>3, <1>7 DEF OrderInv, Untold
  <2>2. journal' = journal
    BY <1>3, <2>1
  <2>3. RecordNow' = RecordNow
    BY <1>1, <1>7, <2>2 DEF RecordNow, JournalState
  <2>4. OutcomeNow[w] = "done"
    BY <1>3, <2>1 DEF OutcomeNow
  <2>5. \A v \in Workers : OutcomeNow'[v] = OutcomeNow[v]
    BY <1>4, <1>5, <2>4
  <2>6. OutcomeNow' = OutcomeNow
    BY <2>5 DEF OutcomeNow
  <2> QED BY <1>1, <2>3, <2>6 DEF LinearStep
<1> QED BY <1>6, <1>7

(* Beginnings, deaths, boots and recovery show callers nothing. *)
LEMMA OutsideLinear ==
    ASSUME OrderInv, [Next]_vars,
           (\E w \in Workers : Begin(w) \/ Die(w)) \/ Restart \/ BootAnother \/ Recover \/ UNCHANGED vars
    PROVE  LinearStep
<1>1. kind' = kind /\ (Transactional' <=> Transactional)
  BY Settled
<1>2. journal' = journal /\ answer' = answer
  BY DEF Begin, Die, Restart, BootAnother, Recover, ReadCheckpoint, ReadEntries, Recovered, Replay,
         durable, working, vars
<1>3. Transactional => row' = row
  <2>1. Transactional => boot.todo = {}
    BY DEF OrderInv, BootReads
  <2> QED BY <2>1 DEF Begin, Die, Restart, BootAnother, Recover, ReadCheckpoint, ReadEntries, Recovered,
                      durable, vars
<1>4. RecordNow' = RecordNow
  BY <1>1, <1>2, <1>3 DEF RecordNow, JournalState
<1> QED BY <1>1, <1>2, <1>4 DEF LinearStep, OutcomeNow

(* Dispatch implements the atomic record, on all four stores, for any number *)
(* of dispatches, deaths and restarts: each command takes effect at one      *)
(* instant, at its commit or at Heki's append, against the record as it is   *)
(* then; each refusal is true of the record when it is made; and a boot      *)
(* shows callers nothing (CommandInterpreter#call, AppendOnly).  It rests on *)
(* the same conditions as RowIsJournal.                                      *)
THEOREM DispatchIsLinearizable ==
    ASSUME OneKey, CreatorsApart, ~Alongside PROVE Spec => Linearizable
<1>1. Init => OrderInv
  BY OrderStart
<1>2. OrderInv /\ [Next]_vars => OrderInv'
  BY OrderStep
<1>3. Init => Promised!Init
  <2> SUFFICES ASSUME Init PROVE Promised!Init
    OBVIOUS
  <2>1. \A w \in Workers : answer[w] = "none"
    BY DEF Init
  <2>2. \A e \in journal : \A w \in Workers : e.by # w
    BY DispatchAssumption DEF Init
  <2> QED BY <2>1, <2>2 DEF Promised!Init
<1>4. OrderInv /\ [Next]_vars => LinearStep
  BY RefusalLinear, LoseLinear, AppendLinear, CommitLinear, OutsideLinear DEF Next, Dispatch
<1>5. LinearStep =>
        [Promised!Next]_<<kind, IF Transactional THEN row.val ELSE JournalState,
                          [w \in Workers |-> IF \E e \in journal : e.by = w THEN "done" ELSE answer[w]]>>
  BY DEF LinearStep, RecordNow, OutcomeNow
<1> QED BY <1>1, <1>2, <1>3, <1>4, <1>5, PTL DEF Spec, Linearizable, Promised!Spec
=============================================================================
