------------------------ MODULE LineageLedgerProofs -------------------------
(***************************************************************************)
(* Theorems about LineageLedger for every number of hosts, records,        *)
(* ordinals and aborts.                                                    *)
(***************************************************************************)
EXTENDS LineageLedger, TLAPS

USE LedgerAssumption, NoneAssumption

JournalRow == [ord: Nat \ {0}, id: Ids]
LastSeal == [through: Nat, head: SUBSET Nat]
Anchor == [through: Nat, previous: SUBSET Nat, head: SUBSET Nat]
PcSet == {"idle", "open", "appended", "sealing", "ready"}

(* What each variable holds, whatever the bounds. *)
Types ==
    /\ setting \in Settings
    /\ sequence \in Nat
    /\ rows \in SUBSET JournalRow
    /\ head \in [Ids -> Nat]
    /\ anchors \in SUBSET Anchor
    /\ lock \in [Locks -> Hosts \cup {None}]
    /\ rowlock \in [Ids -> Hosts \cup {None}]
    /\ pc \in [Hosts -> PcSet]
    /\ kind \in [Hosts -> AllKinds]
    /\ mine \in [Hosts -> SUBSET JournalRow]
    /\ staged \in [Hosts -> [Ids -> Nat]]
    /\ saw \in [Hosts -> [Ids -> Nat]]
    /\ due \in [Hosts \cup Operators -> LastSeal]
    /\ seal \in [Hosts -> SUBSET Anchor]
    /\ op \in [Operators -> {"idle", "read"}]
    /\ aborts \in Nat

----------------------------------------------------------------------------
(* The parts of the invariant about heads. *)

(* Ordinals come from one sequence, and each of them names one row. *)
Taken ==
    /\ \A r \in rows : r.ord <= sequence
    /\ \A h \in Hosts : \A r \in mine[h] : r.ord <= sequence
    /\ \A h \in Hosts : \A r, s \in mine[h] : r.ord = s.ord => r = s

(* A record's staged head is its transaction's alone until it ends. *)
StagedIsLocked ==
    \A h \in Hosts, i \in Ids : staged[h][i] # 0 => rowlock[i] = h

(* A staged head shows a row the transaction will have committed, none older *)
(* than the head it replaces.                                                *)
StagedIsNewer ==
    \A h \in Hosts, i \in Ids : staged[h][i] # 0 =>
        /\ head[i] <= staged[h][i]
        /\ [ord |-> staged[h][i], id |-> i] \in rows \cup mine[h]

(* Every row of a transaction but the one whose upsert is next is staged. *)
RowsStaged ==
    \A h \in Hosts : \A r \in mine[h] :
        \/ pc[h] = "appended" /\ \A s \in mine[h] : s.ord <= r.ord
        \/ staged[h][r.id] # 0 /\ r.ord <= staged[h][r.id]

(* A host with no open transaction has staged no row and no seal. *)
IdleIsEmpty ==
    \A h \in Hosts : pc[h] = "idle" => mine[h] = {} /\ seal[h] = {}

HeadInv ==
    Types /\ Taken /\ StagedIsLocked /\ StagedIsNewer /\ RowsStaged /\ HeadIsLatest

----------------------------------------------------------------------------
(* The parts of the invariant about seals. *)

(* Whoever has begun holds the advisory lock of its kind. *)
BegunHolds ==
    \A h \in Hosts : pc[h] # "idle" =>
        /\ kind[h] \in setting.kinds
        /\ \A l \in LockOf(kind[h]) : lock[l] = h

(* The writers of a setting share one advisory lock. *)
OneLock(s) == s.kinds \subseteq {"dispatch"} \/ s.kinds \subseteq {"put", "amend"}

(* One party seals: dispatches on their interval, or one operator. *)
OneSealer(s) ==
    /\ \A o, q \in s.operators : o = q
    /\ s.operators # {} => s.every = 0 \/ "dispatch" \notin s.kinds

(* Nobody seals in the setting. *)
Unsealed(s) == s.every = 0 /\ s.operators = {}

(* No ordinal in flight is below a committed one. *)
InFlightIsLater ==
    \A h \in Hosts : \A r \in mine[h], s \in rows : s.ord < r.ord

(* What an open amendment read is still the head. *)
AmendsCurrent ==
    \A h \in Hosts : pc[h] # "idle" /\ kind[h] = "amend" => saw[h] = head

(* The ordinals that a digest up to n is made of. *)
UpTo(visible, n) == {m \in {r.ord : r \in visible} : m <= n}

(* A seal's digest is of all the rows up to its end, which is a row's. *)
SealsFull ==
    \A a \in anchors :
        /\ a.head = UpTo(rows, a.through)
        /\ \E r \in rows : r.ord = a.through
        /\ 0 < a.through

(* One seal per end, each on the one before it. *)
SealsFollow ==
    \A a \in anchors :
        /\ \A b \in anchors : a.through = b.through => a = b
        /\ (\A b \in anchors : a.through <= b.through) => a.previous = Genesis
        /\ \A b \in anchors :
              (b.through < a.through
                 /\ \A c \in anchors : c.through < a.through => c.through <= b.through)
              => a.previous = b.head

(* What a sealer read is still the last seal. *)
DueIsLast ==
    /\ \A h \in Hosts : pc[h] = "sealing" =>
          setting.every > 0 /\ kind[h] = "dispatch" /\ due[h] \in LastSeals
    /\ \A o \in Operators : op[o] = "read" => o \in setting.operators /\ due[o] \in LastSeals

(* A staged seal will be the next one when its transaction commits. *)
StagedSeal ==
    \A h \in Hosts : \A a \in seal[h] :
        /\ pc[h] = "ready" /\ setting.every > 0 /\ kind[h] = "dispatch"
        /\ a.head = UpTo(Visible(h), a.through)
        /\ \E r \in Visible(h) : r.ord = a.through
        /\ \E last \in LastSeals : last.through < a.through /\ a.previous = last.head
        /\ \A b \in seal[h] : a = b

(* Nobody seals where nobody is set to. *)
NeverSealed ==
    /\ anchors = {} /\ \A h \in Hosts : seal[h] = {} /\ pc[h] # "sealing"
    /\ \A o \in Operators : op[o] = "idle"

(* What every lock argument needs. *)
LockInv == Types /\ Taken /\ IdleIsEmpty /\ BegunHolds

AmendInv == LockInv /\ AmendsCurrent

SealInv ==
    /\ LockInv
    /\ Unsealed(setting) => NeverSealed
    /\ ~Unsealed(setting) =>
          InFlightIsLater /\ SealsFull /\ SealsFollow /\ DueIsLast /\ StagedSeal

----------------------------------------------------------------------------
(* What a transaction's end leaves is well typed. *)
LEMMA ReleaseTypes ==
    ASSUME Types, NEW h \in Hosts, Release(h)
    PROVE  /\ lock' \in [Locks -> Hosts \cup {None}]
           /\ rowlock' \in [Ids -> Hosts \cup {None}]
           /\ pc' \in [Hosts -> PcSet]
           /\ mine' \in [Hosts -> SUBSET JournalRow]
           /\ staged' \in [Hosts -> [Ids -> Nat]]
           /\ saw' \in [Hosts -> [Ids -> Nat]]
           /\ seal' \in [Hosts -> SUBSET Anchor]
<1>1. NoHeads \in [Ids -> Nat]
  BY DEF NoHeads
<1> QED BY <1>1 DEF Types, Release, PcSet

(* The seal a sealer reads, and the one it makes, are well typed. *)
LEMMA SealTypes ==
    ASSUME Types
    PROVE  /\ LastSeals \subseteq LastSeal
           /\ \A visible \in SUBSET JournalRow :
                 /\ Ends(visible) \subseteq Nat
                 /\ \A last \in LastSeal, end \in Nat :
                       SealOf(visible, last, end) \in Anchor
<1>1. LastSeals \subseteq LastSeal
  BY DEF Types, LastSeals, LastSeal, Anchor, Genesis
<1>2. ASSUME NEW visible \in SUBSET JournalRow
      PROVE  /\ Ends(visible) \subseteq Nat
             /\ \A last \in LastSeal, end \in Nat : SealOf(visible, last, end) \in Anchor
  <2>1. {r.ord : r \in visible} \subseteq Nat
    BY DEF JournalRow
  <2> QED BY <2>1 DEF Ends, SealOf, Fold, Anchor, LastSeal
<1> QED BY <1>1, <1>2

(* Every step keeps the variables in their types. *)
LEMMA TypesKept == Types /\ [Next]_vars => Types'
<1> SUFFICES ASSUME Types, [Next]_vars PROVE Types'
  OBVIOUS
<1>1. ASSUME NEW h \in Hosts, NEW k \in AllKinds, Begin(h, k) PROVE Types'
  <2>1. lock' \in [Locks -> Hosts \cup {None}]
    BY <1>1 DEF Types, Begin
  <2>2. saw' \in [Hosts -> [Ids -> Nat]]
    BY <1>1 DEF Types, Begin, NoHeads
  <2> QED BY <1>1, <2>1, <2>2 DEF Types, Begin, PcSet
<1>2. ASSUME NEW h \in Hosts, NEW i \in Ids, Append(h, i) PROVE Types'
  <2>1. [ord |-> sequence + 1, id |-> i] \in JournalRow
    BY DEF Types, JournalRow
  <2> QED BY <1>2, <2>1 DEF Types, Append, PcSet
<1>3. ASSUME NEW h \in Hosts, Upsert(h) PROVE Types'
  <2>1. PICK r \in mine[h] :
          /\ rowlock' = [rowlock EXCEPT ![r.id] = h]
          /\ staged' = [staged EXCEPT ![h][r.id] =
                LET held == IF @ # 0 THEN @ ELSE head[r.id]
                IN  IF Newer(held, r.ord) THEN r.ord ELSE held]
    BY <1>3 DEF Upsert
  <2>2. r.id \in Ids /\ r.ord \in Nat
    BY DEF Types, JournalRow
  <2>3. staged' \in [Hosts -> [Ids -> Nat]]
    BY <2>1, <2>2 DEF Types
  <2> QED BY <1>3, <2>1, <2>2, <2>3 DEF Types, Upsert, PcSet
<1>4. ASSUME NEW h \in Hosts, Written(h) PROVE Types'
  BY <1>4, SealTypes DEF Types, Written, PcSet
<1>5. ASSUME NEW h \in Hosts, SealDue(h) PROVE Types'
  <2>1. Visible(h) \in SUBSET JournalRow /\ due[h] \in LastSeal
    BY DEF Types, Visible
  <2>2. PICK end \in Ends(Visible(h)) :
          \/ UNCHANGED seal
          \/ seal' = [seal EXCEPT ![h] = {SealOf(Visible(h), due[h], end)}]
    BY <1>5 DEF SealDue
  <2>3. SealOf(Visible(h), due[h], end) \in Anchor
    BY <2>1, SealTypes
  <2>4. {SealOf(Visible(h), due[h], end)} \in SUBSET Anchor
    BY <2>3
  <2>5. seal' \in [Hosts -> SUBSET Anchor]
    BY <2>2, <2>4 DEF Types
  <2> QED BY <1>5, <2>5 DEF Types, SealDue, PcSet
<1>6. ASSUME NEW h \in Hosts, Commit(h) PROVE Types'
  <2>1. head' \in [Ids -> Nat]
    BY <1>6 DEF Types, Commit
  <2>2. rows' \in SUBSET JournalRow /\ anchors' \in SUBSET Anchor
    BY <1>6 DEF Types, Commit
  <2> QED BY <1>6, <2>1, <2>2, ReleaseTypes DEF Types, Commit
<1>7. ASSUME NEW h \in Hosts, Abort(h) PROVE Types'
  BY <1>7, ReleaseTypes DEF Types, Abort
<1>8. ASSUME NEW o \in Operators, OpRead(o) PROVE Types'
  BY <1>8, SealTypes DEF Types, OpRead
<1>9. ASSUME NEW o \in Operators, OpSeal(o) PROVE Types'
  <2>1. due[o] \in LastSeal
    BY DEF Types
  <2>2. anchors' \in SUBSET Anchor
    BY <1>9, <2>1, SealTypes DEF Types, OpSeal
  <2> QED BY <1>9, <2>2 DEF Types, OpSeal
<1>10. CASE UNCHANGED vars
  BY <1>10 DEF Types, vars
<1> QED BY <1>1, <1>2, <1>3, <1>4, <1>5, <1>6, <1>7, <1>8, <1>9, <1>10
        DEF Next, HostStep

(* The variables have their types at the start. *)
LEMMA InitTypes == Init => Types
BY DEF Init, Types, NoHeads, Locks, PcSet, AllKinds, LastSeal, Genesis

----------------------------------------------------------------------------
(* The upsert stages the newest of the head it finds and its own row. *)
LEMMA UpsertStages ==
    ASSUME HeadInv, NEW h \in Hosts, Upsert(h)
    PROVE  \E r \in mine[h] :
              /\ \A s \in mine[h] : s.ord <= r.ord
              /\ rowlock[r.id] \in {None, h}
              /\ rowlock' = [rowlock EXCEPT ![r.id] = h]
              /\ staged' = [staged EXCEPT ![h][r.id] = staged'[h][r.id]]
              /\ staged'[h][r.id] \in Nat /\ r.ord <= staged'[h][r.id]
              /\ head[r.id] <= staged'[h][r.id]
              /\ [ord |-> staged'[h][r.id], id |-> r.id] \in rows \cup mine[h]
              /\ staged[h][r.id] <= staged'[h][r.id]
<1>1. PICK r \in mine[h] :
        /\ \A s \in mine[h] : s.ord <= r.ord
        /\ rowlock[r.id] \in {None, h}
        /\ rowlock' = [rowlock EXCEPT ![r.id] = h]
        /\ staged' = [staged EXCEPT ![h][r.id] =
              LET held == IF @ # 0 THEN @ ELSE head[r.id]
              IN  IF Newer(held, r.ord) THEN r.ord ELSE held]
  BY DEF Upsert
<1> DEFINE was == IF staged[h][r.id] # 0 THEN staged[h][r.id] ELSE head[r.id]
           is == IF was < r.ord THEN r.ord ELSE was
<1>2. r.id \in Ids /\ r.ord \in Nat \ {0} /\ r = [ord |-> r.ord, id |-> r.id]
  BY DEF HeadInv, Types, JournalRow
<1>3. staged' = [staged EXCEPT ![h][r.id] = is]
  BY <1>1 DEF Newer
<1>4. staged'[h][r.id] = is
  BY <1>2, <1>3 DEF HeadInv, Types
<1>5. was \in Nat /\ head[r.id] <= was /\ staged[h][r.id] <= was
      /\ (was # 0 => [ord |-> was, id |-> r.id] \in rows \cup mine[h])
  BY <1>2 DEF HeadInv, Types, StagedIsNewer, HeadIsLatest
<1> HIDE DEF was
<1>6. is \in Nat /\ r.ord <= is /\ head[r.id] <= is /\ staged[h][r.id] <= is
      /\ [ord |-> is, id |-> r.id] \in rows \cup mine[h]
  <2>1. head[r.id] \in Nat /\ staged[h][r.id] \in Nat
    BY <1>2 DEF HeadInv, Types
  <2>2. CASE was < r.ord
    BY <1>2, <1>5, <2>1, <2>2
  <2>3. CASE ~(was < r.ord)
    BY <1>2, <1>5, <2>1, <2>3
  <2> QED BY <2>2, <2>3
<1> HIDE DEF is
<1> QED BY <1>1, <1>3, <1>4, <1>6

(* Every step keeps the invariant about heads. *)
LEMMA HeadInvKept == HeadInv /\ [Next]_vars => HeadInv'
<1> SUFFICES ASSUME HeadInv, [Next]_vars PROVE HeadInv'
  OBVIOUS
<1>0. Types /\ Types'
  BY TypesKept DEF HeadInv
<1> DEFINE Heads == Taken /\ StagedIsLocked /\ StagedIsNewer /\ RowsStaged /\ HeadIsLatest
<1>h. Heads
  BY DEF HeadInv
<1>1. ASSUME NEW h \in Hosts, NEW k \in AllKinds, Begin(h, k) PROVE Heads'
  BY <1>1, <1>0, <1>h DEF Begin, Types, Taken, StagedIsLocked, StagedIsNewer, RowsStaged, HeadIsLatest
<1>2. ASSUME NEW h \in Hosts, NEW i \in Ids, Append(h, i) PROVE Heads'
  <2> DEFINE new == [ord |-> sequence + 1, id |-> i]
  <2>1. mine' = [mine EXCEPT ![h] = @ \cup {new}] /\ sequence' = sequence + 1
        /\ pc[h] = "open" /\ pc' = [pc EXCEPT ![h] = "appended"]
        /\ UNCHANGED <<rows, head, rowlock, staged>>
    BY <1>2 DEF Append
  <2>2. Taken'
    BY <2>1, <1>0, <1>h DEF Types, Taken, JournalRow
  <2>3. StagedIsLocked' /\ StagedIsNewer' /\ HeadIsLatest'
    BY <2>1, <1>0, <1>h DEF Types, StagedIsLocked, StagedIsNewer, HeadIsLatest
  <2>4. RowsStaged'
    <3> SUFFICES ASSUME NEW g \in Hosts, NEW r \in mine'[g]
                 PROVE  \/ pc'[g] = "appended" /\ \A s \in mine'[g] : s.ord <= r.ord
                        \/ staged'[g][r.id] # 0 /\ r.ord <= staged'[g][r.id]
      BY DEF RowsStaged
    <3>1. CASE g = h /\ r = new
      BY <3>1, <2>1, <1>0, <1>h DEF Types, Taken, JournalRow
    <3>2. CASE ~(g = h /\ r = new)
      BY <3>2, <2>1, <1>0, <1>h DEF Types, RowsStaged
    <3> QED BY <3>1, <3>2
  <2> QED BY <2>2, <2>3, <2>4
<1>3. ASSUME NEW h \in Hosts, Upsert(h) PROVE Heads'
  <2>1. PICK r \in mine[h] :
              /\ \A s \in mine[h] : s.ord <= r.ord
              /\ rowlock[r.id] \in {None, h}
              /\ rowlock' = [rowlock EXCEPT ![r.id] = h]
              /\ staged' = [staged EXCEPT ![h][r.id] = staged'[h][r.id]]
              /\ staged'[h][r.id] \in Nat /\ r.ord <= staged'[h][r.id]
              /\ head[r.id] <= staged'[h][r.id]
              /\ [ord |-> staged'[h][r.id], id |-> r.id] \in rows \cup mine[h]
              /\ staged[h][r.id] <= staged'[h][r.id]
    BY <1>3, UpsertStages
  <2>2. r.id \in Ids /\ r.ord \in Nat \ {0}
    BY <1>0 DEF Types, JournalRow
  <2>3. UNCHANGED <<sequence, rows, head, mine>> /\ pc[h] = "appended"
        /\ pc' = [pc EXCEPT ![h] = "open"]
    BY <1>3 DEF Upsert
  <2>4. \A g \in Hosts, i \in Ids :
           ~(g = h /\ i = r.id) => staged'[g][i] = staged[g][i]
    BY <2>1, <2>2, <1>0 DEF Types
  <2>5. StagedIsLocked'
    BY <2>1, <2>2, <2>4, <1>0, <1>h DEF Types, StagedIsLocked
  <2>6. StagedIsNewer'
    BY <2>1, <2>2, <2>3, <2>4, <1>h DEF StagedIsNewer
  <2>7. RowsStaged'
    <3> SUFFICES ASSUME NEW g \in Hosts, NEW s \in mine[g]
                 PROVE  \/ pc'[g] = "appended" /\ \A t \in mine[g] : t.ord <= s.ord
                        \/ staged'[g][s.id] # 0 /\ s.ord <= staged'[g][s.id]
      BY <2>3 DEF RowsStaged
    <3>1. s.id \in Ids /\ s.ord \in Nat
      BY <1>0 DEF Types, JournalRow
    <3>2. CASE g # h
      BY <3>1, <3>2, <2>3, <2>4, <1>0, <1>h DEF Types, RowsStaged
    <3>3. CASE g = h /\ s.id = r.id
      BY <3>1, <3>3, <2>1, <2>2
    <3>4. CASE g = h /\ s.id # r.id
      <4>1. staged[h][s.id] # 0 /\ s.ord <= staged[h][s.id]
        <5>1. CASE \A t \in mine[h] : t.ord <= s.ord
          <6>1. s.ord = r.ord
            BY <5>1, <3>1, <3>4, <2>1, <2>2
          <6> QED BY <6>1, <3>4, <1>h DEF Taken
        <5>2. CASE ~(\A t \in mine[h] : t.ord <= s.ord)
          BY <5>2, <3>4, <1>h DEF RowsStaged
        <5> QED BY <5>1, <5>2
      <4> QED BY <4>1, <3>1, <3>4, <2>4
    <3> QED BY <3>2, <3>3, <3>4
  <2>8. Taken' /\ HeadIsLatest'
    BY <2>3, <1>h DEF Taken, HeadIsLatest
  <2> QED BY <2>5, <2>6, <2>7, <2>8
<1>4. ASSUME NEW h \in Hosts, Written(h) \/ SealDue(h) PROVE Heads'
  BY <1>4, <1>0, <1>h DEF Written, SealDue, Types, Taken, StagedIsLocked, StagedIsNewer, RowsStaged, HeadIsLatest
<1>5. ASSUME NEW h \in Hosts, Commit(h) PROVE Heads'
  <2>1. pc[h] = "ready" /\ rows' = rows \cup mine[h] /\ UNCHANGED sequence
        /\ head' = [i \in Ids |-> IF staged[h][i] # 0 THEN staged[h][i] ELSE head[i]]
    BY <1>5 DEF Commit
  <2>2. Release(h)
    BY <1>5 DEF Commit
  <2>3. HeadIsLatest'
    <3> SUFFICES ASSUME NEW i \in Ids
                 PROVE  /\ \A r \in rows' : r.id = i => r.ord <= head'[i]
                        /\ head'[i] # 0 => [ord |-> head'[i], id |-> i] \in rows'
      BY DEF HeadIsLatest
    <3>1. head[i] \in Nat /\ staged[h][i] \in Nat
          /\ head'[i] = IF staged[h][i] # 0 THEN staged[h][i] ELSE head[i]
      BY <2>1, <1>0 DEF Types
    <3>5. head[i] <= head'[i]
      <4>1. CASE staged[h][i] # 0
        BY <3>1, <4>1, <1>h DEF StagedIsNewer
      <4>2. CASE staged[h][i] = 0
        BY <3>1, <4>2
      <4> QED BY <4>1, <4>2
    <3>2. ASSUME NEW r \in rows, r.id = i PROVE r.ord <= head'[i]
      <4>1. r.ord \in Nat /\ r.ord <= head[i] /\ head'[i] \in Nat
        BY <3>2, <1>0, <1>h DEF Types, JournalRow, HeadIsLatest
      <4> QED BY <3>1, <3>5, <4>1
    <3>3. ASSUME NEW r \in mine[h], r.id = i PROVE r.ord <= head'[i]
      BY <3>1, <3>3, <2>1, <1>h DEF RowsStaged
    <3>4. head'[i] # 0 => [ord |-> head'[i], id |-> i] \in rows'
      BY <2>1, <3>1, <1>h DEF StagedIsNewer, HeadIsLatest
    <3> QED BY <2>1, <3>2, <3>3, <3>4
  <2>4. \A g \in Hosts : g # h => mine'[g] = mine[g] /\ staged'[g] = staged[g] /\ pc'[g] = pc[g]
    BY <2>2, <1>0 DEF Release, Types
  <2>5. mine'[h] = {} /\ \A i \in Ids : staged'[h][i] = 0
    BY <2>2, <1>0 DEF Release, Types, NoHeads
  <2>6. Taken'
    BY <2>1, <2>4, <2>5, <1>h DEF Taken
  <2>9. RowsStaged'
    BY <2>4, <2>5, <1>h DEF RowsStaged
  <2>7. StagedIsLocked'
    BY <2>2, <2>4, <2>5, <1>h DEF Release, StagedIsLocked
  <2>8. StagedIsNewer'
    BY <2>1, <2>4, <2>5, <1>h DEF StagedIsNewer, StagedIsLocked
  <2> QED BY <2>3, <2>6, <2>7, <2>8, <2>9
<1>6. ASSUME NEW h \in Hosts, Abort(h) PROVE Heads'
  <2>1. Release(h) /\ UNCHANGED <<sequence, rows, head>>
    BY <1>6 DEF Abort
  <2>4. \A g \in Hosts : g # h => mine'[g] = mine[g] /\ staged'[g] = staged[g] /\ pc'[g] = pc[g]
    BY <2>1, <1>0 DEF Release, Types
  <2>5. mine'[h] = {} /\ \A i \in Ids : staged'[h][i] = 0
    BY <2>1, <1>0 DEF Release, Types, NoHeads
  <2>6. Taken' /\ HeadIsLatest'
    BY <2>1, <2>4, <2>5, <1>h DEF Taken, HeadIsLatest
  <2>9. RowsStaged'
    BY <2>4, <2>5, <1>h DEF RowsStaged
  <2>7. StagedIsLocked'
    BY <2>1, <2>4, <2>5, <1>h DEF Release, StagedIsLocked
  <2>8. StagedIsNewer'
    BY <2>1, <2>4, <2>5, <1>h DEF StagedIsNewer
  <2> QED BY <2>6, <2>7, <2>8, <2>9
<1>7. ASSUME NEW o \in Operators, OpRead(o) \/ OpSeal(o) PROVE Heads'
  BY <1>7, <1>h DEF OpRead, OpSeal, Taken, StagedIsLocked, StagedIsNewer, RowsStaged, HeadIsLatest
<1>8. ASSUME UNCHANGED vars PROVE Heads'
  BY <1>8, <1>h DEF vars, Taken, StagedIsLocked, StagedIsNewer, RowsStaged, HeadIsLatest
<1>9. Heads'
  BY <1>1, <1>2, <1>3, <1>4, <1>5, <1>6, <1>7, <1>8 DEF Next, HostStep
<1> QED BY <1>0, <1>9 DEF HeadInv

(* The invariant about heads holds at the start. *)
LEMMA InitHeadInv == Init => HeadInv
<1> SUFFICES ASSUME Init PROVE HeadInv
  OBVIOUS
<1>1. Types
  BY InitTypes
<1> QED BY <1>1 DEF Init, HeadInv, Taken, StagedIsLocked, StagedIsNewer, RowsStaged,
           HeadIsLatest, NoHeads

(* A head shows the newest committed row of its record, whatever locks the   *)
(* writers take, and in whatever order they take ordinals and commit         *)
(* (append_lineage_mutation).                                                *)
THEOREM HeadsShowLatest == Spec => []HeadIsLatest
<1>1. HeadInv => HeadIsLatest
  BY DEF HeadInv
<1> QED BY InitHeadInv, HeadInvKept, <1>1, PTL DEF Spec

----------------------------------------------------------------------------
(* The end of a transaction touches its own host only. *)
LEMMA ReleaseLeaves ==
    ASSUME Types, NEW h \in Hosts, Release(h)
    PROVE  /\ pc'[h] = "idle" /\ mine'[h] = {} /\ seal'[h] = {}
           /\ \A g \in Hosts \ {h} :
                 /\ pc'[g] = pc[g] /\ mine'[g] = mine[g] /\ seal'[g] = seal[g]
                 /\ saw'[g] = saw[g]
           /\ \A l \in Locks : lock[l] # h => lock'[l] = lock[l]
BY DEF Types, Release

(* Every step keeps the locks with the transactions that took them. *)
LEMMA LockInvKept == LockInv /\ [Next]_vars => LockInv'
<1> SUFFICES ASSUME LockInv, [Next]_vars PROVE LockInv'
  OBVIOUS
<1>0. Types /\ Types'
  BY TypesKept DEF LockInv
<1> DEFINE Rest == Taken /\ IdleIsEmpty /\ BegunHolds
<1>h. Rest
  BY DEF LockInv
<1>l. \A k \in AllKinds : LockOf(k) \subseteq Locks
  BY DEF LockOf, Locks
<1>1. ASSUME NEW h \in Hosts, NEW k \in AllKinds, Begin(h, k) PROVE Rest'
  <2>1. Taken' /\ IdleIsEmpty'
    BY <1>1, <1>0, <1>h DEF Begin, Types, Taken, IdleIsEmpty
  <2>2. BegunHolds'
    <3> SUFFICES ASSUME NEW g \in Hosts, pc'[g] # "idle"
                 PROVE  kind'[g] \in setting'.kinds /\ \A l \in LockOf(kind'[g]) : lock'[l] = g
      BY DEF BegunHolds
    <3>1. CASE g = h
      BY <3>1, <1>1, <1>0, <1>l DEF Begin, Types
    <3>2. CASE g # h
      <4>1. pc[g] # "idle" /\ kind'[g] = kind[g] /\ setting' = setting
        BY <3>2, <1>1, <1>0 DEF Begin, Types
      <4>2. \A l \in LockOf(kind[g]) : lock[l] = g /\ l \in Locks /\ l \notin LockOf(k)
        BY <4>1, <1>1, <1>0, <1>h, <1>l DEF BegunHolds, Begin, Types
      <4> QED BY <4>1, <4>2, <1>1, <1>h DEF Begin, BegunHolds
    <3> QED BY <3>1, <3>2
  <2> QED BY <2>1, <2>2
<1>2. ASSUME NEW h \in Hosts, NEW i \in Ids, Append(h, i) PROVE Rest'
  <2>1. Taken'
    BY <1>2, <1>0, <1>h DEF Append, Types, Taken, JournalRow
  <2> QED BY <2>1, <1>2, <1>0, <1>h DEF Append, Types, IdleIsEmpty, BegunHolds
<1>3. ASSUME NEW h \in Hosts, Upsert(h) \/ Written(h) PROVE Rest'
  BY <1>3, <1>0, <1>h DEF Upsert, Written, Types, Taken, IdleIsEmpty, BegunHolds
<1>4. ASSUME NEW h \in Hosts, SealDue(h) PROVE Rest'
  <2>1. \A g \in Hosts : g # h => seal'[g] = seal[g] /\ pc'[g] = pc[g]
    BY <1>4, <1>0 DEF SealDue, Types
  <2>2. pc[h] # "idle" /\ pc'[h] # "idle"
    BY <1>4, <1>0 DEF SealDue, Types
  <2> QED BY <2>1, <2>2, <1>4, <1>h DEF SealDue, Taken, IdleIsEmpty, BegunHolds
<1>5. ASSUME NEW h \in Hosts, Commit(h) \/ Abort(h) PROVE Rest'
  <2>1. Release(h) /\ UNCHANGED <<setting, sequence, kind>>
        /\ rows' \subseteq rows \cup mine[h]
    BY <1>5 DEF Commit, Abort
  <2>2. Taken' /\ IdleIsEmpty'
    BY <2>1, <1>0, <1>h, ReleaseLeaves DEF Taken, IdleIsEmpty
  <2>3. BegunHolds'
    <3> SUFFICES ASSUME NEW g \in Hosts, pc'[g] # "idle"
                 PROVE  kind[g] \in setting.kinds /\ \A l \in LockOf(kind[g]) : lock'[l] = g
      BY <2>1 DEF BegunHolds
    <3>1. g # h /\ pc[g] # "idle"
      BY <2>1, <1>0, ReleaseLeaves
    <3>2. \A l \in LockOf(kind[g]) : lock[l] = g /\ l \in Locks
      BY <3>1, <1>0, <1>h, <1>l DEF BegunHolds, Types
    <3> QED BY <3>1, <3>2, <2>1, <1>0, <1>h, ReleaseLeaves DEF BegunHolds
  <2> QED BY <2>2, <2>3
<1>6. ASSUME NEW o \in Operators, OpRead(o) \/ OpSeal(o) PROVE Rest'
  BY <1>6, <1>h DEF OpRead, OpSeal, Taken, IdleIsEmpty, BegunHolds
<1>7. ASSUME UNCHANGED vars PROVE Rest'
  BY <1>7, <1>h DEF vars, Taken, IdleIsEmpty, BegunHolds
<1>8. Rest'
  BY <1>1, <1>2, <1>3, <1>4, <1>5, <1>6, <1>7 DEF Next, HostStep
<1> QED BY <1>0, <1>8 DEF LockInv

(* Nobody holds a lock at the start. *)
LEMMA InitLockInv == Init => LockInv
<1> SUFFICES ASSUME Init PROVE LockInv
  OBVIOUS
<1>1. Types
  BY InitTypes
<1> QED BY <1>1 DEF Init, LockInv, Taken, IdleIsEmpty, BegunHolds

----------------------------------------------------------------------------
(* Every step keeps an amendment's heads as it read them, where nothing is   *)
(* dispatched beside it.                                                     *)
LEMMA AmendInvKept ==
    ASSUME \A s \in Settings : "amend" \in s.kinds => "dispatch" \notin s.kinds
    PROVE  AmendInv /\ [Next]_vars => AmendInv'
<1> SUFFICES ASSUME AmendInv, [Next]_vars PROVE AmendInv'
  OBVIOUS
<1>0. LockInv /\ LockInv' /\ Types
  BY LockInvKept DEF AmendInv, LockInv
<1>h. AmendsCurrent
  BY DEF AmendInv
<1>1. ASSUME NEW h \in Hosts, NEW k \in AllKinds, Begin(h, k) PROVE AmendsCurrent'
  BY <1>1, <1>0, <1>h DEF Begin, Types, AmendsCurrent
<1>2. ASSUME NEW h \in Hosts, NEW i \in Ids, Append(h, i) PROVE AmendsCurrent'
  BY <1>2, <1>0, <1>h DEF Append, Types, AmendsCurrent
<1>3. ASSUME NEW h \in Hosts, Upsert(h) \/ Written(h) \/ SealDue(h) PROVE AmendsCurrent'
  BY <1>3, <1>0, <1>h DEF Upsert, Written, SealDue, Types, AmendsCurrent
<1>4. ASSUME NEW h \in Hosts, Commit(h) PROVE AmendsCurrent'
  <2> SUFFICES ASSUME NEW g \in Hosts, pc'[g] # "idle", kind'[g] = "amend" PROVE FALSE
    BY DEF AmendsCurrent
  <2>1. Release(h) /\ pc[h] = "ready" /\ kind[g] = "amend"
    BY <1>4 DEF Commit
  <2>2. g # h /\ pc[g] # "idle"
    BY <2>1, <1>0, ReleaseLeaves
  <2>3. kind[g] \in setting.kinds /\ kind[h] \in setting.kinds /\ setting \in Settings
    BY <2>1, <2>2, <1>0 DEF LockInv, BegunHolds, Types
  <2>4. lock["ordinal"] = g
    BY <2>1, <2>2, <1>0 DEF LockInv, BegunHolds, LockOf
  <2>5. kind[h] # "dispatch"
    BY <2>1, <2>3
  <2>6. lock["ordinal"] = h
    BY <2>1, <2>5, <1>0 DEF LockInv, BegunHolds, LockOf
  <2> QED BY <2>2, <2>4, <2>6
<1>5. ASSUME NEW h \in Hosts, Abort(h) PROVE AmendsCurrent'
  BY <1>5, <1>0, <1>h, ReleaseLeaves DEF Abort, AmendsCurrent
<1>6. ASSUME NEW o \in Operators, OpRead(o) \/ OpSeal(o) PROVE AmendsCurrent'
  BY <1>6, <1>h DEF OpRead, OpSeal, AmendsCurrent
<1>7. ASSUME UNCHANGED vars PROVE AmendsCurrent'
  BY <1>7, <1>h DEF vars, AmendsCurrent
<1>8. AmendsCurrent'
  BY <1>1, <1>2, <1>3, <1>4, <1>5, <1>6, <1>7 DEF Next, HostStep
<1> QED BY <1>0, <1>8 DEF AmendInv

(* Where a domain's heads are amended and not dispatched to, an amendment    *)
(* commits on the heads it decided on: no writer comes between its read and  *)
(* its write (amend_head).                                                   *)
THEOREM AmendmentsAreAtomic ==
    ASSUME \A s \in Settings : "amend" \in s.kinds => "dispatch" \notin s.kinds
    PROVE  Spec => AmendsWhatItRead
<1>1. Init => AmendInv
  BY InitLockInv DEF Init, AmendInv, AmendsCurrent
<1>2. AmendInv /\ [Next]_vars => AmendInv'
  BY AmendInvKept
<1>3. AmendInv => \A h \in Hosts : Commit(h) /\ kind[h] = "amend" => head = saw[h]
  BY DEF AmendInv, AmendsCurrent, Commit
<1>4. AmendInv /\ [Next]_vars =>
        [\A h \in Hosts : Commit(h) /\ kind[h] = "amend" => head = saw[h]]_vars
  BY <1>3
<1> QED BY <1>1, <1>2, <1>4, PTL DEF Spec, AmendsWhatItRead

----------------------------------------------------------------------------
(* Writers that share a lock run one at a time. *)
LEMMA OneAtATime ==
    ASSUME LockInv, OneLock(setting), NEW g \in Hosts, NEW h \in Hosts,
           pc[g] # "idle", pc[h] # "idle"
    PROVE  g = h
<1>1. kind[g] \in setting.kinds /\ kind[h] \in setting.kinds
  BY DEF LockInv, BegunHolds
<1>2. LockOf(kind[g]) = LockOf(kind[h])
  BY <1>1 DEF OneLock, LockOf
<1>3. \E l \in LockOf(kind[g]) : TRUE
  BY DEF LockOf
<1> QED BY <1>2, <1>3 DEF LockInv, BegunHolds

(* A seal folded onto the last one digests every row up to its end. *)
LEMMA SealIsFull ==
    ASSUME Types, SealsFull, NEW visible \in SUBSET JournalRow,
           rows \subseteq visible,
           \A r \in visible \ rows, s \in rows : s.ord < r.ord,
           NEW last \in LastSeals, NEW end \in Nat, last.through < end
    PROVE  SealOf(visible, last, end).head = UpTo(visible, end)
<1>1. \A r \in visible : r.ord \in Nat /\ 0 < r.ord
  BY DEF JournalRow
<1>2. SealOf(visible, last, end).head = Fold(visible, last.head, last.through, end)
  BY DEF SealOf
<1>3. CASE anchors = {}
  <2>1. last.through = 0 /\ last.head = {}
    BY <1>3 DEF LastSeals, Genesis
  <2> QED BY <1>1, <1>2, <2>1 DEF Fold, UpTo
<1>4. CASE anchors # {}
  <2>1. PICK a \in anchors : last.through = a.through /\ last.head = a.head
    BY <1>4 DEF LastSeals
  <2>2. PICK t \in rows : t.ord = a.through
    BY DEF SealsFull
  <2>3. a.head = UpTo(rows, a.through) /\ a.through \in Nat
    BY DEF SealsFull, Types, Anchor
  <2>4. UpTo(rows, a.through) = UpTo(visible, a.through)
    <3>1. ASSUME NEW r \in visible, r.ord <= a.through PROVE r \in rows
      BY <3>1, <2>2, <2>3, <1>1
    <3> QED BY <3>1 DEF UpTo
  <2>5. Fold(visible, last.head, last.through, end)
          = UpTo(visible, a.through) \cup {n \in {r.ord : r \in visible} : a.through < n /\ n <= end}
    BY <2>1, <2>3, <2>4 DEF Fold
  <2> HIDE DEF UpTo
  <2>6. \A n : n \in UpTo(visible, a.through) <=> n \in {r.ord : r \in visible} /\ n <= a.through
    BY DEF UpTo
  <2>7. \A n : n \in UpTo(visible, end) <=> n \in {r.ord : r \in visible} /\ n <= end
    BY DEF UpTo
  <2>8. \A n \in {r.ord : r \in visible} : n \in Nat
    BY <1>1
  <2>9. \A n : n \in SealOf(visible, last, end).head <=> n \in UpTo(visible, end)
    <3> SUFFICES ASSUME NEW n
                 PROVE  (\/ n \in UpTo(visible, a.through)
                         \/ n \in {r.ord : r \in visible} /\ a.through < n /\ n <= end)
                        <=> n \in UpTo(visible, end)
      BY <1>2, <2>5
    <3> DEFINE ords == {r.ord : r \in visible}
    <3>1. n \in ords => n \in Nat
      BY <2>8
    <3> HIDE DEF ords
    <3>2. a.through < end
      BY <2>1
    <3> QED BY <2>3, <2>6, <2>7, <3>1, <3>2 DEF ords
  <2> QED BY <2>9
<1> QED BY <1>3, <1>4

(* A seal on the last one extends the chain. *)
LEMMA ChainGrows ==
    ASSUME Types, SealsFollow, NEW last \in LastSeals, NEW a \in Anchor,
           last.through < a.through, a.previous = last.head,
           anchors' = anchors \cup {a}
    PROVE  SealsFollow'
<1>1. \A b \in anchors : b.through \in Nat /\ b.through < a.through
  <2>1. ASSUME NEW b \in anchors PROVE b.through <= last.through
    BY DEF LastSeals
  <2> QED BY <2>1, SealTypes DEF Types, Anchor, LastSeal
<1>2. a.through \in Nat /\ a \notin anchors
  BY <1>1 DEF Anchor
<1>3. ASSUME NEW b \in anchors
      PROVE  /\ \A c \in anchors' : b.through = c.through => b = c
             /\ (\A c \in anchors' : b.through <= c.through) => b.previous = Genesis
             /\ \A c \in anchors' :
                   (c.through < b.through
                     /\ \A d \in anchors' : d.through < b.through => d.through <= c.through)
                   => b.previous = c.head
  <2>1. b.through # a.through /\ b.through <= a.through /\ ~(a.through < b.through)
    BY <1>1, <1>2
  <2> QED BY <1>1, <1>2, <2>1 DEF SealsFollow
<1>4. \A c \in anchors' : a.through = c.through => a = c
  BY <1>1, <1>2
<1>5. (\A c \in anchors' : a.through <= c.through) => a.previous = Genesis
  <2> SUFFICES ASSUME \A c \in anchors' : a.through <= c.through PROVE a.previous = Genesis
    OBVIOUS
  <2>1. anchors = {}
    BY <1>1, <1>2
  <2> QED BY <2>1 DEF LastSeals
<1>6. ASSUME NEW c \in anchors', c.through < a.through,
             \A d \in anchors' : d.through < a.through => d.through <= c.through
      PROVE  a.previous = c.head
  <2>1. c \in anchors
    BY <1>2, <1>6
  <2>2. PICK b \in anchors : /\ last.through = b.through /\ last.head = b.head
                             /\ \A d \in anchors : d.through <= b.through
    BY <2>1 DEF LastSeals
  <2>3. b.through = c.through
    BY <1>1, <1>6, <2>1, <2>2
  <2>4. b = c
    BY <2>1, <2>3 DEF SealsFollow
  <2> QED BY <2>2, <2>4
<1> QED BY <1>3, <1>4, <1>5, <1>6 DEF SealsFollow

(* Where one party seals the rows of one lock's writers. *)
SealedByOne(s) == Unsealed(s) \/ (OneLock(s) /\ OneSealer(s))

(* The parts about seals, together. *)
Sealing == InFlightIsLater /\ SealsFull /\ SealsFollow /\ DueIsLast /\ StagedSeal

(* A step that leaves the seals, the rows and the sealers alone. *)
LEMMA SealsUntouched ==
    ASSUME Sealing, UNCHANGED <<setting, rows, anchors, seal, due, op>>,
           \A h \in Hosts : pc'[h] = "sealing" => pc[h] = "sealing" /\ kind'[h] = kind[h],
           \A h \in Hosts : seal[h] # {} =>
              pc'[h] = pc[h] /\ kind'[h] = kind[h] /\ mine'[h] = mine[h]
    PROVE  SealsFull' /\ SealsFollow' /\ DueIsLast' /\ StagedSeal'
<1>1. LastSeals' = LastSeals
  BY DEF LastSeals
<1>2. SealsFull' /\ SealsFollow'
  BY DEF Sealing, SealsFull, SealsFollow, UpTo
<1>3. DueIsLast'
  BY <1>1 DEF Sealing, DueIsLast
<1>4. StagedSeal'
  <2> SUFFICES ASSUME NEW h \in Hosts, NEW a \in seal[h]
               PROVE  /\ pc'[h] = "ready" /\ setting.every > 0 /\ kind'[h] = "dispatch"
                      /\ a.head = UpTo(Visible(h), a.through)
                      /\ \E r \in Visible(h) : r.ord = a.through
                      /\ \E last \in LastSeals : last.through < a.through /\ a.previous = last.head
                      /\ \A b \in seal[h] : a = b
    <3>1. \A h \in Hosts : seal[h] # {} => Visible(h)' = Visible(h)
      BY DEF Visible
    <3> QED BY <1>1, <3>1 DEF StagedSeal, UpTo
  <2> QED BY DEF Sealing, StagedSeal
<1> QED BY <1>2, <1>3, <1>4

(* Every step of a host keeps the invariant about seals. *)
LEMMA HostKeepsSeals ==
    ASSUME SealInv, SealedByOne(setting), ~Unsealed(setting),
           NEW h \in Hosts, HostStep(h)
    PROVE  Sealing'
<1>0. Types /\ Types' /\ LockInv /\ Sealing /\ OneLock(setting) /\ OneSealer(setting)
  <2>1. HostStep(h) => Next
    BY DEF Next
  <2> QED BY <2>1, TypesKept DEF SealInv, LockInv, Sealing, SealedByOne
<1>1. ASSUME NEW k \in AllKinds, Begin(h, k) PROVE Sealing'
  <2>1. InFlightIsLater'
    BY <1>0, <1>1 DEF Sealing, InFlightIsLater, Begin
  <2>2. seal[h] = {}
    BY <1>0, <1>1 DEF Begin, LockInv, IdleIsEmpty
  <2>3. SealsFull' /\ SealsFollow' /\ DueIsLast' /\ StagedSeal'
    BY <1>0, <1>1, <2>2, SealsUntouched DEF Begin, Types
  <2> QED BY <2>1, <2>3 DEF Sealing
<1>2. ASSUME NEW i \in Ids, Append(h, i) PROVE Sealing'
  <2>1. InFlightIsLater'
    BY <1>0, <1>2 DEF Sealing, InFlightIsLater, Append, LockInv, Taken, Types, JournalRow
  <2>2. seal[h] = {}
    BY <1>0, <1>2 DEF Append, Sealing, StagedSeal
  <2>3. SealsFull' /\ SealsFollow' /\ DueIsLast' /\ StagedSeal'
    BY <1>0, <1>2, <2>2, SealsUntouched DEF Append, Types
  <2> QED BY <2>1, <2>3 DEF Sealing
<1>3. ASSUME Upsert(h) PROVE Sealing'
  <2>1. InFlightIsLater'
    BY <1>0, <1>3 DEF Sealing, InFlightIsLater, Upsert
  <2>2. seal[h] = {}
    BY <1>0, <1>3 DEF Upsert, Sealing, StagedSeal
  <2>3. SealsFull' /\ SealsFollow' /\ DueIsLast' /\ StagedSeal'
    BY <1>0, <1>3, <2>2, SealsUntouched DEF Upsert, Types
  <2> QED BY <2>1, <2>3 DEF Sealing
<1>4. ASSUME Written(h) PROVE Sealing'
  <2>1. InFlightIsLater' /\ SealsFull' /\ SealsFollow'
    BY <1>0, <1>4 DEF Sealing, InFlightIsLater, SealsFull, SealsFollow, UpTo, Written
  <2>2. LastSeals' = LastSeals
    BY <1>4 DEF LastSeals, Written
  <2>3. DueIsLast'
    <3>1. \A o \in Operators : op'[o] = "read" =>
             o \in setting.operators /\ due'[o] \in LastSeals
      <4>1. CASE kind[h] = "dispatch" /\ setting.every > 0
        <5>1. setting.operators = {}
          BY <1>0, <1>4, <4>1 DEF OneSealer, Written, LockInv, BegunHolds, Types, AllSettings
        <5> QED BY <1>0, <1>4, <5>1 DEF Sealing, DueIsLast, Written
      <4>2. CASE ~(kind[h] = "dispatch" /\ setting.every > 0)
        BY <1>0, <1>4, <4>2 DEF Sealing, DueIsLast, Written
      <4> QED BY <4>1, <4>2
    <3>2. ASSUME NEW g \in Hosts, pc'[g] = "sealing"
          PROVE  setting'.every > 0 /\ kind'[g] = "dispatch" /\ due'[g] \in LastSeals
      <4>1. CASE g = h
        BY <1>0, <1>4, <3>2, <4>1 DEF Written, Types
      <4>2. CASE g # h
        BY <1>0, <1>4, <3>2, <4>2 DEF Written, Types, Sealing, DueIsLast
      <4> QED BY <4>1, <4>2
    <3> QED BY <1>4, <2>2, <3>1, <3>2 DEF DueIsLast, Written
  <2>4. StagedSeal'
    <3>1. seal[h] = {} /\ \A g \in Hosts : g # h => pc'[g] = pc[g]
      BY <1>0, <1>4 DEF Written, Sealing, StagedSeal, Types
    <3>2. \A g \in Hosts : Visible(g)' = Visible(g)
      BY <1>4 DEF Written, Visible
    <3> QED BY <1>0, <1>4, <2>2, <3>1, <3>2 DEF Written, Sealing, StagedSeal, UpTo
  <2> QED BY <2>1, <2>3, <2>4 DEF Sealing
<1>5. ASSUME SealDue(h) PROVE Sealing'
  <2>1. InFlightIsLater' /\ SealsFull' /\ SealsFollow'
    BY <1>0, <1>5 DEF Sealing, InFlightIsLater, SealsFull, SealsFollow, UpTo, SealDue
  <2>2. LastSeals' = LastSeals
    BY <1>5 DEF LastSeals, SealDue
  <2>3. DueIsLast'
    BY <1>0, <1>5, <2>2 DEF Sealing, DueIsLast, SealDue, Types
  <2>4. StagedSeal'
    <3>1. \A g \in Hosts : Visible(g)' = Visible(g)
      BY <1>5 DEF SealDue, Visible
    <3>2. \A g \in Hosts \ {h} : seal'[g] = seal[g] /\ pc'[g] = pc[g]
      BY <1>0, <1>5 DEF SealDue, Types
    <3>3. seal[h] = {}
      BY <1>0, <1>5 DEF SealDue, Sealing, StagedSeal
    <3>4. PICK end \in Ends(Visible(h)) :
             IF end - due[h].through < setting.every THEN UNCHANGED seal
             ELSE seal' = [seal EXCEPT ![h] = {SealOf(Visible(h), due[h], end)}]
      BY <1>5 DEF SealDue
    <3>5. CASE end - due[h].through < setting.every
      BY <1>0, <1>5, <2>2, <3>1, <3>2, <3>3, <3>4, <3>5 DEF SealDue, Sealing, StagedSeal, UpTo
    <3>6. CASE ~(end - due[h].through < setting.every)
      <4>1. due[h] \in LastSeals /\ setting.every > 0 /\ kind[h] = "dispatch"
        BY <1>0, <1>5 DEF SealDue, Sealing, DueIsLast
      <4>2. Visible(h) \in SUBSET JournalRow /\ setting.every \in Nat
        BY <1>0 DEF Types, Visible, AllSettings
      <4>3. end \in Nat /\ due[h].through \in Nat
        BY <1>0, <4>1, <4>2, SealTypes DEF LastSeal
      <4>4. due[h].through < end
        BY <3>6, <4>1, <4>2, <4>3
      <4>5. \E r \in Visible(h) : r.ord = end
        BY <4>3, <4>4 DEF Ends
      <4> DEFINE new == SealOf(Visible(h), due[h], end)
      <4>6. new.through = end /\ new.previous = due[h].head
        BY DEF SealOf
      <4>7. new.head = UpTo(Visible(h), end)
        <5>1. \A r \in Visible(h) \ rows, s \in rows : s.ord < r.ord
          BY <1>0 DEF Visible, Sealing, InFlightIsLater
        <5>2. rows \subseteq Visible(h)
          BY DEF Visible
        <5> QED BY <1>0, <4>1, <4>2, <4>3, <4>4, <5>1, <5>2, SealIsFull DEF Sealing
      <4>8. seal'[h] = {new} /\ pc'[h] = "ready"
        BY <1>0, <1>5, <3>4, <3>6 DEF SealDue, Types
      <4> HIDE DEF new
      <4>9. \A a \in seal'[h] :
               /\ pc'[h] = "ready" /\ setting'.every > 0 /\ kind'[h] = "dispatch"
               /\ a.head = UpTo(Visible(h), a.through)
               /\ \E r \in Visible(h) : r.ord = a.through
               /\ \E last \in LastSeals : last.through < a.through /\ a.previous = last.head
               /\ \A b \in seal'[h] : a = b
        BY <1>5, <4>1, <4>4, <4>5, <4>6, <4>7, <4>8 DEF SealDue
      <4>10. ASSUME NEW g \in Hosts \ {h}, NEW a \in seal'[g]
             PROVE  /\ pc'[g] = "ready" /\ setting'.every > 0 /\ kind'[g] = "dispatch"
                    /\ a.head = UpTo(Visible(g), a.through)
                    /\ \E r \in Visible(g) : r.ord = a.through
                    /\ \E last \in LastSeals : last.through < a.through /\ a.previous = last.head
                    /\ \A b \in seal'[g] : a = b
        BY <1>0, <1>5, <3>2, <4>10 DEF Sealing, StagedSeal, SealDue

      <4> QED BY <2>2, <3>1, <4>9, <4>10 DEF StagedSeal, UpTo
    <3> QED BY <3>5, <3>6
  <2> QED BY <2>1, <2>3, <2>4 DEF Sealing
<1>6. ASSUME Commit(h) PROVE Sealing'
  <2>1. Release(h) /\ pc[h] = "ready" /\ rows' = rows \cup mine[h]
        /\ anchors' = anchors \cup seal[h] /\ UNCHANGED <<setting, kind, due, op>>
    BY <1>6 DEF Commit
  <2>2. \A g \in Hosts \ {h} : pc[g] = "idle" /\ mine[g] = {} /\ seal[g] = {}
    BY <1>0, <2>1, OneAtATime DEF LockInv, IdleIsEmpty
  <2>3. \A g \in Hosts : pc'[g] = "idle" /\ mine'[g] = {} /\ seal'[g] = {}
    BY <1>0, <2>1, <2>2, ReleaseLeaves
  <2>4. InFlightIsLater' /\ StagedSeal'
    BY <2>3 DEF InFlightIsLater, StagedSeal
  <2>5. ASSUME NEW a \in anchors
        PROVE  /\ UpTo(rows', a.through) = UpTo(rows, a.through)
               /\ \E r \in rows' : r.ord = a.through
    <3>1. PICK t \in rows : t.ord = a.through
      BY <1>0 DEF Sealing, SealsFull
    <3>2. \A r \in mine[h] : ~(r.ord <= a.through)
      <4> TAKE r \in mine[h]
      <4>1. t.ord < r.ord /\ t.ord \in Nat /\ r.ord \in Nat
        BY <1>0 DEF Types, JournalRow, Sealing, InFlightIsLater
      <4> QED BY <3>1, <4>1
    <3> QED BY <2>1, <3>1, <3>2 DEF UpTo
  <2>6. CASE seal[h] = {}
    <3>1. anchors' = anchors
      BY <2>1, <2>6
    <3>2. SealsFull' /\ SealsFollow'
      BY <1>0, <2>5, <3>1 DEF Sealing, SealsFull, SealsFollow
    <3>3. LastSeals' = LastSeals
      BY <3>1 DEF LastSeals
    <3>4. DueIsLast'
      BY <1>0, <2>1, <2>3, <3>3 DEF Sealing, DueIsLast
    <3> QED BY <2>4, <3>2, <3>4 DEF Sealing
  <2>7. CASE seal[h] # {}
    <3>1. PICK a \in seal[h] : TRUE
      BY <2>7
    <3>2. /\ setting.every > 0 /\ kind[h] = "dispatch"
          /\ a.head = UpTo(Visible(h), a.through)
          /\ \E r \in Visible(h) : r.ord = a.through
          /\ \E last \in LastSeals : last.through < a.through /\ a.previous = last.head
          /\ \A b \in seal[h] : a = b
      BY <1>0 DEF Sealing, StagedSeal
    <3>3. anchors' = anchors \cup {a} /\ a \in Anchor
      BY <1>0, <2>1, <3>2 DEF Types
    <3>4. SealsFollow'
      BY <1>0, <3>2, <3>3, ChainGrows DEF Sealing
    <3>5. SealsFull'
      <4>1. Visible(h) = rows'
        BY <2>1 DEF Visible
      <4>2. a.head = UpTo(rows', a.through) /\ (\E r \in rows' : r.ord = a.through) /\ 0 < a.through
        BY <1>0, <3>2, <4>1, <3>3 DEF Types, JournalRow
      <4> QED BY <1>0, <2>5, <3>3, <4>2 DEF Sealing, SealsFull
    <3>6. setting.operators = {}
      BY <1>0, <2>1, <3>2 DEF OneSealer, LockInv, BegunHolds, Types, AllSettings
    <3>7. DueIsLast'
      BY <1>0, <2>1, <2>3, <3>6 DEF Sealing, DueIsLast
    <3> QED BY <2>4, <3>4, <3>5, <3>7 DEF Sealing
  <2> QED BY <2>6, <2>7
<1>7. ASSUME Abort(h) PROVE Sealing'
  <2>1. Release(h) /\ UNCHANGED <<setting, rows, anchors, kind, due, op>>
    BY <1>7 DEF Abort
  <2>2. InFlightIsLater' /\ SealsFull' /\ SealsFollow'
    BY <1>0, <2>1, ReleaseLeaves DEF Sealing, InFlightIsLater, SealsFull, SealsFollow, UpTo
  <2>3. LastSeals' = LastSeals
    BY <2>1 DEF LastSeals
  <2>4. DueIsLast'
    BY <1>0, <2>1, <2>3, ReleaseLeaves DEF Sealing, DueIsLast
  <2>5. StagedSeal'
    <3>1. \A g \in Hosts \ {h} : Visible(g)' = Visible(g)
      BY <1>0, <2>1, ReleaseLeaves DEF Visible
    <3> QED BY <1>0, <2>1, <2>3, <3>1, ReleaseLeaves DEF Sealing, StagedSeal, UpTo
  <2> QED BY <2>2, <2>4, <2>5 DEF Sealing
<1> QED BY <1>1, <1>2, <1>3, <1>4, <1>5, <1>6, <1>7 DEF HostStep

(* An operator's seal keeps it too. *)
LEMMA OperatorKeepsSeals ==
    ASSUME SealInv, SealedByOne(setting), ~Unsealed(setting),
           NEW o \in Operators, OpRead(o) \/ OpSeal(o)
    PROVE  Sealing'
<1>0. Types /\ LockInv /\ Sealing /\ OneSealer(setting)
  BY DEF SealInv, LockInv, Sealing, SealedByOne
<1>1. CASE OpRead(o)
  <2>1. LastSeals' = LastSeals
    BY <1>1 DEF LastSeals, OpRead
  <2>2. DueIsLast'
    BY <1>0, <1>1, <2>1 DEF Sealing, DueIsLast, OpRead, Types
  <2>3. \A g \in Hosts : Visible(g)' = Visible(g)
    BY <1>1 DEF OpRead, Visible
  <2>4. InFlightIsLater' /\ SealsFull' /\ SealsFollow' /\ StagedSeal'
    BY <1>0, <1>1, <2>1, <2>3 DEF Sealing, InFlightIsLater, SealsFull, SealsFollow, StagedSeal, UpTo, OpRead
  <2> QED BY <2>2, <2>4 DEF Sealing
<1>2. CASE OpSeal(o)
  <2>1. o \in setting.operators /\ due[o] \in LastSeals
    BY <1>0, <1>2 DEF Sealing, DueIsLast, OpSeal
  <2>2. \A h \in Hosts : pc[h] # "sealing" /\ seal[h] = {}
    <3> TAKE h \in Hosts
    <3>1. ~(pc[h] # "idle" /\ kind[h] = "dispatch" /\ setting.every > 0)
      BY <1>0, <2>1 DEF OneSealer, LockInv, BegunHolds, Types, AllSettings
    <3> QED BY <1>0, <3>1 DEF Sealing, DueIsLast, StagedSeal
  <2>3. \A q \in Operators : op'[q] = "idle"
    BY <1>0, <1>2, <2>1 DEF OneSealer, Sealing, DueIsLast, OpSeal, Types
  <2>4. UNCHANGED <<setting, rows, pc, kind, mine, seal>>
    BY <1>2 DEF OpSeal
  <2>5. InFlightIsLater' /\ DueIsLast' /\ StagedSeal'
    BY <1>0, <2>2, <2>3, <2>4 DEF Sealing, InFlightIsLater, DueIsLast, StagedSeal
  <2>6. PICK end \in Ends(rows) :
           IF end <= due[o].through \/ Sealed(end) THEN UNCHANGED anchors
           ELSE anchors' = anchors \cup {SealOf(rows, due[o], end)}
    BY <1>2 DEF OpSeal
  <2>7. CASE end <= due[o].through \/ Sealed(end)
    BY <1>0, <2>4, <2>5, <2>6, <2>7 DEF Sealing, SealsFull, SealsFollow, UpTo
  <2>8. CASE ~(end <= due[o].through \/ Sealed(end))
    <3>1. end \in Nat /\ due[o] \in LastSeal /\ due[o].through \in Nat
      BY <1>0, <2>1, SealTypes DEF Types, LastSeal
    <3>2. due[o].through < end
      BY <2>8, <3>1
    <3>3. \E r \in rows : r.ord = end
      BY <3>1, <3>2 DEF Ends
    <3> DEFINE new == SealOf(rows, due[o], end)
    <3>4. new.through = end /\ new.previous = due[o].head /\ new \in Anchor
      BY <1>0, <3>1, SealTypes DEF SealOf, Types
    <3>5. new.head = UpTo(rows, end)
      <4>1. rows \in SUBSET JournalRow
        BY <1>0 DEF Types
      <4> QED BY <1>0, <2>1, <3>1, <3>2, <4>1, SealIsFull DEF Sealing
    <3>6. anchors' = anchors \cup {new}
      BY <2>6, <2>8
    <3> HIDE DEF new
    <3>7. SealsFollow'
      BY <1>0, <2>1, <3>2, <3>4, <3>6, ChainGrows DEF Sealing
    <3>8. SealsFull'
      BY <1>0, <2>4, <3>1, <3>2, <3>3, <3>4, <3>5, <3>6 DEF Sealing, SealsFull, UpTo
    <3> QED BY <2>5, <3>7, <3>8 DEF Sealing
  <2> QED BY <2>7, <2>8
<1> QED BY <1>1, <1>2

(* Every step keeps the invariant about seals. *)
LEMMA SealInvKept ==
    ASSUME \A s \in Settings : SealedByOne(s)
    PROVE  SealInv /\ [Next]_vars => SealInv'
<1> SUFFICES ASSUME SealInv, [Next]_vars PROVE SealInv'
  OBVIOUS
<1>0. LockInv /\ LockInv' /\ Types
  BY LockInvKept DEF SealInv, LockInv
<1>1. setting' = setting /\ SealedByOne(setting)
  BY <1>0 DEF Types, Next, HostStep, Begin, Append, Upsert, Written, SealDue, Commit, Abort,
              OpRead, OpSeal, vars
<1>2. Unsealed(setting)' = Unsealed(setting)
  BY <1>1 DEF Unsealed
<1>3. ASSUME Unsealed(setting) PROVE NeverSealed'
  <2>0. NeverSealed
    BY <1>3 DEF SealInv
  <2>1. ASSUME NEW h \in Hosts, HostStep(h) PROVE NeverSealed'
    <3>1. ASSUME NEW k \in AllKinds, Begin(h, k) PROVE NeverSealed'
      BY <1>0, <2>0, <3>1 DEF NeverSealed, Begin, Types
    <3>2. ASSUME NEW i \in Ids, Append(h, i) PROVE NeverSealed'
      BY <1>0, <2>0, <3>2 DEF NeverSealed, Append, Types
    <3>3. ASSUME Upsert(h) \/ Written(h) \/ SealDue(h) PROVE NeverSealed'
      BY <1>0, <1>3, <2>0, <3>3 DEF NeverSealed, Upsert, Written, SealDue, Unsealed, Types
    <3>4. ASSUME Commit(h) \/ Abort(h) PROVE NeverSealed'
      <4>1. Release(h) /\ anchors' = {} /\ op' = op
        BY <2>0, <3>4 DEF NeverSealed, Commit, Abort
      <4> QED BY <1>0, <2>0, <4>1, ReleaseLeaves DEF NeverSealed
    <3> QED BY <2>1, <3>1, <3>2, <3>3, <3>4 DEF HostStep
  <2>2. ASSUME NEW o \in Operators, OpRead(o) \/ OpSeal(o) PROVE NeverSealed'
    BY <1>3, <2>0, <2>2 DEF NeverSealed, OpRead, OpSeal, Unsealed
  <2>3. ASSUME UNCHANGED vars PROVE NeverSealed'
    BY <2>0, <2>3 DEF NeverSealed, vars
  <2> QED BY <2>1, <2>2, <2>3 DEF Next
<1>4. ASSUME ~Unsealed(setting) PROVE Sealing'
  <2>1. ASSUME UNCHANGED vars PROVE Sealing'
    <3>1. LastSeals' = LastSeals
      BY <2>1 DEF LastSeals, vars
    <3> QED BY <1>4, <2>1, <3>1 DEF vars, SealInv, Sealing, InFlightIsLater, SealsFull,
               SealsFollow, DueIsLast, StagedSeal, UpTo, Visible
  <2> QED BY <1>1, <1>4, <2>1, HostKeepsSeals, OperatorKeepsSeals DEF Next
<1> QED BY <1>0, <1>2, <1>3, <1>4 DEF SealInv, Sealing

(* The invariant is what verify's walk asks for. *)
LEMMA SealInvVerifies == SealInv => SealsVerify
<1> SUFFICES ASSUME SealInv, NEW a \in anchors,
                    NEW before, before = {b \in anchors : b.through < a.through}
             PROVE  /\ before = {} => /\ a.previous = Genesis
                                      /\ a.head = Fold(rows, Genesis, 0, a.through)
                    /\ \A b \in before : (\A c \in before : c.through <= b.through) =>
                          /\ a.previous = b.head
                          /\ a.head = Fold(rows, b.head, b.through, a.through)
  BY DEF SealsVerify, Verified
<1>0. Types /\ Sealing
  BY DEF SealInv, LockInv, NeverSealed, Sealing
<1>1. \A b \in anchors : b.through \in Nat /\ b.head = UpTo(rows, b.through)
  BY <1>0 DEF Types, Anchor, Sealing, SealsFull
<1>2. \A r \in rows : r.ord \in Nat /\ 0 < r.ord
  BY <1>0 DEF Types, JournalRow
<1>3. ASSUME before = {}
      PROVE  a.previous = Genesis /\ a.head = Fold(rows, Genesis, 0, a.through)
  <2>1. \A b \in anchors : a.through <= b.through
    BY <1>1, <1>3
  <2>2. a.head = Fold(rows, Genesis, 0, a.through)
    BY <1>1, <1>2 DEF Fold, UpTo, Genesis
  <2> QED BY <1>0, <2>1, <2>2 DEF Sealing, SealsFollow
<1>4. ASSUME NEW b \in before, \A c \in before : c.through <= b.through
      PROVE  a.previous = b.head /\ a.head = Fold(rows, b.head, b.through, a.through)
  <2>1. b \in anchors /\ b.through < a.through
    OBVIOUS
  <2>2. \A c \in anchors : c.through < a.through => c.through <= b.through
    BY <1>4
  <2>3. a.previous = b.head
    BY <1>0, <2>1, <2>2 DEF Sealing, SealsFollow
  <2>4. \A n \in {r.ord : r \in rows} : n \in Nat
    BY <1>2
  <2>5. a.head = Fold(rows, b.head, b.through, a.through)
    <3> DEFINE ords == {r.ord : r \in rows}
    <3>1. a.head = {n \in ords : n <= a.through} /\ b.head = {n \in ords : n <= b.through}
      BY <1>1, <2>1 DEF UpTo
    <3>2. Fold(rows, b.head, b.through, a.through)
            = b.head \cup {n \in ords : b.through < n /\ n <= a.through}
      BY DEF Fold
    <3> HIDE DEF ords
    <3> QED BY <1>1, <2>1, <2>4, <3>1, <3>2 DEF ords
  <2> QED BY <2>3, <2>5
<1> QED BY <1>3, <1>4

(* A journal whose writers share a lock and whose seals have one author      *)
(* always verifies: no seal passes over an ordinal in flight, and none is    *)
(* folded onto a seal that is no longer the last (seal, seal_due, verify).   *)
(* A journal nobody seals verifies as well.                                  *)
THEOREM SealsAlwaysVerify ==
    ASSUME \A s \in Settings : SealedByOne(s)
    PROVE  Spec => []SealsVerify
<1>1. Init => SealInv
  <2> SUFFICES ASSUME Init PROVE SealInv
    OBVIOUS
  <2>1. LockInv
    BY InitLockInv
  <2>2. NeverSealed
    BY DEF Init, NeverSealed
  <2>3. Sealing
    BY DEF Init, Sealing, InFlightIsLater, SealsFull, SealsFollow, DueIsLast, StagedSeal
  <2> QED BY <2>1, <2>2, <2>3 DEF SealInv, Sealing
<1>2. SealInv /\ [Next]_vars => SealInv'
  BY SealInvKept
<1> QED BY <1>1, <1>2, SealInvVerifies, PTL DEF Spec
=============================================================================
