--------------------------- MODULE EraMintProofs ----------------------------
(***************************************************************************)
(* Theorems about EraMint for every number of hosts, shapes, records and   *)
(* boots.                                                                  *)
(***************************************************************************)
EXTENDS EraMint, TLAPS

USE EraAssumption

EraRow == [label: Labels \cup {Unnamed}, watermark: Nat]
Row == [ord: Nat \ {0}, era: Nat, id: Ids]
Steps == {"off", "booting", "audited", "minting", "compiled", "filled",
          "serving", "dispatching", "putting"}

(* What each variable holds, whatever the bounds. *)
Types ==
    /\ rolling \in BOOLEAN
    /\ eras \in Seq(EraRow)
    /\ rows \in SUBSET Row
    /\ sequence \in Nat
    /\ fence \in Nat
    /\ view \in [era: Nat, rows: SUBSET Row]
    /\ readers \in SUBSET Labels
    /\ lock \in [Locks -> Hosts \cup {None}]
    /\ pc \in [Hosts -> Steps]
    /\ held \in [Hosts -> Seq(EraRow)]
    /\ era \in [Hosts -> Nat]
    /\ mine \in [Hosts -> SUBSET Row]
    /\ mark \in [Hosts -> Nat]
    /\ base \in [Hosts -> SUBSET Row]
    /\ boots \in Nat

(* A database nobody holds is booted by one host at a time. *)
FoundedAlone == \A s \in Starts : s.held = <<>> => ~s.rolling

(* The eras held at first are a chain. *)
StartsChained ==
    \A s \in Starts :
       /\ \A n \in 1..Len(s.held) - 1 : <<s.held[n], s.held[n + 1]>> \in Edges
       /\ \A m, n \in DOMAIN s.held : s.held[m] = s.held[n] => m = n \/ s.held[m] = Unnamed

----------------------------------------------------------------------------
(* The parts of the invariant. *)
Minting(h) == pc[h] \in {"minting", "compiled", "filled"}
Decided(h) == pc[h] = "audited" \/ Minting(h)
Deciding(h) == pc[h] = "booting" \/ Decided(h)

(* Without a rolling deployment one host runs at a time. *)
Alone == ~rolling => \A g, h \in Hosts : pc[g] # "off" /\ pc[h] # "off" => g = h

(* A boot that read no era still finds none. *)
Founding ==
    /\ rolling => eras # <<>>
    /\ \A h \in Hosts : Deciding(h) /\ held[h] = <<>> => eras = <<>>

(* The eras a boot read are the first of those held. *)
HeldIsPrefix ==
    \A h \in Hosts : Deciding(h) =>
       /\ Len(held[h]) <= Len(eras)
       /\ \A n \in 1..Len(held[h]) : held[h][n] = eras[n]

(* A boot goes on to mint for a shape that continues the chain it read. *)
DecidedWell ==
    \A h \in Hosts : Decided(h) =>
       held[h] # <<>> /\ Naming(h) = {} /\ Chained(h)

(* A watermark is the ordinal of a row. *)
Known(n, written) == n = 0 \/ \E r \in written : r.ord = n

(* One mint at a time, on the eras it read, with a later watermark. *)
MintHolds ==
    \A h \in Hosts : Minting(h) =>
       /\ lock["eras"] = h
       /\ Len(held[h]) = Len(eras)
       /\ Known(mark[h], rows)
       /\ \A n \in 1..Len(eras) : eras[n].watermark <= mark[h]

(* Every watermark held is the ordinal of a row. *)
MarksKnown == \A n \in 1..Len(eras) : Known(eras[n].watermark, rows)

(* An open row is of the latest era, and its writer's. *)
OpenIsLatest ==
    \A h \in Hosts :
       /\ mine[h] # {} => Writing(h)
       /\ \A r \in mine[h] : r.era = Len(eras) /\ 0 < r.era

(* A host serves at an era that exists. *)
ServedExists == \A h \in Hosts : pc[h] = "serving" \/ Writing(h) => 0 < era[h]

(* The row policy admits the latest era. *)
FenceIsLatest == fence = Len(eras)

(* Every row is of a held era, and the head is the latest one's. *)
RowsKnown ==
    /\ \A r \in rows : 0 < r.era /\ r.era <= Len(eras)
    /\ view.era = Len(eras)

(* Hosts stopped before a mint leave nothing above the watermark. *)
CutsKeep ==
    ~rolling =>
       /\ \A r \in rows : r.era < Len(eras) => r.ord <= eras[r.era + 1].watermark
       /\ \A h \in Hosts : Minting(h) => \A r \in rows : r.ord <= mark[h]
       /\ \A h \in Hosts : pc[h] \in {"compiled", "filled"} => base[h] = rows

(* What the fence rests on; with it, what the watermarks, the chain and the *)
(* head rest on.                                                            *)
FenceInv ==
    /\ Types /\ Alone /\ Founding /\ HeldIsPrefix /\ DecidedWell
    /\ OpenIsLatest /\ ServedExists /\ FenceIsLatest

MintInv == FenceInv /\ MintHolds /\ MarksKnown

ChainInv == MintInv /\ ErasChain

HeadInv == MintInv /\ RowsKnown /\ CutsKeep /\ HeadKeepsWrites

----------------------------------------------------------------------------
(* What a step of h that neither founds nor mints an era does, as far as the *)
(* invariant can tell.                                                       *)
ReadsEras(h) == pc'[h] = "booting" /\ held'[h] = eras

PassesAudit(h) ==
    /\ pc[h] = "booting" /\ pc'[h] = "audited" /\ held'[h] = held[h]
    /\ held[h] # <<>> /\ Naming(h) = {} /\ Chained(h)

StartsMint(h) ==
    /\ pc[h] = "audited" /\ pc'[h] = "minting" /\ held'[h] = held[h]
    /\ lock["eras"] = None /\ lock'["eras"] = h /\ ~AlreadyMinted(h)
    /\ mark'[h] \in {0} \cup {r.ord : r \in rows} /\ \A r \in rows : r.ord <= mark'[h]
    /\ rows' = rows

GoesOn(h) ==
    /\ Minting(h) /\ held'[h] = held[h] /\ mark'[h] = mark[h] /\ rows' = rows
    /\ lock'["eras"] = lock["eras"]
    /\ \/ /\ pc[h] = "minting" /\ pc'[h] = "compiled"
          /\ base'[h] = {r \in rows : WithinCut(h, r)}
       \/ pc[h] = "compiled" /\ pc'[h] = "filled" /\ base'[h] = base[h]

Served(h) == pc[h] = "serving" \/ Writing(h)

Quiet(h) ==
    /\ UNCHANGED <<rolling, eras, fence, view>>
    /\ rows \subseteq rows' /\ rows' \subseteq rows \cup mine[h]
    /\ rows' # rows => Writing(h) /\ pc'[h] = "serving"
    /\ \A g \in Hosts \ {h} :
          /\ pc'[g] = pc[g] /\ held'[g] = held[g] /\ era'[g] = era[g]
          /\ mine'[g] = mine[g] /\ mark'[g] = mark[g] /\ base'[g] = base[g]
    /\ lock'["eras"] = lock["eras"] \/ lock["eras"] \in {h, None}
    /\ pc[h] # "off" \/ rolling \/ \A g \in Hosts : pc[g] = "off"
    /\ Deciding(h)' => ReadsEras(h) \/ PassesAudit(h) \/ StartsMint(h) \/ GoesOn(h)
    /\ \/ mine'[h] = {}
       \/ mine'[h] = mine[h] /\ (Writing(h) => Writing(h)')
       \/ Writing(h)' /\ \A r \in mine'[h] : r.era = fence /\ fence = era[h] /\ Writing(h)
    /\ Served(h)' => 0 < era'[h] \/ (Served(h) /\ era'[h] = era[h])

----------------------------------------------------------------------------
(* What the ends of a boot and of a transaction leave is well typed. *)
LEMMA StopTypes ==
    ASSUME Types, NEW h \in Hosts, Stop(h)
    PROVE  /\ pc' \in [Hosts -> Steps] /\ era' \in [Hosts -> Nat]
           /\ held' \in [Hosts -> Seq(EraRow)]
           /\ mark' \in [Hosts -> Nat] /\ base' \in [Hosts -> SUBSET Row]
BY DEF Types, Stop, Goto, Forget, Steps

(* So is what a boot that comes up leaves. *)
LEMMA ServeTypes ==
    ASSUME Types, NEW h \in Hosts, NEW n \in Nat, Serve(h, n)
    PROVE  /\ pc' \in [Hosts -> Steps] /\ era' \in [Hosts -> Nat]
           /\ held' \in [Hosts -> Seq(EraRow)]
           /\ mark' \in [Hosts -> Nat] /\ base' \in [Hosts -> SUBSET Row]
BY DEF Types, Serve, Goto, Forget, Steps

(* So are the locks when a transaction ends. *)
LEMMA ReleaseTypes ==
    ASSUME Types, NEW h \in Hosts, Release(h)
    PROVE  lock' \in [Locks -> Hosts \cup {None}]
BY DEF Types, Release

(* A shape's label is one of the labels. *)
LEMMA LabelTypes == \A h \in Hosts : LabelOf[h] \in Labels
BY DEF Labels

(* Every step keeps the variables in their types. *)
LEMMA TypesKept == Types /\ [Next]_vars => Types'
<1> SUFFICES ASSUME Types, [Next]_vars PROVE Types'
  OBVIOUS
<1>1. ASSUME UNCHANGED vars PROVE Types'
  BY <1>1 DEF Types, vars
<1>2. ASSUME NEW h \in Hosts, Boot(h) PROVE Types'
  BY <1>2 DEF Types, Boot, Goto, Steps, database, mint
<1>3. ASSUME NEW h \in Hosts, UseExisting(h) PROVE Types'
  <2>1. PICK n \in Naming(h) : Serve(h, n)
    BY <1>3 DEF UseExisting
  <2>2. n \in Nat
    BY <2>1 DEF Naming, Types
  <2>3. UNCHANGED <<rolling, eras, rows, sequence, fence, view, readers, lock, mine, boots>>
    BY <1>3 DEF UseExisting, database
  <2> QED BY <2>1, <2>2, <2>3, ServeTypes DEF Types
<1>4. ASSUME NEW h \in Hosts, HoldFirst(h) PROVE Types'
  <2>1. eras' \in Seq(EraRow)
    <3>1. [label |-> LabelOf[h], watermark |-> 0] \in EraRow
      BY LabelTypes DEF EraRow
    <3> QED BY <1>4, <3>1 DEF HoldFirst, Types
  <2>2. Serve(h, 1)
    BY <1>4 DEF HoldFirst
  <2>3. view' \in [era: Nat, rows: SUBSET Row] /\ fence' \in Nat
    BY <1>4 DEF HoldFirst
  <2>4. UNCHANGED <<rolling, rows, sequence, readers, lock, mine, boots>>
    BY <1>4 DEF HoldFirst
  <2> QED BY <2>1, <2>2, <2>3, <2>4, ServeTypes DEF Types
<1>5. ASSUME NEW h \in Hosts, Refuse(h) PROVE Types'
  <2>1. Stop(h) /\ UNCHANGED <<rolling, eras, rows, sequence, fence, view, readers, lock, mine, boots>>
    BY <1>5 DEF Refuse, database
  <2> QED BY <2>1, StopTypes DEF Types
<1>6. ASSUME NEW h \in Hosts, Audit(h) PROVE Types'
  BY <1>6 DEF Types, Audit, Goto, Steps, database, mint
<1>7. ASSUME NEW h \in Hosts, MintBegin(h) PROVE Types'
  <2>1. UNCHANGED <<rolling, eras, rows, sequence, fence, view, readers, mine, boots>>
    BY <1>7 DEF MintBegin, database
  <2>2. ASSUME Stop(h), UNCHANGED lock PROVE Types'
    BY <2>1, <2>2, StopTypes DEF Types
  <2>3. ASSUME ~AlreadyMinted(h) PROVE Types'
    <3>1. PICK n \in {0} \cup {r.ord : r \in rows} : mark' = [mark EXCEPT ![h] = n]
      BY <1>7, <2>3 DEF MintBegin
    <3>2. n \in Nat
      BY <3>1 DEF Types, Row
    <3>3. /\ lock' = [lock EXCEPT !["eras"] = h] /\ UNCHANGED <<held, era, base>>
          /\ pc' = [pc EXCEPT ![h] = "minting"]
      BY <1>7, <2>3 DEF MintBegin, Goto
    <3> QED BY <2>1, <3>1, <3>2, <3>3 DEF Types, Steps
  <2> QED BY <1>7, <2>2, <2>3 DEF MintBegin
<1>8. ASSUME NEW h \in Hosts, Compile(h) PROVE Types'
  BY <1>8 DEF Types, Compile, Goto, Steps, database
<1>9. ASSUME NEW h \in Hosts, Fill(h) PROVE Types'
  <2>1. lock' \in [Locks -> Hosts \cup {None}]
    BY <1>9 DEF Types, Fill
  <2> QED BY <1>9, <2>1 DEF Types, Fill, Goto, Steps, database, mint
<1>10. ASSUME NEW h \in Hosts, MintCommit(h) PROVE Types'
  <2>1. eras' \in Seq(EraRow)
    <3>1. [label |-> LabelOf[h], watermark |-> mark[h]] \in EraRow
      BY LabelTypes DEF EraRow, Types
    <3> QED BY <1>10, <3>1 DEF MintCommit, Types
  <2>2. Serve(h, Len(eras) + 1) /\ Release(h) /\ Len(eras) + 1 \in Nat
    BY <1>10 DEF MintCommit, Types
  <2>3. view' \in [era: Nat, rows: SUBSET Row] /\ fence' \in Nat /\ readers' \in SUBSET Labels
    BY <1>10, <2>2, LabelTypes DEF MintCommit, Types
  <2>4. UNCHANGED <<rolling, rows, sequence, mine, boots>>
    BY <1>10 DEF MintCommit
  <2> QED BY <2>1, <2>2, <2>3, <2>4, ServeTypes, ReleaseTypes DEF Types
<1>11. ASSUME NEW h \in Hosts, MintTimesOut(h) PROVE Types'
  <2>1. Release(h) /\ Stop(h) /\ UNCHANGED <<rolling, eras, rows, sequence, fence, view, readers, mine, boots>>
    BY <1>11 DEF MintTimesOut, database
  <2> QED BY <2>1, StopTypes, ReleaseTypes DEF Types
<1>12. ASSUME NEW h \in Hosts, Dispatch(h) PROVE Types'
  BY <1>12 DEF Types, Dispatch, Goto, Steps, database, mint
<1>13. ASSUME NEW h \in Hosts, Put(h) PROVE Types'
  BY <1>13 DEF Types, Put, Goto, Steps, database, mint
<1>14. ASSUME NEW h \in Hosts, NEW i \in Ids, Insert(h, i) PROVE Types'
  <2>1. {[ord |-> sequence + 1, era |-> era[h], id |-> i]} \in SUBSET Row
    BY DEF Types, Row
  <2>2. mine' \in [Hosts -> SUBSET Row] /\ sequence' \in Nat
    BY <1>14, <2>1 DEF Insert, Types
  <2> QED BY <1>14, <2>2 DEF Types, Insert, mint
<1>15. ASSUME NEW h \in Hosts, Commit(h) PROVE Types'
  <2>1. rows' \in SUBSET Row /\ readers' \in SUBSET Labels
    BY <1>15, LabelTypes DEF Types, Commit
  <2>2. mine' \in [Hosts -> SUBSET Row] /\ pc' \in [Hosts -> Steps]
    BY <1>15 DEF Types, Commit, Goto, Steps
  <2>3. Release(h) /\ UNCHANGED <<rolling, eras, sequence, fence, view, held, era, mark, base, boots>>
    BY <1>15 DEF Commit, mint
  <2> QED BY <2>1, <2>2, <2>3, ReleaseTypes DEF Types
<1>16. ASSUME NEW h \in Hosts, Rollback(h) PROVE Types'
  <2>1. Release(h)
    BY <1>16 DEF Rollback
  <2> QED BY <1>16, <2>1, ReleaseTypes DEF Types, Rollback, Goto, Steps, database, mint
<1>17. ASSUME NEW h \in Hosts, Crash(h) PROVE Types'
  <2>1. Release(h) /\ Stop(h) /\ UNCHANGED <<rolling, eras, rows, sequence, fence, view, readers, boots>>
    BY <1>17 DEF Crash, database
  <2>2. mine' \in [Hosts -> SUBSET Row]
    BY <1>17 DEF Crash, Types
  <2> QED BY <2>1, <2>2, StopTypes, ReleaseTypes DEF Types
<1> QED BY <1>1, <1>2, <1>3, <1>4, <1>5, <1>6, <1>7, <1>8, <1>9, <1>10, <1>11, <1>12,
           <1>13, <1>14, <1>15, <1>16, <1>17 DEF Next, Booting, Ending

(* A function on 1..n is a sequence of length n. *)
LEMMA FunctionIsSequence ==
    ASSUME NEW S, NEW n \in Nat, NEW f \in [1..n -> S]
    PROVE  f \in Seq(S) /\ Len(f) = n
<1>1. f \in Seq(S)
  OBVIOUS
<1>2. Len(f) \in Nat /\ DOMAIN f = 1..Len(f) /\ DOMAIN f = 1..n
  BY <1>1
<1> QED BY <1>1, <1>2

(* What a chain says of an era's successor. *)
LEMMA ChainedMeans ==
    ASSUME Types, NEW h \in Hosts
    PROVE  Chained(h) <=>
             /\ \A n \in 1..Len(held[h]) - 1 :
                   <<held[h][n].label, held[h][n + 1].label>> \in Edges
             /\ held[h] # <<>> => <<held[h][Len(held[h])].label, LabelOf[h]>> \in Edges
<1> DEFINE labels == [n \in DOMAIN held[h] |-> held[h][n].label]
           chain == Append(labels, LabelOf[h])
           last == Len(held[h])
<1>1. held[h] \in Seq(EraRow) /\ last \in Nat /\ DOMAIN held[h] = 1..last
  BY DEF Types
<1>2. labels \in Seq(Labels \cup {Unnamed}) /\ Len(labels) = last
  <2>1. \A n \in 1..last : held[h][n] \in EraRow
    BY <1>1
  <2>2. labels \in [1..last -> Labels \cup {Unnamed}]
    BY <1>1, <2>1 DEF EraRow
  <2> HIDE DEF labels, last
  <2> QED BY <1>1, <2>2, FunctionIsSequence
<1>3. \A n \in 1..last : chain[n] = held[h][n].label
  BY <1>1, <1>2
<1>4. chain[last + 1] = LabelOf[h]
  BY <1>1, <1>2
<1>5. Chained(h) <=> \A n \in 1..last : <<chain[n], chain[n + 1]>> \in Edges
  BY DEF Chained
<1>6. held[h] # <<>> <=> last > 0
  BY <1>1
<1>7. ASSUME Chained(h)
      PROVE  /\ \A n \in 1..last - 1 : <<held[h][n].label, held[h][n + 1].label>> \in Edges
             /\ last > 0 => <<held[h][last].label, LabelOf[h]>> \in Edges
  <2> HIDE DEF chain, last
  <2> QED BY <1>1, <1>3, <1>4, <1>5, <1>7
<1>8. ASSUME \A n \in 1..last - 1 : <<held[h][n].label, held[h][n + 1].label>> \in Edges,
             last > 0 => <<held[h][last].label, LabelOf[h]>> \in Edges
      PROVE  Chained(h)
  <2> SUFFICES ASSUME NEW n \in 1..last PROVE <<chain[n], chain[n + 1]>> \in Edges
    BY <1>5
  <2> HIDE DEF chain, last
  <2>1. CASE n = last
    BY <1>1, <1>3, <1>4, <1>8, <2>1
  <2>2. CASE n # last
    <3>1. n \in 1..last - 1 /\ n + 1 \in 1..last
      BY <1>1, <2>2
    <3> QED BY <1>3, <1>8, <3>1
  <2> QED BY <2>1, <2>2
<1> QED BY <1>6, <1>7, <1>8

(* The ends of a boot and of a transaction touch their own host only. *)
LEMMA StopLeaves ==
    ASSUME Types, NEW h \in Hosts, Stop(h)
    PROVE  /\ pc'[h] = "off"
           /\ \A g \in Hosts \ {h} :
                 /\ pc'[g] = pc[g] /\ held'[g] = held[g] /\ era'[g] = era[g]
                 /\ mark'[g] = mark[g] /\ base'[g] = base[g]
BY DEF Types, Stop, Goto, Forget

(* So does a boot that comes up. *)
LEMMA ServeLeaves ==
    ASSUME Types, NEW h \in Hosts, NEW n \in Nat, Serve(h, n)
    PROVE  /\ pc'[h] = "serving" /\ era'[h] = n
           /\ \A g \in Hosts \ {h} :
                 /\ pc'[g] = pc[g] /\ held'[g] = held[g] /\ era'[g] = era[g]
                 /\ mark'[g] = mark[g] /\ base'[g] = base[g]
BY DEF Types, Serve, Goto, Forget

(* A transaction's end frees the eras' lock only if it held it. *)
LEMMA ReleaseLeaves ==
    ASSUME Types, NEW h \in Hosts, Release(h)
    PROVE  lock'["eras"] = lock["eras"] \/ lock["eras"] = h
BY DEF Types, Release, Locks

(* Every step but the founding of an era and a mint's commit is a quiet one. *)
LEMMA QuietSteps ==
    ASSUME Types, Next
    PROVE  \E h \in Hosts : Quiet(h) \/ HoldFirst(h) \/ MintCommit(h)
<1> USE DEF Deciding, Decided, Minting, Served, Writing
<1>1. ASSUME NEW h \in Hosts, Boot(h) PROVE Quiet(h)
  BY <1>1 DEF Types, Boot, Goto, database, mint, Quiet, ReadsEras
<1>2. ASSUME NEW h \in Hosts, UseExisting(h) PROVE Quiet(h)
  <2>1. PICK n \in Naming(h) : Serve(h, n)
    BY <1>2 DEF UseExisting
  <2>2. n \in Nat /\ 0 < n
    BY <2>1 DEF Naming, Types
  <2>3. /\ UNCHANGED <<rolling, eras, rows, sequence, fence, view, readers, lock, mine, boots>>
        /\ pc[h] = "booting"
    BY <1>2 DEF UseExisting, database
  <2> QED BY <2>1, <2>2, <2>3, ServeLeaves DEF Quiet
<1>3. ASSUME NEW h \in Hosts, Refuse(h) PROVE Quiet(h)
  <2>1. /\ Stop(h) /\ pc[h] = "booting"
        /\ UNCHANGED <<rolling, eras, rows, sequence, fence, view, readers, lock, mine, boots>>
    BY <1>3 DEF Refuse, Drifted, database
  <2> QED BY <2>1, StopLeaves DEF Quiet
<1>4. ASSUME NEW h \in Hosts, Audit(h) PROVE Quiet(h)
  <2>1. PassesAudit(h)
    BY <1>4 DEF Audit, Drifted, PassesAudit, Goto, Types
  <2> QED BY <1>4, <2>1 DEF Audit, Drifted, Goto, database, mint, Quiet, Types
<1>5. ASSUME NEW h \in Hosts, MintBegin(h) PROVE Quiet(h)
  <2>1. /\ UNCHANGED <<rolling, eras, rows, sequence, fence, view, readers, mine, boots>>
        /\ pc[h] = "audited" /\ lock["eras"] = None
    BY <1>5 DEF MintBegin, database
  <2>2. ASSUME Stop(h), UNCHANGED lock PROVE Quiet(h)
    BY <2>1, <2>2, StopLeaves DEF Quiet
  <2>3. ASSUME ~AlreadyMinted(h) PROVE Quiet(h)
    <3>1. PICK n \in {0} \cup {r.ord : r \in rows} :
             (\A r \in rows : r.ord <= n) /\ mark' = [mark EXCEPT ![h] = n]
      BY <1>5, <2>3 DEF MintBegin
    <3>2. /\ lock' = [lock EXCEPT !["eras"] = h] /\ UNCHANGED <<held, era, base>>
          /\ pc' = [pc EXCEPT ![h] = "minting"]
      BY <1>5, <2>3 DEF MintBegin, Goto
    <3>3. StartsMint(h)
      BY <2>1, <2>3, <3>1, <3>2 DEF StartsMint, Types, Locks
    <3> QED BY <2>1, <3>1, <3>2, <3>3 DEF Quiet, Types
  <2> QED BY <1>5, <2>2, <2>3 DEF MintBegin
<1>6. ASSUME NEW h \in Hosts, Compile(h) PROVE Quiet(h)
  <2>1. GoesOn(h)
    BY <1>6 DEF Compile, Goto, GoesOn, database, Types
  <2> QED BY <1>6, <2>1 DEF Compile, Goto, database, Quiet, Types
<1>7. ASSUME NEW h \in Hosts, Fill(h) PROVE Quiet(h)
  <2>1. lock'["eras"] = lock["eras"]
    BY <1>7 DEF Fill, Types, Locks
  <2>2. GoesOn(h)
    BY <1>7, <2>1 DEF Fill, Goto, GoesOn, database, mint, Types
  <2> QED BY <1>7, <2>1, <2>2 DEF Fill, Goto, database, mint, Quiet, Types
<1>8. ASSUME NEW h \in Hosts, MintTimesOut(h) PROVE Quiet(h)
  <2>1. /\ Release(h) /\ Stop(h) /\ pc[h] # "off"
        /\ UNCHANGED <<rolling, eras, rows, sequence, fence, view, readers, mine, boots>>
    BY <1>8 DEF MintTimesOut, database
  <2> QED BY <1>8, <2>1, StopLeaves, ReleaseLeaves DEF MintTimesOut, Quiet
<1>9. ASSUME NEW h \in Hosts, Dispatch(h) PROVE Quiet(h)
  BY <1>9 DEF Types, Dispatch, Goto, database, mint, Quiet, Locks
<1>10. ASSUME NEW h \in Hosts, Put(h) PROVE Quiet(h)
  BY <1>10 DEF Types, Put, Goto, database, mint, Quiet, Locks
<1>11. ASSUME NEW h \in Hosts, NEW i \in Ids, Insert(h, i) PROVE Quiet(h)
  <2>1. mine'[h] = {[ord |-> sequence + 1, era |-> era[h], id |-> i]} /\ fence = era[h]
    BY <1>11 DEF Insert, Types
  <2>2. \A r \in mine'[h] : r.era = fence
    BY <2>1
  <2> QED BY <1>11, <2>1, <2>2 DEF Types, Insert, mint, Quiet
<1>12. ASSUME NEW h \in Hosts, Commit(h) PROVE Quiet(h)
  <2>1. lock'["eras"] = lock["eras"] \/ lock["eras"] = h
    BY <1>12, ReleaseLeaves DEF Commit
  <2> QED BY <1>12, <2>1 DEF Types, Commit, Goto, mint, Quiet
<1>13. ASSUME NEW h \in Hosts, Rollback(h) PROVE Quiet(h)
  <2>1. lock'["eras"] = lock["eras"] \/ lock["eras"] = h
    BY <1>13, ReleaseLeaves DEF Rollback
  <2> QED BY <1>13, <2>1 DEF Types, Rollback, Goto, database, mint, Quiet
<1>14. ASSUME NEW h \in Hosts, Crash(h) PROVE Quiet(h)
  <2>1. /\ Release(h) /\ Stop(h) /\ pc[h] # "off" /\ mine' = [mine EXCEPT ![h] = {}]
        /\ UNCHANGED <<rolling, eras, rows, sequence, fence, view, readers, boots>>
    BY <1>14 DEF Crash, database
  <2>2. mine'[h] = {} /\ \A g \in Hosts \ {h} : mine'[g] = mine[g]
    BY <2>1 DEF Types
  <2> QED BY <2>1, <2>2, StopLeaves, ReleaseLeaves DEF Quiet
<1> QED BY <1>1, <1>2, <1>3, <1>4, <1>5, <1>6, <1>7, <1>8, <1>9, <1>10, <1>11, <1>12,
           <1>13, <1>14 DEF Next, Booting, Ending

----------------------------------------------------------------------------
(* What the two other steps do: the founding of an era finds none, and a     *)
(* mint's commit appends to the eras.                                        *)
Founds(h) ==
    /\ eras = <<>> /\ ~rolling /\ pc[h] = "booting"
    /\ Len(eras') = 1 /\ eras'[1] = [label |-> LabelOf[h], watermark |-> 0]
    /\ fence' = 1 /\ view' = [era |-> 1, rows |-> {}]
    /\ \A g \in Hosts : mine'[g] = {}
    /\ pc'[h] = "serving" /\ era'[h] = 1
    /\ \A g \in Hosts \ {h} : pc[g] = "off" /\ pc'[g] = "off"
    /\ UNCHANGED <<rolling, rows, lock, mine>>

Mints(h) ==
    /\ pc[h] = "filled" /\ eras # <<>> /\ held[h] # <<>>
    /\ Len(eras') = Len(eras) + 1 /\ \A n \in 1..Len(eras) : eras'[n] = eras[n]
    /\ eras'[Len(eras) + 1] = [label |-> LabelOf[h], watermark |-> mark[h]]
    /\ fence' = Len(eras) + 1 /\ view' = [era |-> Len(eras) + 1, rows |-> base[h]]
    /\ \A g \in Hosts : mine'[g] = {}
    /\ pc'[h] = "serving" /\ era'[h] = Len(eras) + 1
    /\ \A g \in Hosts \ {h} :
          /\ pc'[g] = pc[g] /\ held'[g] = held[g] /\ era'[g] = era[g]
          /\ mark'[g] = mark[g] /\ base'[g] = base[g]
    /\ lock'["eras"] = lock["eras"] \/ lock["eras"] = h
    /\ UNCHANGED <<rolling, rows, mine>>

(* A boot that founds the first era is alone, and finds none. *)
LEMMA FoundsFirst ==
    ASSUME FenceInv, NEW h \in Hosts, HoldFirst(h)
    PROVE  Founds(h)
<1>1. pc[h] = "booting" /\ eras = <<>>
  BY DEF HoldFirst, FenceInv, Founding, Deciding
<1>2. ~rolling
  BY <1>1 DEF FenceInv, Founding, Types
<1>3. \A g \in Hosts \ {h} : pc[g] = "off"
  BY <1>1, <1>2 DEF FenceInv, Alone
<1>4. Serve(h, 1)
  BY DEF HoldFirst
<1>5. /\ pc'[h] = "serving" /\ era'[h] = 1
      /\ \A g \in Hosts \ {h} : pc'[g] = pc[g]
  BY <1>4, ServeLeaves DEF FenceInv
<1>6. eras' = <<[label |-> LabelOf[h], watermark |-> 0]>>
  BY <1>1 DEF HoldFirst
<1>7. \A g \in Hosts : mine'[g] = {}
  BY DEF HoldFirst, NoOpenRow
<1> QED BY <1>1, <1>2, <1>3, <1>5, <1>6, <1>7 DEF HoldFirst, Founds

(* A mint's commit adds one era at the end and touches its own host only. *)
LEMMA MintAppends ==
    ASSUME FenceInv, NEW h \in Hosts, MintCommit(h)
    PROVE  Mints(h)
<1>1. pc[h] = "filled" /\ held[h] # <<>>
  BY DEF MintCommit, FenceInv, DecidedWell, Decided, Minting
<1>2. Len(held[h]) <= Len(eras) /\ held[h] \in Seq(EraRow) /\ eras \in Seq(EraRow)
  BY <1>1 DEF FenceInv, HeldIsPrefix, Deciding, Decided, Minting, Types
<1>3. eras # <<>>
  BY <1>1, <1>2
<1>4. /\ Serve(h, Len(eras) + 1) /\ Release(h) /\ Len(eras) + 1 \in Nat /\ Types
  BY <1>2 DEF MintCommit, FenceInv
<1>5. lock'["eras"] = lock["eras"] \/ lock["eras"] = h
  BY <1>4, ReleaseLeaves
<1>6. /\ Len(eras') = Len(eras) + 1 /\ \A n \in 1..Len(eras) : eras'[n] = eras[n]
      /\ eras'[Len(eras) + 1] = [label |-> LabelOf[h], watermark |-> mark[h]]
  BY <1>2 DEF MintCommit
<1>7. \A g \in Hosts : mine'[g] = {}
  BY DEF MintCommit, WritersDone, NoOpenRow
<1>8. /\ pc'[h] = "serving" /\ era'[h] = Len(eras) + 1
      /\ \A g \in Hosts \ {h} :
            /\ pc'[g] = pc[g] /\ held'[g] = held[g] /\ era'[g] = era[g]
            /\ mark'[g] = mark[g] /\ base'[g] = base[g]
  BY <1>4, ServeLeaves
<1> QED BY <1>1, <1>3, <1>5, <1>6, <1>7, <1>8 DEF MintCommit, Mints

(* Chained and Naming read what the boot read, and nothing else. *)
LEMMA DecisionKept ==
    ASSUME NEW g \in Hosts, held'[g] = held[g]
    PROVE  (Chained(g)' <=> Chained(g)) /\ Naming(g)' = Naming(g)
BY DEF Chained, Naming

(* Every step keeps the invariant about the fence. *)
LEMMA FenceInvKept == FenceInv /\ [Next]_vars => FenceInv'
<1> SUFFICES ASSUME FenceInv, [Next]_vars PROVE FenceInv'
  OBVIOUS
<1>t. Types /\ Types'
  BY TypesKept DEF FenceInv
<1>e. eras \in Seq(EraRow) /\ Len(eras) \in Nat /\ \A h \in Hosts : held[h] \in Seq(EraRow) /\ Len(held[h]) \in Nat
  BY <1>t DEF Types
<1>1. CASE UNCHANGED vars
  <2>1. (Alone /\ Founding /\ HeldIsPrefix)' /\ (OpenIsLatest /\ ServedExists /\ FenceIsLatest)'
    BY <1>1 DEF FenceInv, vars, Alone, Founding, HeldIsPrefix, OpenIsLatest,
                ServedExists, FenceIsLatest, Deciding, Decided, Minting, Writing
  <2>2. DecidedWell'
    BY <1>1, DecisionKept DEF FenceInv, vars, DecidedWell, Decided, Minting
  <2> QED BY <1>t, <2>1, <2>2 DEF FenceInv
<1>2. ASSUME NEW h \in Hosts, Quiet(h) PROVE FenceInv'
  <2>1. Alone'
    BY <1>2 DEF FenceInv, Alone, Quiet
  <2>2. Founding'
    BY <1>2 DEF FenceInv, Founding, DecidedWell, Quiet, ReadsEras, PassesAudit, StartsMint, GoesOn,
                Deciding, Decided, Minting
  <2>3. HeldIsPrefix'
    <3> SUFFICES ASSUME NEW g \in Hosts, Deciding(g)'
                 PROVE  /\ Len(held'[g]) <= Len(eras)
                        /\ \A n \in 1..Len(held'[g]) : held'[g][n] = eras[n]
      BY <1>2 DEF HeldIsPrefix, Quiet
    <3>1. CASE held'[g] = eras
      BY <1>e, <3>1
    <3>2. CASE held'[g] = held[g] /\ Deciding(g)
      BY <3>2 DEF FenceInv, HeldIsPrefix
    <3>3. held'[g] = eras \/ (held'[g] = held[g] /\ Deciding(g))
      BY <1>2 DEF Quiet, ReadsEras, PassesAudit, StartsMint, GoesOn, Deciding, Decided, Minting
    <3> QED BY <3>1, <3>2, <3>3
  <2>4. DecidedWell'
    <3> SUFFICES ASSUME NEW g \in Hosts, Decided(g)'
                 PROVE  held'[g] # <<>> /\ Naming(g)' = {} /\ Chained(g)'
      BY DEF DecidedWell
    <3>1. held'[g] = held[g] /\ held[g] # <<>> /\ Naming(g) = {} /\ Chained(g)
      BY <1>2 DEF FenceInv, DecidedWell, Quiet, ReadsEras, PassesAudit, StartsMint, GoesOn,
                  Deciding, Decided, Minting
    <3> QED BY <3>1, DecisionKept
  <2>5. OpenIsLatest'
    <3> SUFFICES ASSUME NEW g \in Hosts
                 PROVE  /\ mine'[g] # {} => Writing(g)'
                        /\ \A r \in mine'[g] : r.era = Len(eras) /\ 0 < r.era
      BY <1>2 DEF OpenIsLatest, Quiet
    <3>1. CASE g # h
      BY <1>2, <3>1 DEF FenceInv, OpenIsLatest, Quiet, Writing
    <3>2. CASE mine'[h] = mine[h] /\ (Writing(h) => Writing(h)') /\ g = h
      BY <3>2 DEF FenceInv, OpenIsLatest
    <3>3. CASE g = h /\ Writing(h)' /\ \A r \in mine'[h] : r.era = fence /\ fence = era[h] /\ Writing(h)
      BY <3>3 DEF FenceInv, FenceIsLatest, ServedExists
    <3> QED BY <1>2, <3>1, <3>2, <3>3 DEF Quiet
  <2>6. ServedExists'
    BY <1>2 DEF FenceInv, ServedExists, Quiet, Served, Writing
  <2>7. FenceIsLatest'
    BY <1>2 DEF FenceInv, FenceIsLatest, Quiet
  <2> QED BY <1>t, <2>1, <2>2, <2>3, <2>4, <2>5, <2>6, <2>7 DEF FenceInv
<1>3. ASSUME NEW h \in Hosts, HoldFirst(h) PROVE FenceInv'
  <2>f. Founds(h)
    BY <1>3, FoundsFirst
  <2>1. \A g \in Hosts : pc'[g] \in {"off", "serving"}
    BY <2>f DEF Founds
  <2>2. \A g \in Hosts : ~Deciding(g)' /\ ~Decided(g)' /\ ~Writing(g)'
    BY <2>1 DEF Deciding, Decided, Minting, Writing
  <2>3. Founding' /\ HeldIsPrefix' /\ DecidedWell'
    BY <2>f, <2>2 DEF Founds, Founding, HeldIsPrefix, DecidedWell
  <2>4. Alone' /\ OpenIsLatest' /\ ServedExists' /\ FenceIsLatest'
    BY <2>f, <2>2 DEF Founds, Alone, OpenIsLatest, ServedExists, FenceIsLatest
  <2> QED BY <1>t, <2>3, <2>4 DEF FenceInv
<1>4. ASSUME NEW h \in Hosts, MintCommit(h) PROVE FenceInv'
  <2>m. Mints(h)
    BY <1>4, MintAppends
  <2>1. Alone' /\ FenceIsLatest' /\ OpenIsLatest'
    BY <2>m DEF Mints, FenceInv, Alone, FenceIsLatest, OpenIsLatest
  <2>2. ServedExists'
    BY <2>m, <1>e DEF Mints, FenceInv, ServedExists, Writing
  <2>3. \A g \in Hosts : Deciding(g)' =>
           /\ g # h /\ Deciding(g) /\ held'[g] = held[g]
           /\ Decided(g)' => Decided(g)
    BY <2>m DEF Mints, Deciding, Decided, Minting
  <2>4. Founding'
    <3>1. eras' # <<>>
      BY <2>m, <1>e, <1>t DEF Mints, Types
    <3>2. \A g \in Hosts : Deciding(g)' => held'[g] # <<>>
      BY <2>m, <2>3 DEF Mints, FenceInv, Founding
    <3> QED BY <3>1, <3>2 DEF Founding
  <2>5. HeldIsPrefix'
    BY <2>m, <1>e, <2>3 DEF Mints, FenceInv, HeldIsPrefix
  <2>6. DecidedWell'
    <3> SUFFICES ASSUME NEW g \in Hosts, Decided(g)'
                 PROVE  held'[g] # <<>> /\ Naming(g)' = {} /\ Chained(g)'
      BY DEF DecidedWell
    <3>1. held'[g] = held[g] /\ Decided(g)
      BY <2>3 DEF Deciding
    <3> QED BY <3>1, DecisionKept DEF FenceInv, DecidedWell
  <2> QED BY <1>t, <2>1, <2>2, <2>4, <2>5, <2>6 DEF FenceInv
<1> QED BY <1>t, <1>1, <1>2, <1>3, <1>4, QuietSteps

(* Every step keeps the invariant about watermarks. *)
LEMMA MintInvKept == MintInv /\ [Next]_vars => MintInv'
<1> SUFFICES ASSUME MintInv, [Next]_vars PROVE MintInv'
  OBVIOUS
<1>f. FenceInv /\ FenceInv' /\ Types /\ Types'
  BY FenceInvKept DEF MintInv, FenceInv
<1>e. eras \in Seq(EraRow) /\ Len(eras) \in Nat
  BY <1>f DEF Types
<1>1. CASE UNCHANGED vars
  BY <1>1, <1>f DEF MintInv, vars, MintHolds, MarksKnown, Known, Minting
<1>2. ASSUME NEW h \in Hosts, Quiet(h) PROVE MintInv'
  <2>0. \A n \in Nat : Known(n, rows) => Known(n, rows')
    BY <1>2 DEF Quiet, Known
  <2>1. MarksKnown'
    <3>1. \A n \in 1..Len(eras) : eras[n] \in EraRow
      BY <1>e
    <3>2. \A n \in 1..Len(eras) : eras[n].watermark \in Nat
      BY <3>1 DEF EraRow
    <3> QED BY <1>2, <2>0, <3>2 DEF MintInv, MarksKnown, Quiet
  <2>2. MintHolds'
    <3> SUFFICES ASSUME NEW g \in Hosts, Minting(g)'
                 PROVE  /\ lock'["eras"] = g /\ Len(held'[g]) = Len(eras) /\ Known(mark'[g], rows')
                        /\ \A n \in 1..Len(eras) : eras[n].watermark <= mark'[g]
      BY <1>2 DEF MintHolds, Quiet
    <3>1. CASE g # h
      <4>1. Minting(g) /\ held'[g] = held[g] /\ mark'[g] = mark[g]
        BY <1>2, <3>1 DEF Quiet, Minting
      <4>2. lock["eras"] = g /\ lock'["eras"] = g
        BY <1>2, <3>1, <4>1 DEF MintInv, MintHolds, Quiet
      <4>3. mark[g] \in Nat
        BY <1>f DEF Types
      <4> QED BY <2>0, <4>1, <4>2, <4>3 DEF MintInv, MintHolds
    <3>2. CASE g = h /\ StartsMint(h)
      <4>1. Len(held[h]) = Len(eras)
        <5>1. Len(held[h]) <= Len(eras)
          BY <3>2 DEF StartsMint, MintInv, FenceInv, HeldIsPrefix, Deciding, Decided
        <5>2. ~(Len(held[h]) < Len(eras)) /\ Len(held[h]) \in Nat
          BY <1>f, <3>2 DEF StartsMint, AlreadyMinted, Types
        <5> QED BY <1>e, <5>1, <5>2
      <4>2. Known(mark'[h], rows')
        BY <3>2 DEF StartsMint, Known
      <4>3. ASSUME NEW n \in 1..Len(eras) PROVE eras[n].watermark <= mark'[h]
        <5>1. Known(eras[n].watermark, rows)
          BY DEF MintInv, MarksKnown
        <5>2. mark'[h] \in Nat
          BY <1>f DEF Types
        <5> QED BY <3>2, <5>1, <5>2 DEF StartsMint, Known
      <4> QED BY <3>2, <4>1, <4>2, <4>3 DEF StartsMint
    <3>3. CASE g = h /\ GoesOn(h)
      <4>1. mark[h] \in Nat
        BY <1>f DEF Types
      <4> QED BY <2>0, <3>3, <4>1 DEF GoesOn, MintInv, MintHolds
    <3>4. g = h => StartsMint(h) \/ GoesOn(h)
      BY <1>2 DEF Quiet, Minting, Deciding, Decided, ReadsEras, PassesAudit
    <3> QED BY <3>1, <3>2, <3>3, <3>4
  <2> QED BY <1>f, <2>1, <2>2 DEF MintInv
<1>3. ASSUME NEW h \in Hosts, HoldFirst(h) PROVE MintInv'
  <2>f. Founds(h)
    BY <1>3, <1>f, FoundsFirst
  <2>1. \A g \in Hosts : ~Minting(g)'
    BY <2>f DEF Founds, Minting
  <2>2. MarksKnown'
    BY <2>f DEF Founds, MarksKnown, Known
  <2> QED BY <1>f, <2>1, <2>2 DEF MintInv, MintHolds
<1>4. ASSUME NEW h \in Hosts, MintCommit(h) PROVE MintInv'
  <2>m. Mints(h)
    BY <1>4, <1>f, MintAppends
  <2>1. \A g \in Hosts : ~Minting(g)'
    <3>1. \A g \in Hosts : Minting(g) => g = h
      BY <2>m DEF Mints, MintInv, MintHolds, Minting
    <3> QED BY <2>m, <3>1 DEF Mints, Minting
  <2>2. \A n \in Nat : Known(n, rows) => Known(n, rows')
    BY <2>m DEF Mints, Known
  <2>3. MarksKnown'
    <3> SUFFICES ASSUME NEW n \in 1..Len(eras) + 1 PROVE Known(eras'[n].watermark, rows')
      BY <2>m DEF MarksKnown, Mints
    <3>1. CASE n = Len(eras) + 1
      <4>1. Known(mark[h], rows) /\ mark[h] \in Nat
        BY <1>f, <2>m DEF Mints, MintInv, MintHolds, Minting, Types
      <4> QED BY <2>m, <2>2, <3>1, <4>1 DEF Mints
    <3>2. CASE n \in 1..Len(eras)
      <4>0. eras[n] \in EraRow
        BY <1>e, <3>2
      <4>1. Known(eras[n].watermark, rows) /\ eras[n].watermark \in Nat
        BY <3>2, <4>0 DEF MintInv, MarksKnown, EraRow
      <4> QED BY <2>m, <2>2, <3>2, <4>1 DEF Mints
    <3> QED BY <1>e, <3>1, <3>2
  <2> QED BY <1>f, <2>1, <2>3 DEF MintInv, MintHolds
<1> QED BY <1>f, <1>1, <1>2, <1>3, <1>4, QuietSteps

(* Every step keeps the eras a chain. *)
LEMMA ChainInvKept == ChainInv /\ [Next]_vars => ChainInv'
<1> SUFFICES ASSUME ChainInv, [Next]_vars PROVE ErasChain'
  BY MintInvKept DEF ChainInv
<1>f. MintInv /\ FenceInv /\ Types /\ ErasChain
  BY DEF ChainInv, MintInv, FenceInv
<1>e. eras \in Seq(EraRow) /\ Len(eras) \in Nat /\ DOMAIN eras = 1..Len(eras)
  BY <1>f DEF Types
<1>1. CASE UNCHANGED eras
  BY <1>1, <1>f DEF ErasChain
<1>2. ASSUME NEW h \in Hosts, Quiet(h) PROVE ErasChain'
  BY <1>1, <1>2 DEF Quiet
<1>t. Types'
  BY <1>f, TypesKept
<1>d. DOMAIN eras' = 1..Len(eras')
  BY <1>t DEF Types
<1>3. ASSUME NEW h \in Hosts, HoldFirst(h) PROVE ErasChain'
  <2>f. Founds(h)
    BY <1>3, <1>f, FoundsFirst
  <2> QED BY <1>d, <2>f DEF Founds, ErasChain
<1>4. ASSUME NEW h \in Hosts, MintCommit(h) PROVE ErasChain'
  <2> DEFINE last == Len(eras)
  <2>m. Mints(h)
    BY <1>4, <1>f, MintAppends
  <2>1. /\ Minting(h) /\ Len(held[h]) = last /\ \A n \in 1..last : held[h][n] = eras[n]
        /\ Naming(h) = {} /\ Chained(h) /\ held[h] # <<>>
        /\ \A n \in 1..last : eras[n].watermark <= mark[h]
    BY <1>f, <2>m DEF Mints, MintInv, MintHolds, FenceInv, HeldIsPrefix, DecidedWell,
                      Deciding, Decided, Minting
  <2>2. last > 0 /\ DOMAIN held[h] = 1..last
    BY <1>f, <1>e, <2>1 DEF Types
  <2>3. <<eras[last].label, LabelOf[h]>> \in Edges
    BY <1>f, <1>e, <2>1, <2>2, ChainedMeans
  <2>4. \A n \in 1..last : eras[n].label # LabelOf[h]
    BY <2>1, <2>2 DEF Naming
  <2>5. Len(eras') = last + 1 /\ \A n \in 1..last : eras'[n] = eras[n]
    BY <2>m DEF Mints
  <2>6. eras'[last + 1].label = LabelOf[h] /\ eras'[last + 1].watermark = mark[h]
    BY <2>m DEF Mints
  <2> HIDE DEF last
  <2>7. ASSUME NEW n \in 1..Len(eras') - 1
        PROVE  /\ <<eras'[n].label, eras'[n + 1].label>> \in Edges
               /\ eras'[n].watermark <= eras'[n + 1].watermark
    <3>1. CASE n = last
      BY <2>1, <2>2, <2>3, <2>5, <2>6, <3>1
    <3>2. CASE n # last
      <4>1. n \in 1..Len(eras) - 1 /\ n \in 1..last /\ n + 1 \in 1..last
        BY <1>e, <2>5, <3>2 DEF last
      <4> QED BY <1>f, <2>5, <4>1 DEF ErasChain
    <3> QED BY <3>1, <3>2
  <2>8. ASSUME NEW m \in 1..last + 1, NEW n \in 1..last + 1, eras'[m].label = eras'[n].label,
               eras'[m].label # Unnamed
        PROVE  m = n
    <3>1. CASE m \in 1..last /\ n \in 1..last
      BY <1>f, <1>e, <2>5, <2>8, <3>1 DEF ErasChain, last
    <3>2. CASE m = last + 1 /\ n \in 1..last
      BY <2>4, <2>5, <2>6, <2>8, <3>2
    <3>3. CASE n = last + 1 /\ m \in 1..last
      BY <2>4, <2>5, <2>6, <2>8, <3>3
    <3> QED BY <1>e, <3>1, <3>2, <3>3 DEF last
  <2> QED BY <1>d, <2>5, <2>7, <2>8 DEF ErasChain
<1> QED BY <1>f, <1>1, <1>2, <1>3, <1>4, QuietSteps DEF vars

(* Under the lock, with every writer stopped, a mint compiles every row. *)
LEMMA CompilesAll ==
    ASSUME HeadInv, ~rolling, NEW h \in Hosts, Minting(h), NEW r \in rows
    PROVE  WithinCut(h, r)
<1> DEFINE last == Len(eras)
           watermarks == [n \in DOMAIN eras |-> eras[n].watermark]
           marks == Append(watermarks, mark[h])
<1>1. /\ eras \in Seq(EraRow) /\ last \in Nat /\ DOMAIN eras = 1..last
      /\ mark[h] \in Nat /\ r \in Row /\ r.era \in Nat
  BY DEF HeadInv, MintInv, FenceInv, Types, Row
<1>2. watermarks \in Seq(Nat) /\ Len(watermarks) = last
  <2>1. \A n \in 1..last : eras[n] \in EraRow
    BY <1>1
  <2>2. watermarks \in [1..last -> Nat]
    BY <1>1, <2>1 DEF EraRow
  <2> HIDE DEF watermarks, last
  <2> QED BY <1>1, <2>2, FunctionIsSequence
<1>3. /\ \A n \in 1..last : marks[n] = eras[n].watermark
      /\ marks[last + 1] = mark[h]
  BY <1>1, <1>2
<1>4. /\ 0 < r.era /\ r.era <= last
      /\ r.ord <= mark[h]
      /\ r.era < last => r.ord <= eras[r.era + 1].watermark
  BY DEF HeadInv, RowsKnown, CutsKeep
<1>5. r.ord <= marks[r.era + 1]
  <2> HIDE DEF marks, last
  <2>1. CASE r.era = last
    BY <1>3, <1>4, <2>1
  <2>2. CASE r.era < last
    <3>1. r.era + 1 \in 1..last
      BY <1>1, <1>4, <2>2
    <3> QED BY <1>3, <1>4, <2>2, <3>1
  <2> QED BY <1>1, <1>4, <2>1, <2>2
<1> QED BY <1>4, <1>5 DEF WithinCut

(* Every step keeps the invariant about the head. *)
LEMMA HeadInvKept == HeadInv /\ [Next]_vars => HeadInv'
<1> SUFFICES ASSUME HeadInv, [Next]_vars PROVE (RowsKnown /\ CutsKeep /\ HeadKeepsWrites)'
  BY MintInvKept DEF HeadInv
<1>f. MintInv /\ FenceInv /\ Types /\ RowsKnown /\ CutsKeep /\ HeadKeepsWrites
  BY DEF HeadInv, MintInv, FenceInv
<1>t. Types'
  BY <1>f, TypesKept
<1>e. eras \in Seq(EraRow) /\ Len(eras) \in Nat
  BY <1>f DEF Types
<1>1. CASE UNCHANGED vars
  BY <1>1, <1>f DEF vars, RowsKnown, CutsKeep, HeadKeepsWrites, HeadShowsLatest, Minting
<1>2. ASSUME NEW h \in Hosts, Quiet(h) PROVE (RowsKnown /\ CutsKeep /\ HeadKeepsWrites)'
  <2>0. /\ \A r \in rows' \ rows : r.era = Len(eras) /\ 0 < r.era
        /\ rows \subseteq rows' /\ eras' = eras /\ view' = view /\ rolling' = rolling
    BY <1>2, <1>f DEF Quiet, FenceInv, OpenIsLatest
  <2>1. RowsKnown'
    BY <1>f, <1>e, <2>0 DEF RowsKnown
  <2>2. CutsKeep'
    <3> SUFFICES ASSUME ~rolling PROVE CutsKeep'
      BY <2>0 DEF CutsKeep
    <3>1. \A r \in rows' : r.era < Len(eras) => r.ord <= eras[r.era + 1].watermark
      BY <1>f, <1>e, <2>0 DEF CutsKeep
    <3>2. \A g \in Hosts : Minting(g)' => g = h
      <4>1. ASSUME NEW g \in Hosts, Minting(g)', g # h PROVE FALSE
        <5>1. pc[g] # "off" /\ pc[h] = "off"
          BY <1>2, <1>f, <4>1 DEF Quiet, Minting, FenceInv, Alone
        <5>2. rolling \/ \A k \in Hosts : pc[k] = "off"
          BY <1>2, <5>1 DEF Quiet
        <5> QED BY <5>1, <5>2
      <4> QED BY <4>1
    <3>3. Minting(h)' => \A r \in rows' : r.ord <= mark'[h]
      BY <1>2, <1>f DEF Quiet, CutsKeep, Minting, Deciding, Decided, ReadsEras, PassesAudit,
                        StartsMint, GoesOn
    <3>4. ASSUME pc'[h] \in {"compiled", "filled"} PROVE base'[h] = rows'
      <4>1. GoesOn(h)
        BY <1>2, <3>4 DEF Quiet, Minting, Deciding, Decided, ReadsEras, PassesAudit, StartsMint
      <4>2. CASE pc[h] = "compiled" /\ base'[h] = base[h]
        BY <1>f, <4>1, <4>2 DEF GoesOn, CutsKeep
      <4>3. CASE base'[h] = {r \in rows : WithinCut(h, r)}
        <5>1. \A r \in rows : WithinCut(h, r)
          BY <4>1, CompilesAll DEF GoesOn
        <5> QED BY <4>1, <4>3, <5>1 DEF GoesOn
      <4> QED BY <4>1, <4>2, <4>3 DEF GoesOn
    <3> QED BY <2>0, <3>1, <3>2, <3>3, <3>4 DEF CutsKeep, Minting
  <2>3. HeadKeepsWrites'
    <3> SUFFICES ASSUME ~rolling, NEW r \in rows'
                 PROVE  \E s \in view.rows \cup {t \in rows' : t.era = view.era} :
                           s.id = r.id /\ r.ord <= s.ord
      BY <2>0 DEF HeadKeepsWrites, HeadShowsLatest
    <3>1. CASE r \in rows
      BY <1>f, <2>0, <3>1 DEF HeadKeepsWrites, HeadShowsLatest
    <3>2. CASE r \notin rows
      <4>1. r \in Row /\ r.ord \in Nat /\ r.era = view.era
        BY <1>f, <1>t, <2>0, <3>2 DEF Types, Row, RowsKnown
      <4> QED BY <4>1
    <3> QED BY <3>1, <3>2
  <2> QED BY <2>1, <2>2, <2>3
<1>3. ASSUME NEW h \in Hosts, HoldFirst(h) PROVE (RowsKnown /\ CutsKeep /\ HeadKeepsWrites)'
  <2>f. Founds(h)
    BY <1>3, <1>f, FoundsFirst
  <2>1. rows' = {} /\ view'.era = Len(eras')
    <3>1. Len(eras) = 0
      BY <2>f DEF Founds
    <3> QED BY <1>f, <2>f, <3>1 DEF Founds, RowsKnown, Types, Row
  <2>2. \A g \in Hosts : ~Minting(g)'
    BY <2>f DEF Founds, Minting
  <2> QED BY <2>1, <2>2 DEF RowsKnown, CutsKeep, HeadKeepsWrites, HeadShowsLatest, Minting
<1>4. ASSUME NEW h \in Hosts, MintCommit(h) PROVE (RowsKnown /\ CutsKeep /\ HeadKeepsWrites)'
  <2>m. Mints(h)
    BY <1>4, <1>f, MintAppends
  <2>1. RowsKnown'
    BY <1>f, <1>e, <2>m DEF Mints, RowsKnown, Types, Row
  <2>2. ASSUME ~rolling
        PROVE  /\ \A r \in rows : r.ord <= mark[h]
               /\ base[h] = rows
               /\ \A g \in Hosts : ~Minting(g)'
    <3>1. \A g \in Hosts \ {h} : pc[g] = "off" /\ pc'[g] = "off"
      BY <1>f, <2>2, <2>m DEF Mints, FenceInv, Alone
    <3> QED BY <1>f, <2>2, <2>m, <3>1 DEF Mints, CutsKeep, Minting
  <2>3. CutsKeep'
    <3> SUFFICES ASSUME ~rolling, NEW r \in rows, r.era < Len(eras) + 1
                 PROVE  r.ord <= eras'[r.era + 1].watermark
      BY <2>m, <2>2 DEF CutsKeep, Mints, Minting
    <3>1. r.era \in Nat
      BY <1>f DEF Types, Row
    <3>2. CASE r.era = Len(eras)
      BY <2>m, <2>2, <3>2 DEF Mints
    <3>3. CASE r.era < Len(eras)
      <4>1. r.era + 1 \in 1..Len(eras) /\ eras'[r.era + 1] = eras[r.era + 1]
        BY <1>e, <2>m, <3>1, <3>3 DEF Mints
      <4> QED BY <1>f, <3>3, <4>1 DEF CutsKeep
    <3> QED BY <1>e, <3>1, <3>2, <3>3
  <2>4. HeadKeepsWrites'
    <3> SUFFICES ASSUME ~rolling, NEW r \in rows
                 PROVE  \E s \in view'.rows : s.id = r.id /\ r.ord <= s.ord
      BY <2>m DEF HeadKeepsWrites, HeadShowsLatest, Mints
    <3>1. view'.rows = rows /\ r.ord \in Nat
      BY <1>f, <2>m, <2>2 DEF Mints, Types, Row
    <3> QED BY <3>1
  <2> QED BY <2>1, <2>3, <2>4
<1> QED BY <1>f, <1>1, <1>2, <1>3, <1>4, QuietSteps

----------------------------------------------------------------------------
(* The invariants hold at the start. *)
LEMMA InitMintInv ==
    ASSUME FoundedAlone, Init
    PROVE  MintInv
<1>1. PICK s \in Starts :
         /\ rolling = s.rolling
         /\ eras = [n \in DOMAIN s.held |-> [label |-> s.held[n], watermark |-> 0]]
         /\ fence = Len(s.held)
         /\ view = [era |-> Len(s.held), rows |-> {}]
  BY DEF Init
<1>2. s.held \in Seq(Labels \cup {Unnamed}) /\ s.rolling \in BOOLEAN
  BY DEF Deployments
<1>3. Len(s.held) \in Nat /\ DOMAIN s.held = 1..Len(s.held)
      /\ \A n \in DOMAIN s.held : s.held[n] \in Labels \cup {Unnamed}
  BY <1>2
<1>4. eras \in [1..Len(s.held) -> EraRow]
  BY <1>1, <1>3 DEF EraRow
<1>5. eras \in Seq(EraRow) /\ Len(eras) = Len(s.held)
  BY <1>3, <1>4, FunctionIsSequence
<1>6. Types
  <2>1. <<>> \in Seq(EraRow)
    OBVIOUS
  <2>2. held \in [Hosts -> Seq(EraRow)]
    BY <2>1 DEF Init
  <2>3. pc \in [Hosts -> Steps] /\ lock \in [Locks -> Hosts \cup {None}]
    BY DEF Init, Steps
  <2>4. view \in [era: Nat, rows: SUBSET Row]
    BY <1>1, <1>3
  <2>5. mine \in [Hosts -> SUBSET Row] /\ base \in [Hosts -> SUBSET Row]
    BY DEF Init
  <2> QED BY <1>1, <1>2, <1>3, <1>5, <2>2, <2>3, <2>4, <2>5 DEF Init, Types
<1>7. \A h \in Hosts : pc[h] = "off" /\ mine[h] = {}
  BY DEF Init
<1>8. rolling => eras # <<>>
  <2>1. ASSUME rolling, eras = <<>> PROVE FALSE
    <3>1. Len(s.held) = 0
      BY <1>5, <2>1
    <3>2. s.held = <<>>
      BY <1>2, <3>1
    <3> QED BY <1>1, <2>1, <3>2 DEF FoundedAlone
  <2> QED BY <2>1
<1>9. FenceInv
  BY <1>1, <1>5, <1>6, <1>7, <1>8 DEF FenceInv, Alone, Founding, HeldIsPrefix, DecidedWell,
     OpenIsLatest, ServedExists, FenceIsLatest, Deciding, Decided, Minting, Writing
<1>10. MintHolds /\ MarksKnown
  BY <1>1, <1>3, <1>5, <1>7 DEF MintHolds, MarksKnown, Known, Minting
<1> QED BY <1>9, <1>10 DEF MintInv

(* Every row that becomes visible is of the era that is the latest then: a   *)
(* writer of a superseded era is refused (BootDecision::UseExisting,         *)
(* append_lineage_mutation).                                                 *)
THEOREM SupersededWritersAreRefused ==
    ASSUME FoundedAlone
    PROVE  Spec => SupersededRefused
<1>1. Init => FenceInv
  BY InitMintInv DEF MintInv
<1>2. FenceInv /\ [Next]_vars => FenceInv'
  BY FenceInvKept
<1>3. FenceInv /\ [Next]_vars => [\A r \in rows' \ rows : r.era = Len(eras)]_vars
  <2> SUFFICES ASSUME FenceInv, Next, NEW r \in rows' \ rows PROVE r.era = Len(eras)
    OBVIOUS
  <2>1. PICK h \in Hosts : Quiet(h) \/ HoldFirst(h) \/ MintCommit(h)
    BY QuietSteps DEF FenceInv
  <2>2. CASE Quiet(h)
    BY <2>2 DEF Quiet, FenceInv, OpenIsLatest
  <2>3. CASE HoldFirst(h)
    BY <2>3 DEF HoldFirst
  <2>4. CASE MintCommit(h)
    BY <2>4 DEF MintCommit
  <2> QED BY <2>1, <2>2, <2>3, <2>4
<1> QED BY <1>1, <1>2, <1>3, PTL DEF Spec, SupersededRefused

(* The held eras stay one chain of edges in which no shape is named twice    *)
(* and no watermark goes back, though a minter decided before it had the     *)
(* lock (decide_boot_action, mint_era_body).                                 *)
THEOREM ErasStayChained ==
    ASSUME FoundedAlone, StartsChained
    PROVE  Spec => []ErasChain
<1>1. Init => ChainInv
  <2> SUFFICES ASSUME Init PROVE ErasChain
    BY InitMintInv DEF ChainInv
  <2>1. PICK s \in Starts :
           eras = [n \in DOMAIN s.held |-> [label |-> s.held[n], watermark |-> 0]]
    BY DEF Init
  <2>2. eras \in Seq(EraRow) /\ DOMAIN eras = 1..Len(eras) /\ Len(eras) \in Nat
    BY InitMintInv DEF MintInv, FenceInv, Types
  <2>3. DOMAIN s.held = 1..Len(eras) /\ Len(s.held) = Len(eras)
    <3>1. s.held \in Seq(Labels \cup {Unnamed})
      BY DEF Deployments
    <3>2. DOMAIN s.held = 1..Len(s.held) /\ Len(s.held) \in Nat
      BY <3>1
    <3>3. DOMAIN eras = 1..Len(s.held)
      BY <2>1, <3>2
    <3> QED BY <2>2, <3>2, <3>3
  <2>4. \A n \in 1..Len(eras) : eras[n].label = s.held[n] /\ eras[n].watermark = 0
    BY <2>1, <2>3
  <2>5. \A n \in 1..Len(eras) - 1 : n \in 1..Len(eras) /\ n + 1 \in 1..Len(eras)
    BY <2>2
  <2>6. \A n \in 1..Len(eras) - 1 : <<eras[n].label, eras[n + 1].label>> \in Edges
    BY <2>3, <2>4, <2>5 DEF StartsChained
  <2>7. \A n \in 1..Len(eras) - 1 : eras[n].watermark <= eras[n + 1].watermark
    BY <2>4, <2>5
  <2>8. \A m, n \in 1..Len(eras) :
           eras[m].label = eras[n].label => m = n \/ eras[m].label = Unnamed
    BY <2>3, <2>4 DEF StartsChained
  <2> QED BY <2>2, <2>6, <2>7, <2>8 DEF ErasChain
<1>2. ChainInv /\ [Next]_vars => ChainInv'
  BY ChainInvKept
<1>3. ChainInv => ErasChain
  BY DEF ChainInv
<1> QED BY <1>1, <1>2, <1>3, PTL DEF Spec

(* A chain of mints with the earlier hosts stopped loses no write: the head  *)
(* shows every record's latest row, wherever a mint is cut short (mint_era). *)
THEOREM MintsKeepWrites ==
    ASSUME FoundedAlone
    PROVE  Spec => []HeadKeepsWrites
<1>1. Init => HeadInv
  <2> SUFFICES ASSUME Init PROVE HeadInv
    OBVIOUS
  <2>1. MintInv /\ rows = {} /\ \A h \in Hosts : ~Minting(h) /\ pc[h] = "off"
    BY InitMintInv DEF Init, Minting
  <2>2. view.era = Len(eras)
    <3>1. fence = Len(eras)
      BY <2>1 DEF MintInv, FenceInv, FenceIsLatest
    <3> QED BY <3>1 DEF Init
  <2> QED BY <2>1, <2>2 DEF HeadInv, RowsKnown, CutsKeep, HeadKeepsWrites, HeadShowsLatest
<1>2. HeadInv /\ [Next]_vars => HeadInv'
  BY HeadInvKept
<1>3. HeadInv => HeadKeepsWrites
  BY DEF HeadInv
<1> QED BY <1>1, <1>2, <1>3, PTL DEF Spec
=============================================================================
