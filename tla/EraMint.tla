------------------------------ MODULE EraMint -------------------------------
(***************************************************************************)
(* How the Rust host resolves the era it runs at, and mints one: boot.rs   *)
(* (boot_postgres) and store/mint.rs, beside the writers of store/         *)
(* postgres.rs and journal_sql.rs.                                         *)
(*                                                                         *)
(* Hosts built for different shapes of one domain boot against, write to   *)
(* and leave one database.  A boot reads the held eras and decides: run at *)
(* the era that names its shape, hold the first era, or mint the next one. *)
(* A mint is one transaction: it takes the eras' lock, cuts the journal at *)
(* a watermark, compiles the new head from the rows below it, fills the    *)
(* kernel snapshot under the dispatch lock, and moves the fence, the row   *)
(* policy that admits the rows of one era.  A writer's row is checked by   *)
(* the fence when it is inserted, and becomes visible at its commit.       *)
(*                                                                         *)
(* A row is its ordinal, its era and its record.  The head of an era shows *)
(* the rows compiled at its mint and the rows written in it, the latest of *)
(* each record (that a head table holds the latest of its rows is          *)
(* LineageLedger's HeadIsLatest).                                          *)
(***************************************************************************)
EXTENDS Integers, Sequences, FiniteSets

CONSTANTS
    Hosts,      \* host processes
    LabelOf,    \* per host, the label of the shape it was built for
    Edges,      \* the translation edges, <<from, to>>, that every host ships
    Needs,      \* the shapes with a lifecycle field the snapshot must carry
    Ids,        \* records
    Unnamed,    \* the label of an era that has none yet
    Starts,     \* the deployments considered, of Deployments
    MaxRows,    \* bound: ordinals taken
    MaxBoots    \* bound: boots

Labels == {LabelOf[h] : h \in Hosts}
None == "none"

(* held: the labels of the eras held at first.  rolling: a host boots while *)
(* others still run; otherwise they are stopped first.                      *)
Deployments == [held: Seq(Labels \cup {Unnamed}), rolling: BOOLEAN]

ASSUME EraAssumption ==
    /\ LabelOf \in [Hosts -> Labels] /\ Unnamed \notin Labels
    /\ Edges \subseteq Labels \X Labels /\ Needs \subseteq Labels
    /\ Starts \subseteq Deployments
    /\ MaxRows \in Nat /\ MaxBoots \in Nat /\ None \notin Hosts

VARIABLES
    rolling,   \* the deployment's, chosen once
    eras,      \* hecks_eras: the held eras in order, each its label and watermark
    rows,      \* the committed journal rows
    sequence,  \* the last ordinal handed out
    fence,     \* the era whose rows the policy admits, 0 for none
    view,      \* the head view: its era, and the rows compiled for it
    readers,   \* the shapes that can load the kernel snapshot
    lock,      \* per advisory lock, its holder
    pc,        \* per host, its step
    held,      \* per host, the eras its boot read
    era,       \* per host, the era it runs at
    mine,      \* per host, the row its open transaction inserted
    mark,      \* per host, the watermark its mint took
    base,      \* per host, the rows its mint compiled
    boots

database == <<eras, rows, sequence, fence, view, readers>>
mint == <<mark, base>>
vars == <<rolling, eras, rows, sequence, fence, view, readers, lock, pc, held, era,
          mine, mark, base, boots>>

Locks == {"eras", "journal", "ordinal"}

----------------------------------------------------------------------------
Init ==
    /\ \E s \in Starts :
          /\ rolling = s.rolling
          /\ eras = [n \in DOMAIN s.held |-> [label |-> s.held[n], watermark |-> 0]]
          /\ fence = Len(s.held)
          /\ view = [era |-> Len(s.held), rows |-> {}]
    /\ rows = {} /\ sequence = 0 /\ readers = Labels
    /\ lock = [l \in Locks |-> None]
    /\ pc = [h \in Hosts |-> "off"]
    /\ held = [h \in Hosts |-> <<>>] /\ era = [h \in Hosts |-> 0]
    /\ mine = [h \in Hosts |-> {}]
    /\ mark = [h \in Hosts |-> 0] /\ base = [h \in Hosts |-> {}]
    /\ boots = 0

Goto(h, step) == pc' = [pc EXCEPT ![h] = step]

(* The transaction ends, and its advisory locks with it. *)
Release(h) == lock' = [l \in Locks |-> IF lock[l] = h THEN None ELSE lock[l]]

(* The boot ends there: what it read and staged is gone. *)
Forget(h) ==
    /\ held' = [held EXCEPT ![h] = <<>>]
    /\ mark' = [mark EXCEPT ![h] = 0] /\ base' = [base EXCEPT ![h] = {}]

Serve(h, n) == Goto(h, "serving") /\ era' = [era EXCEPT ![h] = n] /\ Forget(h)

Stop(h) == Goto(h, "off") /\ era' = [era EXCEPT ![h] = 0] /\ Forget(h)

----------------------------------------------------------------------------
(* boot_postgres, to held_eras. *)
Boot(h) ==
    /\ pc[h] = "off" /\ boots < MaxBoots
    /\ rolling \/ \A g \in Hosts : pc[g] = "off"
    /\ held' = [held EXCEPT ![h] = eras]
    /\ boots' = boots + 1
    /\ Goto(h, "booting")
    /\ UNCHANGED <<rolling, database, lock, era, mine, mint>>

(* decide_boot_action, on the eras the boot read. *)
Naming(h) == {n \in DOMAIN held[h] : held[h][n].label = LabelOf[h]}

(* UseExisting: the first era that names the shape; its head tables are      *)
(* provisioned if they are missing.                                          *)
UseExisting(h) ==
    /\ pc[h] = "booting"
    /\ \E n \in Naming(h) : (\A m \in Naming(h) : n <= m) /\ Serve(h, n)
    /\ UNCHANGED <<rolling, database, lock, mine, boots>>

NoOpenRow == \A h \in Hosts : mine[h] = {}

(* HoldFirst: the era's row unless one is there, the first head, the fence.   *)
(* It takes no eras lock; moving the policy waits for open writers.           *)
HoldFirst(h) ==
    /\ pc[h] = "booting" /\ held[h] = <<>> /\ NoOpenRow
    /\ eras' = IF eras = <<>> THEN <<[label |-> LabelOf[h], watermark |-> 0]>> ELSE eras
    /\ fence' = 1
    /\ view' = [era |-> 1, rows |-> {}]
    /\ Serve(h, 1)
    /\ UNCHANGED <<rolling, rows, sequence, readers, lock, mine, boots>>

(* edge_chain: an edge leads each held label to the next, and the last to     *)
(* this shape.                                                                *)
Chained(h) ==
    LET labels == Append([n \in DOMAIN held[h] |-> held[h][n].label], LabelOf[h])
    IN  \A n \in 1..Len(held[h]) : <<labels[n], labels[n + 1]>> \in Edges

Drifted(h) == pc[h] = "booting" /\ held[h] # <<>> /\ Naming(h) = {}
LatestNamed(h) == held[h][Len(held[h])].label # Unnamed

(* LatestUnnamed, a broken chain, and an audit that refuses: nothing is       *)
(* minted, and the host does not come up.                                     *)
Refuse(h) ==
    /\ Drifted(h)
    /\ Stop(h)
    /\ UNCHANGED <<rolling, database, lock, mine, boots>>

(* audit_before_mint passes, over the rows it reads, before the mint's own    *)
(* transaction.                                                               *)
Audit(h) ==
    /\ Drifted(h) /\ LatestNamed(h) /\ Chained(h)
    /\ Goto(h, "audited")
    /\ UNCHANGED <<rolling, database, lock, held, era, mine, mint, boots>>

(* Mutant: the era is not looked for again under the lock. *)
AlreadyMintedNever(h) == FALSE

(* mint_era_body, under the lock: someone minted this ordinal since the read. *)
AlreadyMinted(h) == Len(held[h]) < Len(eras)

(* The mint's lock; then the watermark, the highest ordinal committed. *)
MintBegin(h) ==
    /\ pc[h] = "audited" /\ lock["eras"] = None
    /\ \/ AlreadyMinted(h) /\ Stop(h) /\ UNCHANGED lock
       \/ /\ ~AlreadyMinted(h)
          /\ lock' = [lock EXCEPT !["eras"] = h]
          /\ \E n \in {0} \cup {r.ord : r \in rows} :
                /\ \A r \in rows : r.ord <= n
                /\ mark' = [mark EXCEPT ![h] = n]
          /\ Goto(h, "minting")
          /\ UNCHANGED <<held, era, base>>
    /\ UNCHANGED <<rolling, database, mine, boots>>

(* Mutant: the cut leaves out the row at the watermark. *)
WithinCutStrictly(h, r) ==
    LET marks == Append([n \in DOMAIN eras |-> eras[n].watermark], mark[h])
    IN  r.era <= Len(eras) /\ r.ord < marks[r.era + 1]

(* ancestor_tail_sql: an era's rows up to the next era's watermark. *)
WithinCut(h, r) ==
    LET marks == Append([n \in DOMAIN eras |-> eras[n].watermark], mark[h])
    IN  r.era <= Len(eras) /\ r.ord <= marks[r.era + 1]

(* compile_head: the materialized view over the earlier eras' rows. *)
Compile(h) ==
    /\ pc[h] = "minting"
    /\ base' = [base EXCEPT ![h] = {r \in rows : WithinCut(h, r)}]
    /\ Goto(h, "compiled")
    /\ UNCHANGED <<rolling, database, lock, held, era, mine, mark, boots>>

(* fill_snapshot_lifecycle_defaults: the dispatch lock, for a shape with      *)
(* something to fill.                                                         *)
Fill(h) ==
    /\ pc[h] = "compiled"
    /\ IF LabelOf[h] \in Needs
       THEN lock["journal"] = None /\ lock' = [lock EXCEPT !["journal"] = h]
       ELSE UNCHANGED lock
    /\ Goto(h, "filled")
    /\ UNCHANGED <<rolling, database, held, era, mine, mint, boots>>

(* Mutant: the policy is moved while rows of the old era are still open. *)
WritersDoneUnasked == TRUE

(* Moving the policy takes the journal's table lock, past every open writer. *)
WritersDone == NoOpenRow

(* advance_era, and the commit of everything the mint staged. *)
MintCommit(h) ==
    /\ pc[h] = "filled" /\ WritersDone
    /\ eras' = Append(eras, [label |-> LabelOf[h], watermark |-> mark[h]])
    /\ fence' = Len(eras) + 1
    /\ view' = [era |-> Len(eras) + 1, rows |-> base[h]]
    /\ readers' = readers \cup {LabelOf[h]}
    /\ Release(h) /\ Serve(h, Len(eras) + 1)
    /\ UNCHANGED <<rolling, rows, sequence, mine, boots>>

(* Mutant: no lock_timeout is set. *)
MintTimesOutNever(h) == FALSE

(* lock_timeout: a mint that waits for a lock gives up, and rolls back. *)
MintTimesOut(h) ==
    /\ \/ pc[h] = "audited" /\ lock["eras"] # None
       \/ pc[h] = "compiled" /\ LabelOf[h] \in Needs /\ lock["journal"] # None
       \/ pc[h] = "filled" /\ ~WritersDone
    /\ Release(h) /\ Stop(h)
    /\ UNCHANGED <<rolling, database, mine, boots>>

----------------------------------------------------------------------------
(* A dispatch, under the journal lock, once the kernel has loaded the         *)
(* snapshot; or put_head, under the ordinal lock.                             *)
Dispatch(h) ==
    /\ pc[h] = "serving" /\ LabelOf[h] \in readers
    /\ lock["journal"] = None /\ lock' = [lock EXCEPT !["journal"] = h]
    /\ Goto(h, "dispatching")
    /\ UNCHANGED <<rolling, database, held, era, mine, mint, boots>>

Put(h) ==
    /\ pc[h] = "serving"
    /\ lock["ordinal"] = None /\ lock' = [lock EXCEPT !["ordinal"] = h]
    /\ Goto(h, "putting")
    /\ UNCHANGED <<rolling, database, held, era, mine, mint, boots>>

Writing(h) == pc[h] \in {"dispatching", "putting"}

(* append_lineage_mutation, as the policy admits it. *)
Insert(h, i) ==
    /\ Writing(h) /\ mine[h] = {} /\ sequence < MaxRows
    /\ fence = era[h]
    /\ sequence' = sequence + 1
    /\ mine' = [mine EXCEPT ![h] = {[ord |-> sequence + 1, era |-> era[h], id |-> i]}]
    /\ UNCHANGED <<rolling, eras, rows, fence, view, readers, lock, pc, held, era, mint,
                   boots>>

(* The commit: a put has a row; a dispatch need not, when what it changed is *)
(* not mirrored, and saves the snapshot in its own shape.                    *)
Commit(h) ==
    /\ Writing(h) /\ (pc[h] = "putting" => mine[h] # {})
    /\ rows' = rows \cup mine[h]
    /\ readers' = IF pc[h] = "putting" THEN readers
                  ELSE {LabelOf[h]} \cup (Labels \ Needs)
    /\ mine' = [mine EXCEPT ![h] = {}]
    /\ Release(h) /\ Goto(h, "serving")
    /\ UNCHANGED <<rolling, eras, sequence, fence, view, held, era, mint, boots>>

(* A refusal, by the kernel or by the policy, or a failure. *)
Rollback(h) ==
    /\ Writing(h)
    /\ mine' = [mine EXCEPT ![h] = {}]
    /\ Release(h) /\ Goto(h, "serving")
    /\ UNCHANGED <<rolling, database, held, era, mint, boots>>

(* A host stops or dies at any step; its transaction is rolled back. *)
Crash(h) ==
    /\ pc[h] # "off"
    /\ mine' = [mine EXCEPT ![h] = {}]
    /\ Release(h) /\ Stop(h)
    /\ UNCHANGED <<rolling, database, boots>>

----------------------------------------------------------------------------
Booting(h) ==
    \/ UseExisting(h) \/ HoldFirst(h) \/ Refuse(h) \/ Audit(h)
    \/ MintBegin(h) \/ Compile(h) \/ Fill(h) \/ MintCommit(h) \/ MintTimesOut(h)

Ending(h) == Commit(h) \/ Rollback(h)

Next ==
    \E h \in Hosts :
       \/ Boot(h) \/ Booting(h) \/ Dispatch(h) \/ Put(h) \/ Ending(h) \/ Crash(h)
       \/ \E i \in Ids : Insert(h, i)

Spec == Init /\ [][Next]_vars

(* A boot goes on, and an open transaction ends. *)
FairSpec == Spec /\ \A h \in Hosts : WF_vars(Booting(h)) /\ WF_vars(Ending(h))

----------------------------------------------------------------------------
(* The held eras are one chain: an edge leads each to the next, none is held *)
(* twice, and the watermarks only grow, though each minter decided on eras   *)
(* it read before it had the lock (decide_boot_action, mint_era_body).       *)
ErasChain ==
    /\ \A n \in 1..Len(eras) - 1 :
          /\ <<eras[n].label, eras[n + 1].label>> \in Edges
          /\ eras[n].watermark <= eras[n + 1].watermark
    /\ \A m, n \in DOMAIN eras :
          eras[m].label = eras[n].label => m = n \/ eras[m].label = Unnamed

(* A row of a superseded era never becomes visible: a writer is refused, or  *)
(* lands before the era that supersedes its own (BootDecision::UseExisting). *)
SupersededRefused == [][\A r \in rows' \ rows : r.era = Len(eras)]_vars

(* The head shows each record's latest row, or a later one: a mint loses no  *)
(* write.                                                                    *)
HeadShowsLatest ==
    \A r \in rows : \E s \in view.rows \cup {t \in rows : t.era = view.era} :
       s.id = r.id /\ r.ord <= s.ord

(* A mint loses no write when the hosts of the earlier shape are stopped     *)
(* first, over any chain of mints and wherever one is cut short (mint_era).  *)
HeadKeepsWrites == ~rolling => HeadShowsLatest

(* A boot comes up or refuses, however busy the hosts that run already are:  *)
(* it never waits for ever for their locks (boot_postgres, mint_era).        *)
BootEnds == \A h \in Hosts : pc[h] = "booting" ~> pc[h] \in {"serving", "off"}

=============================================================================
