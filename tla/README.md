# Hecks: verification project

Hecks runs domain specifications ("bluebooks"): aggregates whose commands are dispatched to
records, policies and process managers (sagas) that react to the events, and adapters that store
it all. Two engines do so: the Ruby runtime under `lib/hecks/runtime` with its ports and stores,
and a Rust kernel (`rust/src/kernel`) served by a Rust host (`rust/host`) over Postgres. This
directory holds TLA+ modules of what must be right under concurrency and failure in both, the TLC
configurations that check them on small instances, and proofs that TLAPS checks.

## 1. Inventory

| Part | State | Operations | What is hard |
|---|---|---|---|
| Command dispatch (`command_interpreter.rb`, `interpreting.rb`, `ports/persistence/append_only.rb`, the stores) | a record's row and version, its journal, a checkpoint, locks | hydrate, check givens, append, project, commit, retry, recover at boot | a read used after another dispatch's write; a death between append and projection; a boot beside writers |
| Outbox (`runtime/outbox*`) | rows pending / claimed / settled, claim age, attempts | enqueue with the save, claim, run, settle, boot redrive, operator redrive and abandon | several relays for one row, deaths inside a consumer, rows nobody looks at again |
| Sagas (`runtime/saga_interpreter*`) | instances in memory, a checkpoint row with a pending marker and a compensation ledger, dispatch claims | begin, take a leg, dispatch with retries, refuse and unwind, end, park and resume, boot redrive | legs nested in legs, deaths between a checkpoint and a dispatch, redelivery of what may have run |
| Reactions (`dispatcher.rb`) | nesting depth | deliver an event's consumers, nest, stop at `MAX_REACTION_DEPTH` | a limit reached in the middle of a leg |
| Rust host dispatch (`rust/host/core/src/dispatch.rs`, `store/postgres.rs`, `lambda_client.rs`) | a domain's steps, a snapshot, saga rows, a connection and a lock | replay, run the kernel, commit, deliver across domains, dead-letter, read | several processes of one domain; deaths and lost answers around the commit |
| Lineage journal (`store/postgres.rs`, `store/journal_sql.rs`, `ledger.rs`) | rows with ordinals, heads, seals, advisory and row locks | append, upsert heads, amend, seal, verify | ordinals taken in one order and committed in another |
| Membership and sign-in (`auth.rs`, `web.rs`) | a row per person, identities and links | admit, grant, disable, enable, delete, change a role, sign in | a row read several calls before it is written; the last administrator |
| Era boot and minting (`boot.rs`, `store/mint.rs`) | held eras, fence, head view, snapshot | resolve, hold the first era, refuse, audit, mint, write | a mint against live writers and other mints; boots that die |
| Rust kernel (`rust/src/kernel/orchestrate.rs`) | saga instances and their ledger, the recursion | dispatch, follow policies, move sagas, compensate, hand over to the host | refusals and depth limits inside nested cascades |
| Event tap and feed (`event_tap.rb`, `event_feed.rb`) | numbered log, five generations, a reader's cursor | append under a file lock, rotate, read from a cursor | torn lines, rotation cut by a death |
| Heki store (`adapters/driven/heki*`) | journal file, snapshot file | append, project, compact | deaths between the two files |
| Rust host, the rest (`rate_limit.rs` and others) | rate windows, token replay table, cooldowns, payment keys | check, expire, evict | tables at their limit, clocks |
| Language, code generation, queries, tooling, clients | none that outlives a call | | sequential |

In Ruby they meet at the save: a dispatch commits the row, the journal entry, the events and the
outbox rows in one transaction; the relay then runs each row's consumer, and a policy or a saga leg
dispatches again, one level deeper, on the same thread. In Rust the host holds the domain's lock
while the kernel runs a whole cascade on the replayed world; one transaction keeps the step, the
snapshot, the sagas and the lineage rows; reactions to other domains are delivered after it.

`PROJECT.json` lists every part with its status, and every hazard at its line with the properties
that would catch it, or the reason none does.

## 2. Modules

| Module | Models |
|---|---|
| `CommandDispatch` | concurrent dispatches at one record over four stores |
| `AtomicRecord` | what those dispatches promise: each command takes effect at one instant, or is refused for what is true at one |
| `CommandDispatchProofs` | theorems about `CommandDispatch` |
| `Outbox` | rows, relays, processes, deaths, operators |
| `OutboxPromise` | what a row promises, without relays |
| `OutboxProofs` | theorems about `Outbox` |
| `Saga` | one instance of a process manager, its store row, its threads |
| `SagaProofs` | theorems about `Saga` |
| `HostDispatch` | the Rust host's commands and reads at one domain, several processes |
| `SerialDomain` | what that host promises: commands accepted one at a time, each judged on the world the earlier ones left |
| `HostDispatchProofs` | theorems about `HostDispatch` |
| `LineageLedger` | the lineage journal, its heads and its seals |
| `LineageLedgerProofs` | theorems about `LineageLedger` |
| `Membership` | the people of a site, their roles, windows and sign-ins |
| `MembershipProofs` | theorems about `Membership` |
| `EraMint` | hosts of several shapes that boot, mint and write at one database |
| `EraMintProofs` | theorems about `EraMint` |
| `KernelCascade` | one command and everything its events set off, in the Rust kernel |
| `KernelCascadeProofs` | theorems about `KernelCascade` |
| `MC...` | instances for TLC |

### CommandDispatch

A worker carries one command to one record and steps through `Begin` (the isolation of
`run_dispatch_order_with_isolation`), `Hydrate` (`hydrate_for` and the givens), `PutCheck`
(`put_entry` up to its existence check), `Append`, and `Commit` or `LoseRace` (`project` and the
end of the transaction, or a `StaleWrite` and its retry). `store` picks what keeps workers apart:
Postgres the row's version, Sqlite and Heki a Mutex of the one process, PostgresEra a lock of the
database. `kind` picks what the command's plan reads and states. The state of a row is abstracted
to the set of commands whose effect it carries, so a lost update is a missing member.

`Commit` is one step because `advance_checkpoint!` takes the checkpoint row's lock first and keeps
it until the transaction ends: projections of one table commit one at a time. `Hydrate` is one step
because what it refuses depends on one read. `Die` ends one process of several; `Restart` ends the
only one, whose repository recovers before it serves. `recover!` is three kinds of step (the
checkpoint, the entries, each projection) since nothing makes them atomic.

### Outbox

`outbox` is the table; `stack` holds each process's relay calls, innermost last, since a consumer
may dispatch and deliver rows of its own. `Enqueue` inserts a save's rows; `Claim` is
`outbox_claim`'s conditional update; `RunConsumer` and `Settle` are the rest of `deliver_row`;
`Boot`, `OperatorRedrive`, `OperatorRow`, `Reset` and `Abandon` are `redrive.rb`. Ids are the
order of visits, so a call's list is a set visited least first. `Age` passes `STALLED_AFTER`.

### Saga

`obj` holds the instance objects calls may still refer to, `cur` the registry's, `disk` the row.
A dispatch is cut into the steps a death or another thread can separate: the checkpoint that marks
it (`StartDispatch`), the recorded compensation (`CopyThen` copies the instance, `SaveCopy` writes
the copy later, without the mutex), the send, its outcome. An `adv` call is `advance` on one event;
a `leg` call one transition; a `boot` call the two redrives of `Loader.boot_described`; a `resume`
call a person's, in three steps since it holds no mutex.

A command may be raised at every point where the code can raise. Unresolvable arguments
(`StartRaised`) pass every rescue of the leg and end at the relay, which settles the moving event's
row as failed; in a leg that a boot redrives they stop the boot (`BootRaised`). Whatever is raised
inside `dispatch_once` is tried again: before the commit, after it when a reaction raises
(`SendRaised`), or when the commit's answer is lost (`SendLost`). Compensations have the same cases.

The history variables record legs taken, dispatches answered, applied, applied again, skipped and
undone, and rows settled as failed; `past` and `again` tell a repetition by a boot from one by a
retry in the same process. Arguments, correlation values and the wording of refusals are abstracted
away; a saga is a table of legs.

### HostDispatch and SerialDomain

A request is served by one process. `Begin` takes the process's connection (the mutex of
`PostgresStore`), `TakeLock` the domain's advisory lock, `Run` loads snapshot, later steps and saga
rows and asks the kernel, `Commit` and `CommitUnanswered` store the step, the snapshot and the sagas in
one transaction (the second loses the answer), `Rollback`, `Fail` and `RunAgain` are a refusal, an
error, and the second run of a command refused under shadow enforcement. `Deliver`,
`DeliverFaults`, `DeadLetter`, `DeadLetterFails` and `Finish` are `deliver_with_retry` and its
dead letters, after everything is released. A read is two statements (`ReadSnapshot`, `ReadSteps`)
with neither lock nor sagas. `Crash` ends a process; Postgres then drops what it held. The kernel
is a pure function: a world is the set of commands whose effect it carries and whether the saga is
live, which is enough to tell a lost, repeated or reordered command from a right one.

`OneDomain` is the refinement: `world` is `Loaded`, what a dispatch would compute from the snapshot,
the later steps and the saga rows; `accepted` is the commands in the journal. A command may be
barred by what a saga's leg did (`FollowUp`), so a database that loses its sagas accepts a command
that the promised domain refuses. `ReadsCommitted` says what a read without sagas still answers: the
commands kept at one moment since it began, with nothing missing but a leg's follow-up.

### LineageLedger

A host's transaction goes `Begin` (the advisory lock of its kind), `Append` (an ordinal from the
sequence and the row), `Upsert` (the head, under its row lock), `Written`, `SealDue` (the seal that
`seal_every` asks for inside the commit), `Commit`, or `Abort`. An operator's `ledger seal` is
`OpRead` (the last anchor) and `OpSeal` (`settled_end`, which passes when no writer holds the
ordinal lock). Rows are visible at the commit. A digest is the set of rows folded into it, so that verify's
walk is set equality.

### Membership

`Disable`, `Enable`, `Delete` and `SetRole` are one step each, since each reads and writes under
`amend_head`'s lock. Adding a person (`AskToAdd`, `AdmitRead`, `AdmitPut`, `Grant`) and signing in
for the first time (`SignIn`, `Register`, `LinkIdentity`, `LinkMember`) are requests of several steps,
which may interleave with everything and end at any of them (`Die`): an identity may be registered
and never linked, and the next sign-in then registers another. `Tick` lets windows lapse. `Overlap`
says whether two acts about one person may overlap. The caller of `AskToAdd` is an administrator;
the Governance session that `members_page_caller` also accepts is left out, since no code outside
the tests issues its cookie.

### EraMint

`Boot` reads the held eras; then the host runs at the era of its shape (`UseExisting`), holds the
first era (`HoldFirst`), refuses (`Refuse`), or audits and mints: `MintBegin` (the eras' lock and
the check that nobody minted meanwhile), `Compile` (watermark and head), `Fill` (the kernel
snapshot under the dispatch lock), `MintCommit` (which waits for open writers and moves the fence)
or `MintTimesOut`. A serving host writes with `Dispatch` or `Put`, `Insert`, then `Commit` or
`Rollback`; the fence is checked at `Insert` and `MintCommit` waits for whoever passed it. What an
edge computes and whether an audit accepts it are free choices.

### KernelCascade

`todo` is the recursion of `Cascade.run`, the innermost call first. `Call` is a caller's command;
`RunAccepted` and `RunRefused` what its own rules decide (a free choice); `React`, `FollowPolicy`,
`BeginAndAdvance` and `EndSaga` what an event sets off, in the code's order; `Deliver` and `Settle`
a leg's dispatches and the leg's end; `Undo` and `Drained` the compensations. `standing` counts
the compensable deliveries that nobody has undone.

## 3. Runs

| Run | Shows |
|---|---|
| `dispatch_one_record` | three commands of every mix of kinds with at most one creating reader, on each store, one death, one boot at rest: dispatch implements `AtomicRecord`; row and checkpoint keep up with the journal; a commit is made on what was read; everyone is answered |
| `outbox_relay` | two processes, two rows, two deaths, one operator call: starts are bounded and in order, a runner keeps its claim, no claim is dropped, every runnable row starts, an orphan old enough is reported, and the relays implement `OutboxPromise` |
| `saga_claims` | the banking example's settlement on a store with dispatch claims, two deaths, refusals, raises before and after a commit and a depth limit it reaches: no dispatch is applied twice, skipped though never applied, or compensated though never done |
| `saga_plain` | a saga that parks for a person, on a store without claims, two deaths, raises: every cut leg is finished or reported by a boot, or its event's row is failed; a boot applies nothing again that is not idempotent; the stage to resume is kept |
| `saga_threads` | two threads move one instance that ends and may be born again: the row is the live instance's |
| `host_dispatch` | three commands and a read at two processes, a death, lost answers, failing deliveries: the hosts implement `SerialDomain`; snapshot and sagas are what a replay gives; every reaction of a finished command is delivered or dead-lettered or reported; a read beside the commits shows the commands of one moment; every dispatch ends |
| `ledger_seals` | two hosts and an operator whose writers share a lock: every seal verifies at all times, a head shows the latest row, an amendment writes on the heads it read, and no transaction waits for ever |
| `ledger_both_locks` (violation) | dispatches and head writes hold different locks, so a seal can pass over an ordinal in flight, and verify later reports the journal as altered |
| `membership` | an open-ended administrator always remains, access comes only from an administrator's act, and a member is linked to the identity their account resolves to, wherever a request is cut |
| `membership_overlap` (violation) | a first sign-in writes back the row it read before an administrator disabled the person |
| `era_boot` | hosts of three shapes on four deployments: eras form one chain, no row of a superseded era lands, a mint with the old hosts stopped loses no write, every boot ends |
| `kernel_cascade` | every mix of acceptances and refusals of a settlement with policies, to the depth ceiling: nothing is compensated twice, a reversed conversation leaves nothing standing, every cross-domain match reaches the host, every cascade ends |

Each violation run checks one statement of the repository's own comments; the findings in
`PROJECT.json` quote it and say what the code does instead.

**Bounds.** A race at a record needs two writers, and three let one lose twice, so that with
`Retries = 2` giving up happens. Two outbox rows and a fanout of two give one save with two
consumers, two saves, and a save nested in a consumer (`MaxDepth = 1`). Two deaths let a boot die
too. The saga runs take one or two caller commands (three in `saga_threads`, one for each of open,
pack and close) and the legs those set off; the sagas other than the settlement are the smallest
with the shape a question needs. `host_dispatch` has a command that begins a saga, one that moves
it and has two reactions, and a rival, on another process with the read, that is barred by what the
saga's leg did; two attempts let one fail and one succeed;
it starts from a new database, one without a snapshot, and one whose snapshot is older than saga
rows. `ledger_seals` takes four ordinals over two records, so that a seal, a row under it and a
later seal fit, with one abort, in four settings of who writes and who seals. `membership` has two
people and a founder, two requests, windows open or one day long, a clock that passes their end, and
three identities: one lost to a death, a second for the same person, and one for somebody else.
`era_boot` has a host of each of three shapes, so that two may mint at once and one may be
overtaken twice, three rows and four boots. `kernel_cascade` makes four calls with a ceiling of
five and a fan-out of up to two rows; its Ping reaches the ceiling, and requests a transfer at every
depth below it.

**Deadlock** is not checked: every instance is a finite batch of work after which the system rests.
`Answered`, `PendingStarts`, `DispatchEnds`, `TransactionsEnd`, `BootEnds` and `CascadeEnds` say
that nobody is left waiting.

**Fairness.** Weak fairness of a relay's and a dispatch's own steps: a thread the scheduler runs
goes on, and nothing in those steps waits except for a lock that its holder releases (the Mutex in
`synchronize`, database locks at the end of the transaction). Weak fairness of `Boot` and of
recovery in the Ruby modules: a dead process is started again by its supervisor, and `loader.rb`
redrives before it serves. Weak fairness of `Age`: time passes. In `HostDispatch`, weak fairness of
a command's own steps and of a read's second statement. In `LineageLedger`, strong fairness of each
host's transaction: its statements are sent one after another, and a Postgres lock is granted in
the order of its queue, so a host that waits is not overtaken for ever. In `EraMint`, weak fairness
of a boot's steps and of a writer's end. In `KernelCascade`, weak fairness of `Step`: the cascade
is one thread. No fairness is assumed of callers, operators, clocks of windows or deaths.

**Assumptions of the passing runs.**

- Outbox, `Prompt`: no reaction takes longer than `STALLED_AFTER` (ten minutes) in a live process.
- Dispatch, `OneKey`: commands at one record resolve one lock key. Sqlite and Heki are dispatched
  at by one process, as ADR 0035 requires. `Alongside = FALSE`: on Postgres a process boots while
  none dispatches. At most one of the commands is a creating reader.
- Sagas: in `saga_plain` nothing is compensable or heard by the saga, and one thread runs it; in
  `saga_claims` all events share a second but each leg is moved once, and no leg ends its own saga;
  in `saga_threads` the saga has no parking state and no `refused` leg.
- Ledger: a deployment that seals has its writers under one lock.
- Membership, `~Overlap`: two requests about one person do not overlap.
- Eras: an empty database is first held by one host at a time; `HeadKeepsWrites` is asked of
  deployments that stop the old hosts before they mint.
- Kernel: the compensable dispatch of a leg is its last, and no compensation or root policy sets
  itself off again.

Section 5 says what happens without them.

## 4. Proofs

Every theorem holds for any number of processes, threads, hosts, rows, commands, people, requests,
deaths and boots, and for any process manager, outbox fanout, kinds, eras or policies that the
constants describe. They rest on the named assumptions of the modules (`ConstantsAssumption`,
`DispatchAssumption`, `MembershipAssumption`, `NoneAssumption`, `LedgerAssumption`, `EraAssumption`,
`HostAssumption`, `KernelAssumption`, `SagaAssumption`), which give the constants their types and
say what the code fixes (a site has a founder, a handler is the only one for its trigger and state,
a command is not a read), and on the hypotheses in the table, which the passing runs satisfy. TLC
evaluates the assumptions on every run, and checked each inductive invariant before it was proved.

| Theorem | Hypotheses | States | Invariant and argument |
|---|---|---|---|
| `OutboxProofs!TypeCorrect` | | `[]TypeOK` | one case per action; lemmas for the calls on a stack |
| `OutboxProofs!AtMostOncePerArming` | | `[]ClaimsBounded` | `StartsLeft` counts a pending row as one start to come: a claim uses up the pending state, and only an operator's reset, which is counted, restores it |
| `OutboxProofs!StartsAreOrdered` | | `[]StartsInOrder` | `OrderInv`: a call has visited every row below the one it is at, and started those it could; rows of a save are inserted together |
| `OutboxProofs!RunnersHoldTheirClaims` | `Prompt`, `OneOperator` | `[]RunnerHoldsClaim` | `ClaimInv`: one runner per claim; a row old enough to be reset, or held by an operator for a reset, is run by nobody |
| `OutboxProofs!ClaimsAreRun` | `Prompt` | `[]NoOrphanWithoutCrash` | `ClaimInv`: until a process dies a claimed row has a call that runs it |
| `OutboxProofs!PromiseIsKept` | `Prompt`, `OneOperator` | `KeepsPromise` | refinement of `OutboxPromise`; `ClaimInv` says whose row a settling call settles |
| `CommandDispatchProofs!TypeCorrect` | | `[]TypeOK` | one case per action |
| `CommandDispatchProofs!CheckpointKeepsUp` | | `[]CheckpointCovers` | an entry is committed together with a checkpoint that is at least its sequence |
| `CommandDispatchProofs!GivensHoldAtCommit` | `OneKey` | `CommitsOnWhatItRead` | `Inv`: under a lock the holder is alone and what it read is the row; with versions, what was read at the row's version is the row, and every write raises the version; a locked store is recovered while nothing is in flight. Creating races and boots alongside are covered: they harm other commands |
| `CommandDispatchProofs!RowIsJournal` | `OneKey`, `CreatorsApart`, `~Alongside` | `[]JournalAgrees` | `OrderInv`: `Inv`, and that of the appended entries only the newest committed one may be unprojected, by a dispatch or a boot under way |
| `CommandDispatchProofs!DispatchIsLinearizable` | the same | `Linearizable` | refinement of `AtomicRecord` from `OrderInv`: a command's instant is its commit, or Heki's append |
| `MembershipProofs!TypeCorrect` | | `[]TypeOK` | one case per action |
| `MembershipProofs!AdminStays` | `~Overlap` | `[]OpenAdminKept` | `Inv` below: an act in one step is refused by `Strands`, and a put of an earlier read writes the row that is there |
| `MembershipProofs!OnlyAdminsGiveAccess` | `~Overlap` | `AccessIsGranted` | from the same `Inv`: a request's put replaces the row it held |
| `MembershipProofs!LinksAgree` | `~Overlap` | `[]LinkedAsResolved` | `LinkInv`: an account has at most one link; a sign-in that has not linked yet finds its person without one, and one that has holds it |
| `LineageLedgerProofs!HeadsShowLatest` | | `[]HeadIsLatest` | `HeadInv`: a staged head is under its row lock and newer than what it replaces. It needs no advisory lock |
| `LineageLedgerProofs!AmendmentsAreAtomic` | amendments and dispatches not in one setting | `AmendsWhatItRead` | `AmendInv`: who has begun holds the lock of its kind, so no head moves between an amendment's read and write |
| `LineageLedgerProofs!SealsAlwaysVerify` | `SealedByOne` | `[]SealsVerify` | `SealInv`: an ordinal in flight is later than every seal, each seal holds all rows under it, and what is folded next is folded onto the last seal |
| `EraMintProofs!SupersededWritersAreRefused` | `FoundedAlone` | `SupersededRefused` | `FenceInv`: the fence is the latest era's; what a boot read is a prefix of the eras; a writer past the fence is of the latest era while it is open |
| `EraMintProofs!ErasStayChained` | `FoundedAlone`, `StartsChained` | `[]ErasChain` | `ChainInv`: a minter that has the lock decided on all the eras there are, and its watermark covers every row |
| `EraMintProofs!MintsKeepWrites` | `FoundedAlone` | `[]HeadKeepsWrites` | `HeadInv` (with `MintInv`): the compiled head carries every row under the watermark, and none comes above it |
| `HostDispatchProofs!StoreIsAlwaysReplay` | | `[]StoredIsReplay` | `StoredInv`: whoever is in a unit holds the domain's lock, and its result is the kernel's on the world of the whole journal |
| `HostDispatchProofs!ProcessesAreOneDomain` | | `OneDomain` | refinement of `SerialDomain` from `StoredInv` |
| `HostDispatchProofs!ReactionsAreSettled` | | `[]ReactionsSettled` | `ReactionInv`: the reactions before the next one are settled |
| `HostDispatchProofs!ReadsShowTheDomain` | | `[]ReadsCommitted` | `ReadInv`: a read's snapshot shows a journal at least as long as when it began, and the later steps, replayed on it without sagas, give the domain's world but for follow-ups |
| `KernelCascadeProofs!CompensationsAreSingle` | | `[]CompensatedOnce` | `CascadeInv`: per command, the ledger's entries and the compensable dispatches under way are as many as the deliveries that stand |
| `KernelCascadeProofs!HostHearsEveryEvent` | | `[]CrossHandedOver` | `CascadeInv`: what was logged for the host is handed over or still on the recursion's stack |
| `KernelCascadeProofs!ReversalsAreComplete` | `Reversible` | `[]ReversedUndone` | `ReversalInv`: nothing that could move the conversation lies above a leg with a compensable dispatch left; in a reversed state there is no such leg, and an entry left on the ledger has a drain on the stack to take it |
| `SagaProofs!TypeCorrect` | | `[]TypeInv` | a call, marker or row names instances and events that exist; `Calls` sums up what each step adds to the stacks |
| `SagaProofs!ParkedRemembers` | `ParksOnce`, `OneThread` | `[]ParkedKnowsStage` | `ParkInv`: rows and copies know the stage too; `DataStep` says that every row and copy is of an instance |
| `SagaProofs!WritesAreSingle` | `Dedupes` | `[]NoDoubleApply` | `AppliedInv`: the key of an applied dispatch is among the claims |
| `SagaProofs!SkipsAreApplied` | `KeysDistinct` | `[]SkippedWasApplied` | `MoveInv`: a leg that runs, or that a marker names, was taken; `ClaimedInv`: a claim is the key of an applied dispatch |
| `SagaProofs!CompensatesApplied` | `OneThread`, `KeysDistinct` | `[]NoPhantomCompensation` | `PhantomInv` (with `RecInv`): every entry on a ledger is of an applied dispatch, but for the newest while the innermost call's own dispatch pends |
| `SagaProofs!StoreFollowsLive` | `NoReversals` | `[]StoreMirrorsLive` | `MirrorInv`: no copy is made outside the mutex, so every write is of the live instance |
| `SagaProofs!CutLegsAreSettled` | `Plain` | `[]LegFinishedOrReported` | `OwingInv`: a leg that is neither finished, reversed, reported nor failed is named by the row on disk, with only answered dispatches counted as settled, and is run by the innermost call or about to be restarted by the boot; `OwedInv`: meanwhile no other event is owed |

Hypotheses, and what they keep out:

- `Prompt`: no reaction outlasts `STALLED_AFTER` in a live process. `OneOperator`: two operators may
  both have read one stalled row, and the later reset takes it from whoever claimed it in between.
- `OneKey`: commands at one record resolve one lock key. `CreatorsApart`: on Postgres a creating
  reader is the only creator, since it takes neither lock nor version. `~Alongside`: no process
  boots on Postgres beside dispatching ones.
- `~Overlap`: two requests about one person do not overlap. `MembershipProofs!Inv` is the types and
  four facts: a request is about a person, at most one about each, a person found absent is still
  absent, and the row a sign-in holds is the person's row (`HeldIsRow`), which `membership_overlap`
  breaks.
- `SealedByOne`: the writers share a lock, and either the commits seal or one operator does.
- `FoundedAlone`: no two hosts boot together on a database nobody holds. `StartsChained`: the eras
  a database starts with are a chain.
- `ParksOnce`: no leg parks from the parking state. `KeysDistinct`: where keys are claimed and have
  a second's grain, no two events that moved legs share one; it is a condition on behaviours, and
  holds of all those of `saga_claims`.
- `Reversible`: only refusals lead to a reversed state, a compensating leg dispatches nothing
  compensable, and what precedes a compensable dispatch in its leg emits nothing a policy or the
  process manager hears; otherwise an outer leg goes on delivering after a nested reversal.
- `OneThread`: the reactions of one instance, and the people who resume it, run on one thread; two
  share a ledger without a lock, and a resume reads, moves and stores the instance without one.
  `NoReversals`: no compensations, no `refused` legs and no parking state, whose copies are written
  outside the mutex.
- `Plain`: one thread, no compensations, and no dispatch emits an event the saga hears. Each part is
  needed: the checkpoint of a recorded compensation writes the row without the marker, a nested
  leg's marker replaces the outer one's, and another thread's write replaces both (section 5).

The type invariants of `Outbox`, `CommandDispatch`, `Membership` and `Saga` are theorems of their
own, and no run repeats them; the others are the first conjunct of their module's invariant. What
`Replay` computes is a recursive function of the journal; where a proof needs induction over it
(`HostDispatchProofs`) it is by the least counterexample, from the order of the naturals.

Only model-checked: the liveness properties (`Answered`, `PendingStarts`, `OldOrphanSurfaces`,
`DispatchEnds`, `TransactionsEnd`, `BootEnds`, `CascadeEnds`), since fairness and `ENABLED` are out
of the prover's reach; and `RedriveAppliesOnce`. Every other invariant, action property and
refinement that a passing run checks is a theorem.

## 5. Not modelled

Failures of the saga store itself (a checkpoint that raises, or the relay's write of a failed row),
stores without an outbox (whose reactions run directly, so that a raise reaches the caller),
dry runs and collecting validation, entity commands (which take the same path under their parent's
lock, but carry no dispatch key), argument decoding, deletes (no command reaches them), journal
compaction, SQL and codecs, projections and queries, the language, tooling and clients. Of the Rust
host: tokens, cookies and the OAuth exchange, pages, the wasm runner, argument filling and routing,
rate limits, the replay table and payments. Most lines of Rust in the repository are generated
(`rust/src/generated`) or tables of the language (`rust/parser/src/keywords.rs`): they repeat for
every aggregate of every example one shape of code, hold no state of their own, and are not
modelled; the kernel that runs them is. `PROJECT.json` gives the reason for each part.

Behaviours met while modelling that no run states. In the Ruby runtime:

- on a store without dispatch claims a dispatch that commits and then raises, or whose answer is
  lost, is sent again by the same process (`delivery.rb:77`) and applied twice; a compensation
  carries no key, so there the same happens on every store (`compensation.rb:74`);
- what is popped after such a raise is the ledger's newest entry (`compensation.rb:30`), and after a
  reaction that pushed or drained entries that need not be the dispatch's own;
- a resume holds no mutex (`saga_interpreter.rb:148`): another thread's move, or parking, between its
  steps is overwritten in the store, or loses the stage it parked from;
- a nested leg overwrites and clears the outer leg's pending marker (`transitions.rb:110`), so a
  death afterwards loses the rest of the outer leg;
- a death while a saga unwinds leaves entries on the stored ledger that were already compensated
  (`compensation.rb:40`), and a later refusal compensates them again: a compensation carries no
  dispatch key;
- the marker of a `refused` leg names the event that moved the forward leg
  (`saga_interpreter.rb:97`), and a boot that only reports it leaves it on disk; if a later event
  moves the saga back to where the forward leg had led, a later boot resumes that leg from its first
  dispatch (`redrive.rb:75`), which without dispatch claims applies it twice;
- after a death, a ledger may name a dispatch that never ran, and a later refusal compensates it;
- a leg whose earlier dispatch ended the saga writes the row back when it records the next
  compensation (`compensation.rb:22`);
- after a death, a save's later consumer may run beside an earlier one that another process is
  still running: starts are in order, but completions are not.
- a death between a recorded compensation and its dispatch leaves a leg that no boot finishes or
  reports, since recording it erased the marker (`compensation.rb:22`);
- two events of one name in one second share a dispatch key (`dispatch_claim.rb:22`), and the second
  dispatch of a leg that is moved twice is skipped; the key names the trigger and not the state, so
  two compensating legs of one event share keys too;
- a leg goes on after its refused dispatch unwound the saga (`transitions.rb:74`); what it still
  applies stays uncompensated, though the guide `policies-and-process-managers.md:462` says every
  completed leg is compensated;
- a `refused` leg whose own dispatch is refused again in the state it leads to unwinds again, with
  nothing to stop it (`transitions.rb:119`);
- two threads of one instance read, pop and drain one ledger outside the mutex
  (`compensation.rb:39`), and two processes of one store keep copies of one saga of their own
  (`saga_persistence.rb:41`);
- an operator's redrive resets a row that another's redrive is running (`redrive.rb:84`, against its
  comment at 44);
- a claim orphaned less than `STALLED_AFTER` before the next boot is never reported, though the
  guide (line 515) says that boot warns; a reaction that takes longer than that looks orphaned while
  it runs (`outbox.rb:19`);
- an ask that no process has an adapter for stays pending (`outbox/runnable.rb:19`);
- two creating commands that read prior state both succeed on Postgres, against ADR 0035:13;
- a boot beside a dispatching process can put a row back to an older state, against
  `append_only.rb:159`;
- a command without a resolved lock key, or a second process at one Sqlite file or Heki journal, is
  not kept apart by the Mutex (`aggregate_lock.rb:24`);
- an atomic put takes its sequence before it waits for the row (`postgres/repository.rb:175`), so
  the journal's order of two puts may be the reverse of the table's;
- a death in the middle of an event tap's line, or of its rotation, loses a line or a generation
  (`event_tap.rb:170`, `:144`); a Heki projection writes back the
  file it read with no lock against a compaction of another process (`heki.rb:111`).

In the Rust host and kernel:

- a read loads no sagas, so a step that moved one after the read's snapshot is replayed without what
  the saga's leg did, and the answer may be a world that no command left, though `dispatch.rs:819-821`
  calls that replay "still correct"; `ReadsCommitted` allows exactly that gap;
- a process that dies after its commit drops the command's reactions to other domains
  (`dispatch.rs:536`); a lost answer makes the target run a command twice (`lambda_client.rs:147`);
- `admit_person` checks and puts without a lock (`auth.rs:720`); enabling a deleted person, or
  admitting them again, works on the deleted row (`auth.rs:813`);
- two hosts that found one database: the slower one moves the fence back (`mint.rs:1121`);
- in a rolling deployment a row committed after the watermark is missing from the new head until
  `hecks merge_tail` is run, which exists for it (`tail_merge.rb:8`); rows written between audit and
  mint are not audited (`boot.rs:560`); a host of the old shape re-saves its snapshot after the mint
  (`mint.rs:1386`);
- `ledger seal` reads the last anchor (`ledger.rs:264`) before it waits for the writers: two people
  who run it at once, or one beside seals of the commits, may fold onto a seal that is no longer the
  last, and verify then reports the journal as altered;
- the approval of an edge that `boot.rs:477` and ADR 0030 mention has no check in the Rust boot;
- a compensating state whose leg is compensable, or root policies that answer each other, are
  bounded by nothing (`orchestrate.rs:1262`); an outer leg goes on after a nested reversal
  (`orchestrate.rs:1053`);
- the rate limiter forgets live windows when its table is full (`rate_limit.rs:88`).

## 6. Plan

In this order:

1. Proofs: the hypotheses of `SagaProofs` weakened where the code allows (`CutLegsAreSettled` for
   events the saga hears but does not take a leg on, `StoreFollowsLive` for reversals that one thread
   runs).
2. `EventTap` with the feed's cursor: sequence numbers across rotations, restarts and torn lines;
   an abstract numbered log it implements.
3. `HekiJournal`: journal, snapshot, compaction and the file lock, with deaths between any two
   writes; the theorem that snapshot plus journal always denotes the acknowledged state.
4. `RateLimit` and the token replay table of the Rust host: windows, eviction at the limit, clocks.
5. `Reactions`: a composition of dispatch, outbox and saga for one save, with several processes.
6. Ordering and paging of queries as operators against a reference definition.
