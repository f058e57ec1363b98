---------------------------- MODULE HostDispatch ----------------------------
(***************************************************************************)
(* The Rust host's dispatch of commands to one domain: dispatch.rs over    *)
(* store.rs and its backends, the journal's SQL, and lambda_client.rs.     *)
(*                                                                         *)
(* Host processes share a database.  Each has one connection behind a      *)
(* mutex.  A dispatch takes the connection, then the domain's lock, loads  *)
(* the snapshot, the steps after it and the saga rows, runs the kernel on  *)
(* them, and commits the step, the new snapshot and the sagas together.    *)
(* Then, with nothing held, it delivers the command's cross-domain         *)
(* reactions.  A read takes no lock and loads no saga.  A process may die  *)
(* at any step, a call across domains may fail before or after its target  *)
(* ran it, and the answer to COMMIT may be lost.                           *)
(*                                                                         *)
(* The kernel is a pure function of the world.  A world is the set of the  *)
(* commands whose effect it holds, with FollowUp for what a saga's leg     *)
(* dispatches, and whether the saga is live.                               *)
(***************************************************************************)
EXTENDS Integers, Sequences, FiniteSets

CONSTANTS
    Commands,      \* commands, one request each
    Reads,         \* requests that read the domain
    Hosts,         \* processes
    HostOf,        \* the process that serves each request
    Old,           \* the command a deployment may have journaled before snapshots
    Starts, Moves, \* the commands that begin the saga, and that move it to its end
    Bars,          \* per command, the effects its givens refuse
    Previews,      \* the commands that may be asked as a preview
    Shadowed,      \* the commands refused for their caller's role, under shadow
    Reactions,     \* per command, how many cross-domain reactions it fires
    Attempts,      \* MAX_DELIVERY_ATTEMPTS
    MaxCrashes     \* bound: process deaths

FollowUp == "follow-up"
None == "none"
Requests == Commands \cup Reads
Steps == Commands \cup {Old}

ASSUME HostAssumption ==
    /\ HostOf \in [Requests -> Hosts] /\ Commands \cap Reads = {}
    /\ Starts \subseteq Steps /\ Moves \subseteq Steps
    /\ Bars \in [Commands -> SUBSET (Steps \cup {FollowUp})]
    /\ Previews \subseteq Commands /\ Shadowed \subseteq Commands
    /\ Reactions \in [Commands -> Nat]
    /\ Attempts \in Nat \ {0} /\ MaxCrashes \in Nat
    /\ Old \notin Requests /\ FollowUp \notin Requests /\ None \notin Requests

VARIABLES
    journal,    \* the steps accepted, in order
    snapshot,   \* the one-row cache: the journal's length, instances, backfilled
    sagas,      \* whether the saga's row is there
    lock,       \* the request holding the domain's lock
    conn,       \* per process, the request holding its connection
    pc,         \* per request, its step
    result,     \* per command, the world the kernel answered
    again,      \* per command, it runs again without its role
    next,       \* per command, the reaction being delivered
    tries,      \* per command, the attempts at it that failed
    fate,       \* per command and reaction, what became of it
    answer,     \* per request, what its caller was told
    view,       \* per read, the snapshot it loaded, then its answer
    since,      \* history: per read, the journal's length when it began
    crashes     \* process deaths so far

stored == <<journal, snapshot, sagas>>
reaction == <<next, tries, fate>>
seen == <<view, since>>
vars == <<journal, snapshot, sagas, lock, conn, pc, result, again, next, tries,
          fate, answer, view, since, crashes>>

----------------------------------------------------------------------------
(* The kernel.  A command that moves the saga dispatches its leg only when   *)
(* the saga is there.                                                        *)
EmptyWorld == [done |-> {}, live |-> FALSE]

Accepts(w, c) == c \in Commands => w.done \cap Bars[c] = {}

Apply(w, c) ==
    [done |-> w.done \cup {c} \cup (IF c \in Moves /\ w.live THEN {FollowUp} ELSE {}),
     live |-> (w.live \/ c \in Starts) /\ c \notin Moves]

(* The world after steps replayed on w. *)
Replay(w, steps) ==
    LET world[n \in 0..Len(steps)] ==
           IF n = 0 THEN w ELSE Apply(world[n - 1], steps[n])
    IN  world[Len(steps)]

NoSnapshot == [at |-> 0, done |-> {}, backfilled |-> TRUE]

(* load, seed: the snapshot and the steps after it; every step, on nothing,   *)
(* when there is no snapshot or it was written before sagas were kept.        *)
Loaded ==
    IF snapshot.at > 0 /\ snapshot.backfilled
    THEN Replay([done |-> snapshot.done, live |-> sagas],
                SubSeq(journal, snapshot.at + 1, Len(journal)))
    ELSE Replay([done |-> {}, live |-> sagas], journal)

----------------------------------------------------------------------------
(* A new deployment; one with a step from before snapshots; one whose        *)
(* snapshot was written before sagas were kept.                              *)
Init ==
    /\ sagas = FALSE
    /\ \/ journal = <<>> /\ snapshot = NoSnapshot
       \/ /\ journal = <<Old>>
          /\ snapshot \in {NoSnapshot,
                           [at |-> 1, done |-> Apply(EmptyWorld, Old).done,
                            backfilled |-> FALSE]}
    /\ lock = None /\ conn = [h \in Hosts |-> None]
    /\ pc = [r \in Requests |-> "new"]
    /\ result = [c \in Commands |-> EmptyWorld]
    /\ again = [c \in Commands |-> FALSE]
    /\ next = [c \in Commands |-> 1] /\ tries = [c \in Commands |-> 0]
    /\ fate = [c \in Commands |-> [i \in 1..Reactions[c] |-> "none"]]
    /\ answer = [r \in Requests |-> "none"]
    /\ view = [r \in Reads |-> NoSnapshot] /\ since = [r \in Reads |-> 0]
    /\ crashes = 0

Goto(r, step) == pc' = [pc EXCEPT ![r] = step]
Tell(r, told) == Goto(r, "over") /\ answer' = [answer EXCEPT ![r] = told]

(* Mutant: the unit outlives its commit, until the request is over. *)
EndUnitLater(r) == UNCHANGED <<lock, conn, result>>

(* The unit is consumed or dropped: the transaction ends, with its lock, and *)
(* the connection is free.                                                   *)
EndUnit(r) ==
    /\ lock' = IF lock = r THEN None ELSE lock
    /\ conn' = [conn EXCEPT ![HostOf[r]] = None]
    /\ result' = [result EXCEPT ![r] = EmptyWorld]

(* begin: the connection's mutex, and BEGIN. *)
Begin(c) ==
    /\ pc[c] = "new" /\ conn[HostOf[c]] = None
    /\ conn' = [conn EXCEPT ![HostOf[c]] = c]
    /\ Goto(c, "begun")
    /\ UNCHANGED <<stored, lock, result, again, reaction, answer, seen, crashes>>

(* Mutant: the lock is taken only for the append. *)
TakeLockLate(c) == UNCHANGED lock

(* The domain's advisory lock. *)
TakeLock(c) == lock = None /\ lock' = c

(* begin, its lock, and load, fill_arguments and the kernel's run: nothing    *)
(* that is read can change while the lock is held.                            *)
Run(c, preview) ==
    /\ pc[c] = "begun" /\ (preview => c \in Previews)
    /\ TakeLock(c)
    /\ result' = [result EXCEPT ![c] =
                     IF Accepts(Loaded, c) THEN Apply(Loaded, c) ELSE Loaded]
    /\ Goto(c, IF c \in Shadowed /\ ~again[c] THEN "role"
               ELSE IF preview THEN "preview"
               ELSE IF Accepts(Loaded, c) THEN "accepted" ELSE "refused")
    /\ UNCHANGED <<stored, conn, again, reaction, answer, seen, crashes>>

(* Mutant: the snapshot is saved and the sagas are left to a later write. *)
CommitWithoutSagas(c) ==
    /\ journal' = Append(journal, c)
    /\ snapshot' = [at |-> Len(journal) + 1, done |-> result[c].done,
                    backfilled |-> TRUE]
    /\ UNCHANGED sagas

(* commit: the step, the snapshot and the sagas become visible together. *)
Store(c) ==
    /\ journal' = Append(journal, c)
    /\ snapshot' = [at |-> Len(journal) + 1, done |-> result[c].done,
                    backfilled |-> TRUE]
    /\ sagas' = result[c].live

Commit(c) ==
    /\ pc[c] = "accepted"
    /\ Store(c) /\ EndUnit(c)
    /\ Goto(c, "delivering")
    /\ UNCHANGED <<again, reaction, answer, seen, crashes>>

(* The connection is lost at COMMIT: the caller is told of an error, and the *)
(* step may have been kept.                                                  *)
CommitUnanswered(c) ==
    /\ pc[c] = "accepted"
    /\ Store(c) \/ UNCHANGED stored
    /\ EndUnit(c) /\ Tell(c, "error")
    /\ UNCHANGED <<again, reaction, seen, crashes>>

(* A refusal and a preview roll back; neither delivers anything. *)
Rollback(c) ==
    /\ pc[c] \in {"refused", "preview"}
    /\ EndUnit(c) /\ Tell(c, pc[c])
    /\ UNCHANGED <<stored, again, reaction, seen, crashes>>

(* dispatch_with, under shadow: what only the role refused runs again. *)
RunAgain(c) ==
    /\ pc[c] = "role"
    /\ EndUnit(c) /\ Goto(c, "new")
    /\ again' = [again EXCEPT ![c] = TRUE]
    /\ UNCHANGED <<stored, reaction, answer, seen, crashes>>

(* The kernel or a statement fails: the unit is dropped, which rolls back. *)
Fail(c) ==
    /\ pc[c] \in {"begun", "accepted"}
    /\ EndUnit(c) /\ Tell(c, "error")
    /\ UNCHANGED <<stored, again, reaction, seen, crashes>>

----------------------------------------------------------------------------
(* Delivery, reaction by reaction, with nothing held. *)

Delivering(c) == pc[c] = "delivering" /\ next[c] <= Reactions[c]

Settle(c, how) ==
    /\ fate' = [fate EXCEPT ![c][next[c]] = how]
    /\ next' = [next EXCEPT ![c] = @ + 1]
    /\ tries' = [tries EXCEPT ![c] = 0]

(* deliver: the target ran it, or refused it. *)
Deliver(c) ==
    /\ Delivering(c) /\ tries[c] < Attempts
    /\ Settle(c, "delivered") \/ Settle(c, "refused")
    /\ UNCHANGED <<stored, lock, conn, pc, result, again, answer, seen, crashes>>

(* deliver_with_retry: a fault, before the target ran it or after: the       *)
(* caller cannot tell, and the same invocation is sent again.                *)
DeliverFaults(c) ==
    /\ Delivering(c) /\ tries[c] < Attempts
    /\ tries' = [tries EXCEPT ![c] = @ + 1]
    /\ UNCHANGED <<stored, lock, conn, pc, result, again, next, fate,
                   answer, seen, crashes>>

(* Mutant: the first reaction that fails every attempt ends the delivery. *)
DeadLetterStopping(c) ==
    /\ Delivering(c) /\ tries[c] = Attempts /\ conn[HostOf[c]] = None
    /\ Settle(c, "dead") /\ Tell(c, "undelivered")
    /\ UNCHANGED <<stored, lock, conn, result, again, seen, crashes>>

(* record_dead_letter, on the process's connection: the next reaction gets    *)
(* its own attempts.                                                          *)
DeadLetter(c) ==
    /\ Delivering(c) /\ tries[c] = Attempts /\ conn[HostOf[c]] = None
    /\ Settle(c, "dead")
    /\ UNCHANGED <<stored, lock, conn, pc, result, again, answer, seen, crashes>>

(* The dead letter's write fails, which drops the reactions left. *)
DeadLetterFails(c) ==
    /\ Delivering(c) /\ tries[c] = Attempts /\ conn[HostOf[c]] = None
    /\ Tell(c, "error")
    /\ UNCHANGED <<stored, lock, conn, result, again, reaction, seen, crashes>>

(* A delivery that failed fails the call, though the command is kept. *)
Finish(c) ==
    /\ pc[c] = "delivering" /\ next[c] > Reactions[c]
    /\ Tell(c, IF \E i \in DOMAIN fate[c] : fate[c][i] = "dead"
               THEN "undelivered" ELSE "done")
    /\ UNCHANGED <<stored, lock, conn, result, again, reaction, seen, crashes>>

----------------------------------------------------------------------------

(* Mutant: the first step after the snapshot is not read. *)
ReadStepsSkipping(r) ==
    /\ pc[r] = "reading"
    /\ view' = [view EXCEPT ![r].done =
                   Replay([done |-> view[r].done, live |-> FALSE],
                          SubSeq(journal, view[r].at + 2, Len(journal))).done]
    /\ conn' = [conn EXCEPT ![HostOf[r]] = None]
    /\ Tell(r, "done")
    /\ UNCHANGED <<stored, lock, result, again, reaction, since, crashes>>

(* read_state: the snapshot, and then, in another statement, the steps        *)
(* recorded after it, replayed on it without the saga rows.                   *)
ReadSnapshot(r) ==
    /\ pc[r] = "new" /\ conn[HostOf[r]] = None
    /\ conn' = [conn EXCEPT ![HostOf[r]] = r]
    /\ view' = [view EXCEPT ![r] = snapshot]
    /\ since' = [since EXCEPT ![r] = Len(journal)]
    /\ Goto(r, "reading")
    /\ UNCHANGED <<stored, lock, result, again, reaction, answer, crashes>>

ReadSteps(r) ==
    /\ pc[r] = "reading"
    /\ view' = [view EXCEPT ![r].done =
                   Replay([done |-> view[r].done, live |-> FALSE],
                          SubSeq(journal, view[r].at + 1, Len(journal))).done]
    /\ conn' = [conn EXCEPT ![HostOf[r]] = None]
    /\ Tell(r, "done")
    /\ UNCHANGED <<stored, lock, result, again, reaction, since, crashes>>

(* A process dies: its transaction is rolled back, and its requests with it. *)
Crash(h) ==
    /\ crashes < MaxCrashes /\ crashes' = crashes + 1
    /\ pc' = [r \in Requests |->
                 IF HostOf[r] = h /\ pc[r] \notin {"new", "over"} THEN "dead" ELSE pc[r]]
    /\ lock' = IF lock # None /\ HostOf[lock] = h THEN None ELSE lock
    /\ conn' = [conn EXCEPT ![h] = None]
    /\ UNCHANGED <<stored, result, again, reaction, answer, seen>>

----------------------------------------------------------------------------
GoesOn(c) ==
    \/ Begin(c) \/ (\E preview \in BOOLEAN : Run(c, preview)) \/ Commit(c) \/ Rollback(c) \/ RunAgain(c)
    \/ Deliver(c) \/ DeadLetter(c) \/ Finish(c)

Next ==
    \/ \E c \in Commands :
          GoesOn(c) \/ CommitUnanswered(c) \/ Fail(c) \/ DeliverFaults(c)
             \/ DeadLetterFails(c)
    \/ \E r \in Reads : ReadSnapshot(r) \/ ReadSteps(r)
    \/ \E h \in Hosts : Crash(h)

Spec == Init /\ [][Next]_vars

(* Each request's task goes on while it can. *)
FairSpec ==
    /\ Spec
    /\ \A c \in Commands : WF_vars(GoesOn(c))
    /\ \A r \in Reads : WF_vars(ReadSteps(r))

----------------------------------------------------------------------------
Accepted == {c \in Commands : \E i \in 1..Len(journal) : journal[i] = c}

(* The processes together are one domain that accepts commands one at a      *)
(* time.  Its world is what a dispatch would load: two dispatches never both *)
(* replay the same prior steps, a saga is never kept apart from the command  *)
(* that moved it, and a snapshot from before sagas were kept loses none      *)
(* (dispatch.rs, run; store.rs, State).                                      *)
Domain == INSTANCE SerialDomain WITH
    world <- Loaded, accepted <- Accepted,
    FirstWorlds <- {EmptyWorld, Apply(EmptyWorld, Old)}
OneDomain == Domain!Spec

(* What is stored between two commands is what replaying the whole journal   *)
(* gives: the instances in the snapshot, and the saga rows beside it.        *)
StoredIsReplay ==
    snapshot.at > 0 /\ snapshot.backfilled =>
       /\ snapshot.at = Len(journal)
       /\ [done |-> snapshot.done, live |-> sagas] = Replay(EmptyWorld, journal)

(* A command's reactions reach their targets only once it is kept, and every *)
(* one of them is delivered, refused or dead-lettered by the time its caller *)
(* is answered, whichever of them failed (run, deliver_with_retry).          *)
ReactionsSettled ==
    \A c \in Commands :
       /\ (\E i \in 1..Reactions[c] : fate[c][i] # "none") => c \in Accepted
       /\ answer[c] \in {"done", "undelivered"} => \A i \in 1..Reactions[c] : fate[c][i] # "none"

(* A read, which takes no lock and reads in two statements beside any other  *)
(* process's commits, answers the commands kept at one moment, none of those *)
(* kept before it began missing.  Only the effects of a saga's leg may be    *)
(* missing, since a read loads no sagas (dispatch.rs, read).                 *)
Shows(done, w) == done \subseteq w.done /\ w.done \ {FollowUp} \subseteq done
ReadsCommitted ==
    \A r \in Reads : answer[r] = "done" =>
       \E n \in since[r]..Len(journal) :
          Shows(view[r].done, Replay(EmptyWorld, SubSeq(journal, 1, n)))

(* A dispatch that has begun is answered, unless its process dies: no        *)
(* request keeps the lock or the connection from the others (Unit).          *)
DispatchEnds == \A c \in Commands : pc[c] = "begun" ~> pc[c] \in {"over", "dead"}

=============================================================================
