------------------------- MODULE HostDispatchProofs -------------------------
(***************************************************************************)
(* Theorems about HostDispatch for every number of processes, commands,    *)
(* reads, reactions, attempts and crashes.                                 *)
(***************************************************************************)
EXTENDS HostDispatch, WellFoundedInduction, NaturalsInduction, TLAPS

----------------------------------------------------------------------------
(* Replay, step by step. *)

(* A set of numbers that is not empty has a least one. *)
LEMMA LeastNat ==
    ASSUME NEW T \in SUBSET Nat, T # {}
    PROVE  \E x \in T : \A y \in T : x <= y
<1> DEFINE R == OpToRel(<, Nat)
<1>1. IsWellFoundedOn(R, Nat)
  BY NatLessThanWellFounded, Zenon
<1> HIDE DEF R
<1>2. PICK x \in T : \A y \in T : ~ (<<y, x>> \in R)
  BY <1>1, WFMin
<1>3. \A a, b \in Nat : a < b => <<a, b>> \in R
  BY DEF R, OpToRel
<1>4. ASSUME NEW y \in T PROVE x <= y
  <2>1. ~(y < x)
    BY <1>2, <1>3
  <2> QED BY <2>1
<1> QED BY <1>4

(* f is the worlds of a replay of steps on w, up to the nth. *)
Worlds(f, w, steps, n) ==
    f = [k \in 0..n |-> IF k = 0 THEN w ELSE Apply(f[k - 1], steps[k])]

(* A replay has its worlds, however long it is. *)
LEMMA WorldsExist ==
    ASSUME NEW w, NEW steps
    PROVE  \A n \in Nat : \E f : Worlds(f, w, steps, n)
<1> DEFINE T == {n \in Nat : ~\E f : Worlds(f, w, steps, n)}
<1> SUFFICES ASSUME T # {} PROVE FALSE
  OBVIOUS
<1>1. PICK n \in T : \A m \in T : n <= m
  BY LeastNat
<1>2. CASE n = 0
  <2> DEFINE f == [k \in 0..0 |-> w]
  <2>1. f = [k \in 0..0 |-> IF k = 0 THEN w ELSE Apply(f[k - 1], steps[k])]
    OBVIOUS
  <2>2. Worlds(f, w, steps, 0)
    BY <2>1 DEF Worlds
  <2> QED BY <1>1, <1>2, <2>2
<1>3. CASE n # 0
  <2>1. n \in Nat /\ n - 1 \in Nat /\ n - 1 \notin T
    BY <1>1, <1>3
  <2>2. PICK f : Worlds(f, w, steps, n - 1)
    BY <2>1
  <2>f. f = [k \in 0..(n - 1) |-> IF k = 0 THEN w ELSE Apply(f[k - 1], steps[k])]
    BY <2>2 DEF Worlds
  <2> DEFINE g == [k \in 0..n |-> IF k = n THEN Apply(f[n - 1], steps[n]) ELSE f[k]]
             h == [k \in 0..n |-> IF k = 0 THEN w ELSE Apply(g[k - 1], steps[k])]
  <2>3. ASSUME NEW k \in 0..n PROVE g[k] = h[k]
    <3>1. CASE k = n
      BY <1>3, <2>1, <3>1
    <3>2. CASE k = 0
      BY <1>3, <2>1, <2>f, <3>2
    <3>3. CASE k # n /\ k # 0
      <4>1. k \in 0..(n - 1) /\ k - 1 \in 0..(n - 1) /\ k - 1 # n /\ k - 1 \in 0..n
        BY <2>1, <3>3
      <4>2. g[k] = f[k] /\ g[k - 1] = f[k - 1]
        BY <3>3, <4>1
      <4>3. f[k] = Apply(f[k - 1], steps[k])
        BY <2>f, <3>3, <4>1
      <4>4. h[k] = Apply(g[k - 1], steps[k])
        BY <3>3
      <4> QED BY <4>2, <4>3, <4>4
    <3> QED BY <3>1, <3>2, <3>3
  <2>4. g = h
    <3> HIDE DEF g
    <3>1. \A k \in 0..n : g[k] = h[k]
      BY <2>3
    <3>2. g = [k \in 0..n |-> g[k]]
      BY DEF g
    <3> QED BY <3>1, <3>2
  <2>5. Worlds(g, w, steps, n)
    <3> HIDE DEF g
    <3> QED BY <2>4 DEF Worlds
  <2> QED BY <1>1, <2>5
<1> QED BY <1>2, <1>3

(* Replays of the same steps agree. *)
LEMMA WorldsAgree ==
    ASSUME NEW w, NEW steps, NEW others, NEW f, NEW g, NEW m \in Nat, NEW n \in Nat,
           Worlds(f, w, steps, m), Worlds(g, w, others, n), m <= n,
           \A k \in 1..m : steps[k] = others[k]
    PROVE  f[m] = g[m]
<1> DEFINE T == {k \in Nat : k <= m /\ f[k] # g[k]}
<1> SUFFICES ASSUME T # {} PROVE FALSE
  OBVIOUS
<1>1. PICK k \in T : \A j \in T : k <= j
  BY LeastNat
<1>2. k \in Nat /\ k <= m /\ f[k] # g[k] /\ k \in 0..m /\ k \in 0..n
  BY <1>1
<1>3. /\ f[k] = IF k = 0 THEN w ELSE Apply(f[k - 1], steps[k])
      /\ g[k] = IF k = 0 THEN w ELSE Apply(g[k - 1], others[k])
  BY <1>2 DEF Worlds
<1>4. k # 0
  BY <1>2, <1>3
<1>5. k - 1 \in Nat /\ k - 1 \notin T /\ k - 1 <= m /\ k \in 1..m
  BY <1>1, <1>2, <1>4
<1>6. f[k - 1] = g[k - 1]
  BY <1>5
<1> QED BY <1>2, <1>3, <1>4, <1>5, <1>6

(* What Replay is. *)
LEMMA ReplayIsLast ==
    ASSUME NEW w, NEW steps, Len(steps) \in Nat
    PROVE  \E f : Worlds(f, w, steps, Len(steps)) /\ Replay(w, steps) = f[Len(steps)]
<1> DEFINE f == CHOOSE f : Worlds(f, w, steps, Len(steps))
<1>1. Worlds(f, w, steps, Len(steps))
  BY WorldsExist
<1>2. Replay(w, steps) = f[Len(steps)]
  BY DEF Replay, Worlds
<1> QED BY <1>1, <1>2

(* Replay of nothing leaves the world as it is. *)
LEMMA ReplayNothing ==
    ASSUME NEW w
    PROVE  Replay(w, <<>>) = w
<1>1. Len(<<>>) = 0
  OBVIOUS
<1>2. PICK f : Worlds(f, w, <<>>, 0) /\ Replay(w, <<>>) = f[0]
  BY <1>1, ReplayIsLast
<1> QED BY <1>2 DEF Worlds

(* Replay of one step more applies it to the world before it. *)
LEMMA ReplayLonger ==
    ASSUME NEW w, NEW steps, NEW longer, NEW n \in Nat, Len(steps) = n, Len(longer) = n + 1,
           \A k \in 1..n : steps[k] = longer[k]
    PROVE  Replay(w, longer) = Apply(Replay(w, steps), longer[n + 1])
<1> DEFINE m == n + 1
<1>1. m \in Nat /\ n <= m /\ m \in 0..m /\ m # 0 /\ m - 1 = n /\ Len(longer) = m
  OBVIOUS
<1> HIDE DEF m
<1>2. PICK f : Worlds(f, w, steps, n) /\ Replay(w, steps) = f[n]
  BY ReplayIsLast
<1>3. PICK g : Worlds(g, w, longer, m) /\ Replay(w, longer) = g[m]
  BY <1>1, ReplayIsLast
<1>4. f[n] = g[n]
  <2>1. ASSUME NEW p \in Nat, NEW q \in Nat, p <= q,
               Worlds(f, w, steps, p), Worlds(g, w, longer, q),
               \A k \in 1..p : steps[k] = longer[k]
        PROVE  f[p] = g[p]
    BY <2>1, WorldsAgree
  <2> QED BY <1>1, <1>2, <1>3, <2>1
<1>5. g[m] = Apply(g[n], longer[m])
  BY <1>1, <1>3 DEF Worlds
<1> QED BY <1>2, <1>3, <1>4, <1>5 DEF m

(* So a step accepted is the next step of every later replay. *)
LEMMA ReplayAppend ==
    ASSUME NEW w, NEW S, NEW steps \in Seq(S), NEW c \in S
    PROVE  Replay(w, Append(steps, c)) = Apply(Replay(w, steps), c)
<1> DEFINE n == Len(steps)
           longer == Append(steps, c)
<1>1. n \in Nat /\ Len(longer) = n + 1 /\ longer[n + 1] = c
      /\ \A k \in 1..n : steps[k] = longer[k]
  OBVIOUS
<1>2. Replay(w, longer) = Apply(Replay(w, steps), longer[n + 1])
  <2> HIDE DEF longer
  <2> QED BY <1>1, ReplayLonger
<1> QED BY <1>1, <1>2

----------------------------------------------------------------------------
(* The parts of the invariant. *)
World == Replay(EmptyWorld, journal)

Snapshot == [at: Nat, done: SUBSET (Steps \cup {FollowUp}), backfilled: BOOLEAN]
WorldType == [done: SUBSET (Steps \cup {FollowUp}), live: BOOLEAN]
Pcs == {"new", "begun", "role", "preview", "accepted", "refused", "delivering", "reading",
        "over", "dead"}

(* What each variable holds, whatever the bounds: the ones about the store,  *)
(* about reactions and about reads.                                          *)
Types ==
    /\ journal \in Seq(Steps)
    /\ snapshot \in Snapshot
    /\ sagas \in BOOLEAN
    /\ World \in WorldType
    /\ lock \in Commands \cup {None}
    /\ pc \in [Requests -> Pcs]
    /\ result \in [Commands -> WorldType]

ReactionTypes ==
    /\ next \in [Commands -> Nat \ {0}]
    /\ fate = [c \in Commands |-> fate[c]]
    /\ \A c \in Commands : fate[c] \in [1..Reactions[c] -> {"none", "delivered", "refused", "dead"}]
    /\ DOMAIN answer = Requests

ReadTypes ==
    /\ view \in [Reads -> Snapshot]
    /\ since \in [Reads -> Nat]
    /\ DOMAIN answer = Requests

Locked(c) == pc[c] \in {"role", "preview", "accepted", "refused"}
InUnit(c) == pc[c] = "begun" \/ Locked(c)

(* Whoever has run the kernel holds the lock. *)
HoldsLock == \A c \in Commands : Locked(c) => lock = c

(* Only the steps before any command are outside a snapshot with sagas. *)
OldIsFirst ==
    ~(snapshot.at > 0 /\ snapshot.backfilled) =>
       /\ ~sagas
       /\ \/ journal = <<>> /\ snapshot = NoSnapshot
          \/ /\ journal = <<Old>>
             /\ snapshot \in {NoSnapshot,
                              [at |-> 1, done |-> Apply(EmptyWorld, Old).done,
                               backfilled |-> FALSE]}

(* What the kernel answered is still what it would answer. *)
ResultIsNext ==
    \A c \in Commands : pc[c] = "accepted" =>
       Accepts(World, c) /\ result[c] = Apply(World, c)

(* A command is accepted once, and only in its own commit. *)
AcceptedOnce ==
    \A c \in Commands :
       /\ pc[c] = "new" \/ InUnit(c) => c \notin Accepted
       /\ pc[c] = "delivering" => c \in Accepted

StoredInv ==
    /\ Types /\ HoldsLock /\ OldIsFirst /\ ResultIsNext /\ AcceptedOnce /\ StoredIsReplay

(* The reactions before the next one are settled. *)
SettledSoFar ==
    \A c \in Commands : \A i \in 1..Reactions[c] : i < next[c] => fate[c][i] # "none"

ReactionInv == StoredInv /\ ReactionTypes /\ SettledSoFar /\ ReactionsSettled

(* A world replayed without the sagas, beside the one replayed with them. *)
Follows(w, v) == Shows(w.done, v) /\ (w.live => v.live)

(* The steps after r's snapshot, replayed on it without the sagas. *)
Shown(r) ==
    Replay([done |-> view[r].done, live |-> FALSE],
           SubSeq(journal, view[r].at + 1, Len(journal)))

(* What an open read will replay on its snapshot lacks only legs of sagas. *)
TailReplays ==
    \A r \in Reads : pc[r] = "reading" =>
       view[r].at <= Len(journal) /\ since[r] <= Len(journal) /\ Follows(Shown(r), World)

(* An open read has not been answered. *)
OpenUnanswered == \A r \in Reads : pc[r] \in {"new", "reading"} => answer[r] # "done"

ReadInv == StoredInv /\ ReadTypes /\ OpenUnanswered /\ TailReplays /\ ReadsCommitted

----------------------------------------------------------------------------
(* The kernel leaves a world. *)
LEMMA ApplyTypes ==
    ASSUME NEW w \in WorldType, NEW c \in Steps
    PROVE  Apply(w, c) \in WorldType
BY DEF Apply, WorldType

(* What a unit loads, by whichever way, is the world of the whole journal. *)
LEMMA LoadedIsWorld ==
    ASSUME Types, OldIsFirst, StoredIsReplay
    PROVE  Loaded = World
<1>1. CASE snapshot.at > 0 /\ snapshot.backfilled
  <2>1. SubSeq(journal, snapshot.at + 1, Len(journal)) = <<>>
    BY <1>1 DEF Types, StoredIsReplay
  <2>2. [done |-> snapshot.done, live |-> sagas] = World
    BY <1>1 DEF StoredIsReplay, World
  <2>3. Loaded = Replay(World, <<>>)
    BY <1>1, <2>1, <2>2 DEF Loaded
  <2> QED BY <2>3, ReplayNothing
<1>2. CASE ~(snapshot.at > 0 /\ snapshot.backfilled)
  <2>1. sagas = FALSE
    BY <1>2 DEF OldIsFirst, Types
  <2> QED BY <1>2, <2>1 DEF Loaded, World, EmptyWorld
<1> QED BY <1>1, <1>2

(* What a step of command c that stores nothing does, as far as the store's  *)
(* invariant can tell.                                                       *)
Unstored(c) ==
    /\ UNCHANGED stored
    /\ \A d \in Requests \ {c} : pc'[d] = pc[d]
    /\ \A d \in Commands \ {c} : result'[d] = result[d]
    /\ lock' = lock \/ (lock = None /\ lock' = c) \/ lock = c
    /\ Locked(c)' => lock' = c
    /\ pc'[c] = "accepted" => Accepts(World, c) /\ result'[c] = Apply(World, c)
    /\ pc'[c] = "new" \/ InUnit(c)' => pc[c] = "new" \/ InUnit(c)
    /\ pc'[c] = "delivering" => pc[c] = "delivering"

(* A step that stores command c. *)
Stores(c) ==
    /\ pc[c] = "accepted" /\ Store(c)
    /\ \A d \in Requests \ {c} : pc'[d] = pc[d]
    /\ pc'[c] \in {"delivering", "over"}

(* A step no command's unit takes: a read's, or a process's death. *)
Aside ==
    /\ UNCHANGED <<stored, result>>
    /\ \A c \in Commands :
          /\ pc'[c] = pc[c] \/ pc'[c] = "dead"
          /\ Locked(c)' /\ lock = c => lock' = c

(* The end of a unit touches its own command, its process's connection and, *)
(* if it held it, the lock.                                                 *)
LEMMA EndUnitLeaves ==
    ASSUME Types, NEW c \in Commands, EndUnit(c)
    PROVE  /\ \A d \in Commands \ {c} : result'[d] = result[d]
           /\ lock' = lock \/ lock = c
           /\ lock' \in Commands \cup {None}
           /\ result' \in [Commands -> WorldType]
<1>1. EmptyWorld \in WorldType
  BY DEF EmptyWorld, WorldType
<1> QED BY <1>1 DEF EndUnit, Types

(* Every step stores a command, or leaves the store alone. *)
LEMMA StepsOf ==
    ASSUME StoredInv, Next
    PROVE  /\ pc' \in [Requests -> Pcs] /\ lock' \in Commands \cup {None}
           /\ result' \in [Commands -> WorldType]
           /\ (\E c \in Commands : Unstored(c) \/ Stores(c)) \/ Aside
<1> USE DEF Locked, InUnit, Pcs
<1> DEFINE Good == /\ pc' \in [Requests -> Pcs] /\ lock' \in Commands \cup {None}
                   /\ result' \in [Commands -> WorldType]
<1>t. Types /\ Loaded = World
  BY LoadedIsWorld DEF StoredInv
<1>c. \A c \in Commands : c \in Requests /\ c # None
  BY HostAssumption DEF Requests
<1>1. ASSUME NEW c \in Commands, Begin(c) PROVE Good /\ Unstored(c)
  BY <1>1, <1>t, <1>c DEF Begin, Goto, Types, Unstored, stored
<1>2. ASSUME NEW c \in Commands, NEW preview \in BOOLEAN, Run(c, preview) PROVE Good /\ Unstored(c)
  <2>1. World \in WorldType /\ Apply(World, c) \in WorldType
    BY <1>t, ApplyTypes DEF Types, Steps
  <2>2. result' = [result EXCEPT ![c] = IF Accepts(World, c) THEN Apply(World, c) ELSE World]
    BY <1>2, <1>t DEF Run
  <2>3. result' \in [Commands -> WorldType] /\ \A d \in Commands \ {c} : result'[d] = result[d]
    BY <1>t, <2>1, <2>2 DEF Types
  <2>4. /\ pc'[c] \in {"role", "preview", "accepted", "refused"}
        /\ pc'[c] = "accepted" => Accepts(World, c)
        /\ pc' \in [Requests -> Pcs] /\ \A d \in Requests \ {c} : pc'[d] = pc[d]
    BY <1>2, <1>t, <1>c DEF Run, Goto, Types
  <2>5. pc'[c] = "accepted" => result'[c] = Apply(World, c)
    BY <1>t, <2>2, <2>4 DEF Types
  <2>6. lock = None /\ lock' = c /\ pc[c] = "begun" /\ UNCHANGED stored
    BY <1>2 DEF Run, TakeLock
  <2> QED BY <2>3, <2>4, <2>5, <2>6 DEF Unstored
<1>3. ASSUME NEW c \in Commands, Commit(c) PROVE Good /\ Stores(c)
  <2>1. EndUnit(c) /\ pc' = [pc EXCEPT ![c] = "delivering"] /\ pc[c] = "accepted" /\ Store(c)
    BY <1>3 DEF Commit, Goto
  <2>2. pc' \in [Requests -> Pcs] /\ \A d \in Requests \ {c} : pc'[d] = pc[d]
    BY <1>t, <1>c, <2>1 DEF Types
  <2> QED BY <1>t, <1>c, <2>1, <2>2, EndUnitLeaves DEF Stores, Types
<1>4. ASSUME NEW c \in Commands, CommitUnanswered(c) PROVE Good /\ (Stores(c) \/ Unstored(c))
  <2>1. /\ EndUnit(c) /\ pc' = [pc EXCEPT ![c] = "over"] /\ pc[c] = "accepted"
        /\ Store(c) \/ UNCHANGED stored
    BY <1>4 DEF CommitUnanswered, Goto, Tell
  <2>2. pc' \in [Requests -> Pcs] /\ pc'[c] = "over" /\ \A d \in Requests \ {c} : pc'[d] = pc[d]
    BY <1>t, <1>c, <2>1 DEF Types
  <2> QED BY <1>t, <2>1, <2>2, EndUnitLeaves DEF Stores, Unstored
<1>5. ASSUME NEW c \in Commands, Rollback(c) \/ RunAgain(c) \/ Fail(c) PROVE Good /\ Unstored(c)
  <2>1. /\ EndUnit(c) /\ InUnit(c) /\ UNCHANGED stored
        /\ pc' = [pc EXCEPT ![c] = "over"] \/ pc' = [pc EXCEPT ![c] = "new"]
    BY <1>5 DEF Rollback, RunAgain, Fail, Goto, Tell
  <2>2. pc' \in [Requests -> Pcs] /\ pc'[c] \in {"new", "over"} /\ \A d \in Requests \ {c} : pc'[d] = pc[d]
    BY <1>t, <1>c, <2>1 DEF Types
  <2> QED BY <1>t, <2>1, <2>2, EndUnitLeaves DEF Unstored
<1>6. ASSUME NEW c \in Commands, Deliver(c) \/ DeliverFaults(c) \/ DeadLetter(c)
      PROVE  Good /\ Unstored(c)
  <2>1. UNCHANGED <<stored, lock, pc, result>> /\ pc[c] = "delivering"
    BY <1>6 DEF Deliver, DeliverFaults, DeadLetter, Delivering
  <2> QED BY <1>t, <2>1 DEF Unstored, Types, StoredInv
<1>7. ASSUME NEW c \in Commands, DeadLetterFails(c) \/ Finish(c) PROVE Good /\ Unstored(c)
  <2>1. UNCHANGED <<stored, lock, result>> /\ pc' = [pc EXCEPT ![c] = "over"]
    BY <1>7 DEF DeadLetterFails, Finish, Goto, Tell
  <2> QED BY <1>t, <1>c, <2>1 DEF Unstored, Types
<1>8. ASSUME NEW r \in Reads, ReadSnapshot(r) \/ ReadSteps(r) PROVE Good /\ Aside
  <2>1. /\ UNCHANGED <<stored, lock, result>>
        /\ pc' = [pc EXCEPT ![r] = "reading"] \/ pc' = [pc EXCEPT ![r] = "over"]
    BY <1>8 DEF ReadSnapshot, ReadSteps, Goto, Tell
  <2>2. r \in Requests /\ r \notin Commands
    BY HostAssumption DEF Requests
  <2> QED BY <1>t, <1>c, <2>1, <2>2 DEF Aside, Types
<1>9. ASSUME NEW h \in Hosts, Crash(h) PROVE Good /\ Aside
  <2>1. pc' \in [Requests -> Pcs] /\ \A r \in Requests :
           /\ pc'[r] = pc[r] \/ pc'[r] = "dead"
           /\ HostOf[r] = h => pc'[r] \in {"new", "over", "dead"}
    BY <1>9, <1>t DEF Crash, Types
  <2>2. lock' \in Commands \cup {None} /\ UNCHANGED <<stored, result>>
    BY <1>9, <1>t DEF Crash, Types
  <2>3. lock' = lock \/ (lock # None /\ HostOf[lock] = h)
    BY <1>9 DEF Crash
  <2> QED BY <1>t, <1>c, <2>1, <2>2, <2>3 DEF Aside, Types
<1> QED BY <1>1, <1>2, <1>3, <1>4, <1>5, <1>6, <1>7, <1>8, <1>9 DEF Next, GoesOn

(* A stored command is the next step of the domain, and accepted. *)
LEMMA StoreAdds ==
    ASSUME StoredInv, NEW c \in Commands, Stores(c)
    PROVE  /\ journal' \in Seq(Steps) /\ Len(journal') = Len(journal) + 1
           /\ journal' = Append(journal, c)
           /\ World' = Apply(World, c) /\ World' \in WorldType
           /\ Accepted' = Accepted \cup {c} /\ c \notin Accepted
           /\ Accepts(World, c) /\ result[c] = Apply(World, c)
<1>1. journal \in Seq(Steps) /\ World \in WorldType /\ c \in Steps /\ Len(journal) \in Nat
  BY DEF StoredInv, Types, Steps
<1>2. journal' = Append(journal, c)
  BY DEF Stores, Store
<1>3. World' = Apply(World, c)
  BY <1>1, <1>2, ReplayAppend DEF World
<1>4. /\ journal' \in Seq(Steps) /\ Len(journal') = Len(journal) + 1
      /\ \A i \in 1..Len(journal) : journal'[i] = journal[i]
      /\ journal'[Len(journal) + 1] = c
  BY <1>1, <1>2
<1>5. Accepted' = Accepted \cup {c}
  <2>1. \A i \in 1..Len(journal') : i \in 1..Len(journal) \/ i = Len(journal) + 1
    BY <1>1, <1>4
  <2>2. Len(journal) + 1 \in 1..Len(journal') /\ \A i \in 1..Len(journal) : i \in 1..Len(journal')
    BY <1>1, <1>4
  <2> QED BY <1>4, <2>1, <2>2 DEF Accepted
<1>6. c \notin Accepted /\ Accepts(World, c) /\ result[c] = Apply(World, c)
  BY DEF StoredInv, AcceptedOnce, ResultIsNext, Stores, InUnit, Locked
<1> QED BY <1>1, <1>2, <1>3, <1>4, <1>5, <1>6, ApplyTypes

(* What reads of the store see when it is left alone. *)
LEMMA StoreLeft ==
    ASSUME UNCHANGED stored
    PROVE  /\ World' = World /\ Accepted' = Accepted
           /\ UNCHANGED <<journal, snapshot, sagas>>
           /\ OldIsFirst => OldIsFirst'
           /\ StoredIsReplay => StoredIsReplay'
BY DEF stored, World, Accepted, OldIsFirst, StoredIsReplay

(* Every step keeps the invariant about the store. *)
LEMMA StoredInvKept == StoredInv /\ [Next]_vars => StoredInv'
<1> SUFFICES ASSUME StoredInv, [Next]_vars PROVE StoredInv'
  OBVIOUS
<1>c. \A c \in Commands : c \in Requests /\ c # None
  BY HostAssumption DEF Requests
<1>1. CASE UNCHANGED vars
  <2>1. UNCHANGED stored /\ UNCHANGED <<lock, pc, result>>
    BY <1>1 DEF vars, stored
  <2> QED BY <2>1, StoreLeft DEF StoredInv, Types, HoldsLock, ResultIsNext, AcceptedOnce,
             Locked, InUnit
<1>2. CASE Next
  <2>t. /\ pc' \in [Requests -> Pcs] /\ lock' \in Commands \cup {None}
        /\ result' \in [Commands -> WorldType]
    BY <1>2, StepsOf
  <2>1. ASSUME NEW c \in Commands, Unstored(c) PROVE StoredInv'
    <3>1. UNCHANGED stored
      BY <2>1 DEF Unstored
    <3>2. Types' /\ OldIsFirst' /\ StoredIsReplay'
      BY <2>t, <3>1, StoreLeft DEF StoredInv, Types
    <3>3. HoldsLock'
      BY <1>c, <2>1 DEF StoredInv, HoldsLock, Unstored, Locked
    <3>4. ResultIsNext'
      <4>1. World' = World
        BY <3>1, StoreLeft
      <4>2. ASSUME NEW d \in Commands, pc'[d] = "accepted"
            PROVE  Accepts(World, d) /\ result'[d] = Apply(World, d)
        BY <1>c, <2>1, <4>2 DEF StoredInv, ResultIsNext, Unstored
      <4> QED BY <4>1, <4>2 DEF ResultIsNext
    <3>5. AcceptedOnce'
      <4>1. Accepted' = Accepted
        BY <3>1, StoreLeft
      <4> QED BY <1>c, <2>1, <4>1 DEF StoredInv, AcceptedOnce, Unstored, InUnit, Locked
    <3> QED BY <3>2, <3>3, <3>4, <3>5 DEF StoredInv
  <2>2. ASSUME NEW c \in Commands, Stores(c) PROVE StoredInv'
    <3>1. /\ journal' \in Seq(Steps) /\ Len(journal') = Len(journal) + 1
          /\ World' = Apply(World, c) /\ World' \in WorldType
          /\ Accepted' = Accepted \cup {c}
          /\ result[c] = Apply(World, c)
      BY <2>2, StoreAdds
    <3>2. /\ snapshot' = [at |-> Len(journal) + 1, done |-> result[c].done, backfilled |-> TRUE]
          /\ sagas' = result[c].live
      BY <2>2 DEF Stores, Store
    <3>3. Len(journal) \in Nat /\ result[c] \in WorldType
      BY DEF StoredInv, Types
    <3>4. snapshot' \in Snapshot /\ sagas' \in BOOLEAN
      BY <3>2, <3>3 DEF Snapshot, WorldType
    <3>5. Types'
      BY <2>t, <3>1, <3>4 DEF Types
    <3>6. \A d \in Commands : ~Locked(d)'
      <4>1. lock = c
        BY <2>2 DEF StoredInv, HoldsLock, Locked, Stores
      <4>2. \A d \in Commands \ {c} : ~Locked(d) /\ pc'[d] = pc[d]
        BY <1>c, <2>2, <4>1 DEF StoredInv, HoldsLock, Stores
      <4> QED BY <2>2, <4>2 DEF Locked, Stores
    <3>7. HoldsLock' /\ ResultIsNext'
      BY <3>6 DEF HoldsLock, ResultIsNext, Locked
    <3>8. OldIsFirst'
      BY <3>2, <3>3 DEF OldIsFirst
    <3>9. AcceptedOnce'
      BY <1>c, <2>2, <3>1 DEF StoredInv, AcceptedOnce, Stores, InUnit, Locked
    <3>10. StoredIsReplay'
      <4>1. [done |-> result[c].done, live |-> result[c].live] = result[c]
        BY <3>1 DEF Apply
      <4>2. [done |-> snapshot'.done, live |-> sagas'] = World'
        BY <3>1, <3>2, <4>1
      <4> QED BY <3>1, <3>2, <4>2 DEF StoredIsReplay, World
    <3> QED BY <3>5, <3>7, <3>8, <3>9, <3>10 DEF StoredInv
  <2>3. ASSUME Aside PROVE StoredInv'
    <3>1. UNCHANGED stored /\ result' = result
      BY <2>3 DEF Aside
    <3>2. Types' /\ OldIsFirst' /\ StoredIsReplay' /\ World' = World /\ Accepted' = Accepted
      BY <2>t, <3>1, StoreLeft DEF StoredInv, Types
    <3>3. HoldsLock' /\ ResultIsNext' /\ AcceptedOnce'
      BY <2>3, <3>1, <3>2 DEF StoredInv, HoldsLock, ResultIsNext, AcceptedOnce, Aside, InUnit, Locked
    <3> QED BY <3>2, <3>3 DEF StoredInv
  <2> QED BY <1>2, <2>1, <2>2, <2>3, StepsOf
<1> QED BY <1>1, <1>2

(* A deployment starts from the empty world or from its old step's, with no  *)
(* command accepted.                                                         *)
LEMMA FirstWorld ==
    ASSUME Init
    PROVE  World \in {EmptyWorld, Apply(EmptyWorld, Old)} /\ journal \in Seq(Steps) /\ Accepted = {}
<1>1. CASE journal = <<>>
  BY <1>1, ReplayNothing DEF World, Accepted
<1>2. CASE journal = <<Old>>
  <2>1. Old \in Steps /\ <<>> \in Seq(Steps) /\ journal = Append(<<>>, Old)
    BY <1>2 DEF Steps
  <2>2. World = Apply(Replay(EmptyWorld, <<>>), Old)
    BY <2>1, ReplayAppend DEF World
  <2>3. Accepted = {}
    BY <1>2, HostAssumption DEF Accepted, Requests
  <2> QED BY <2>1, <2>2, <2>3, ReplayNothing
<1> QED BY <1>1, <1>2 DEF Init

(* The store's invariant holds in every deployment considered. *)
LEMMA InitStoredInv == Init => StoredInv
<1> SUFFICES ASSUME Init PROVE StoredInv
  OBVIOUS
<1>1. EmptyWorld \in WorldType /\ Apply(EmptyWorld, Old) \in WorldType
  <2>1. EmptyWorld \in WorldType /\ Old \in Steps
    BY DEF EmptyWorld, WorldType, Steps
  <2> QED BY <2>1, ApplyTypes
<1>2. World \in {EmptyWorld, Apply(EmptyWorld, Old)} /\ journal \in Seq(Steps) /\ Accepted = {}
  BY FirstWorld
<1>3. snapshot \in Snapshot /\ (snapshot.at > 0 => ~snapshot.backfilled) /\ OldIsFirst
  <2>1. NoSnapshot \in Snapshot /\ NoSnapshot.at = 0
    BY DEF NoSnapshot, Snapshot
  <2>2. [at |-> 1, done |-> Apply(EmptyWorld, Old).done, backfilled |-> FALSE] \in Snapshot
    BY <1>1 DEF Snapshot, WorldType
  <2>3. snapshot \in {NoSnapshot, [at |-> 1, done |-> Apply(EmptyWorld, Old).done, backfilled |-> FALSE]}
    BY DEF Init
  <2>4. snapshot.at > 0 => ~snapshot.backfilled
    BY <2>1, <2>3
  <2>5. OldIsFirst
    BY DEF Init, OldIsFirst
  <2> QED BY <2>1, <2>2, <2>3, <2>4, <2>5
<1>4. \A c \in Commands : pc[c] = "new"
  BY DEF Init, Requests
<1>5. Types
  BY <1>1, <1>2, <1>3 DEF Init, Types, Pcs
<1>6. StoredIsReplay
  BY <1>3 DEF StoredIsReplay
<1> QED BY <1>2, <1>3, <1>4, <1>5, <1>6 DEF StoredInv, HoldsLock, ResultIsNext, AcceptedOnce, Locked

(* Between two commands the snapshot and the saga rows are what replaying    *)
(* the journal gives, whichever process dies at whichever step, and in a     *)
(* deployment whose snapshot is older than saga rows (run, load, commit).    *)
THEOREM StoreIsAlwaysReplay == Spec => []StoredIsReplay
<1>1. StoredInv => StoredIsReplay
  BY DEF StoredInv
<1> QED BY <1>1, InitStoredInv, StoredInvKept, PTL DEF Spec

(* The processes together implement a domain that accepts commands one at a  *)
(* time, each judged on the world every earlier one left (dispatch.rs, run). *)
THEOREM ProcessesAreOneDomain == Spec => OneDomain
<1>1. Init => Domain!Init
  <2> SUFFICES ASSUME Init PROVE Domain!Init
    OBVIOUS
  <2>1. Loaded = World
    BY InitStoredInv, LoadedIsWorld DEF StoredInv
  <2> QED BY <2>1, FirstWorld DEF Domain!Init
<1>l. StoredInv => Loaded = World
  BY LoadedIsWorld DEF StoredInv
<1>2. StoredInv /\ Loaded = World /\ (Loaded = World)' /\ [Next]_vars => [Domain!Next]_<<Loaded, Accepted>>
  <2> SUFFICES ASSUME StoredInv, Loaded = World, (Loaded = World)', [Next]_vars
               PROVE  [Domain!Next]_<<Loaded, Accepted>>
    OBVIOUS
  <2>1. CASE UNCHANGED stored
    BY <2>1, StoreLeft
  <2>2. ASSUME NEW c \in Commands, Stores(c) PROVE Domain!Next
    <3>1. /\ World' = Apply(World, c) /\ Accepted' = Accepted \cup {c}
          /\ c \notin Accepted /\ Accepts(World, c)
      BY <2>2, StoreAdds
    <3>2. Domain!Accept(c)
      BY <3>1 DEF Domain!Accept
    <3> QED BY <3>2 DEF Domain!Next
  <2>3. CASE UNCHANGED vars
    BY <2>1, <2>3 DEF vars, stored
  <2>4. CASE Next
    BY <2>1, <2>2, <2>4, StepsOf DEF Unstored, Aside
  <2> QED BY <2>3, <2>4
<1> QED BY <1>1, <1>l, <1>2, InitStoredInv, StoredInvKept, PTL DEF Spec, OneDomain, Domain!Spec

----------------------------------------------------------------------------
(* What a step does to the reactions of command c. *)
Settles(c) ==
    /\ pc[c] = "delivering" /\ next[c] <= Reactions[c]
    /\ \E how \in {"delivered", "refused", "dead"} :
          /\ fate' = [fate EXCEPT ![c][next[c]] = how]
          /\ next' = [next EXCEPT ![c] = @ + 1]
    /\ UNCHANGED <<answer, stored>>

Answers(r) ==
    /\ UNCHANGED <<fate, next>>
    /\ \E told : /\ answer' = [answer EXCEPT ![r] = told]
                 /\ r \in Commands /\ told \in {"done", "undelivered"} => next[r] > Reactions[r]

(* Every step settles a reaction, answers a request or does neither; and     *)
(* what is accepted stays accepted.                                          *)
LEMMA ReactionSteps ==
    ASSUME StoredInv, Next
    PROVE  /\ Accepted \subseteq Accepted'
           /\ \/ UNCHANGED <<fate, next, answer>>
              \/ \E c \in Commands : Settles(c)
              \/ \E r \in Requests : Answers(r)
<1>1. Accepted \subseteq Accepted'
  BY StepsOf, StoreAdds, StoreLeft DEF Unstored, Aside
<1>c. \A c \in Commands : c \in Requests /\ c \notin Reads
  BY HostAssumption DEF Requests
<1>2. ASSUME NEW c \in Commands, Deliver(c) \/ DeadLetter(c) PROVE Settles(c)
  BY <1>2 DEF Deliver, DeadLetter, Delivering, Settle, Settles
<1>3. ASSUME NEW c \in Commands,
             CommitUnanswered(c) \/ Rollback(c) \/ Fail(c) \/ DeadLetterFails(c)
      PROVE  Answers(c)
  <2>1. \E told : answer' = [answer EXCEPT ![c] = told] /\ told \notin {"done", "undelivered"}
    BY <1>3 DEF CommitUnanswered, Rollback, Fail, DeadLetterFails, Tell
  <2>2. UNCHANGED <<fate, next>>
    BY <1>3 DEF CommitUnanswered, Rollback, Fail, DeadLetterFails, reaction
  <2> QED BY <2>1, <2>2 DEF Answers
<1>4. ASSUME NEW c \in Commands, Finish(c) PROVE Answers(c)
  BY <1>4 DEF Finish, Tell, Answers, reaction
<1>5. ASSUME NEW c \in Commands,
             Begin(c) \/ (\E preview \in BOOLEAN : Run(c, preview)) \/ Commit(c) \/ RunAgain(c)
               \/ DeliverFaults(c)
      PROVE  UNCHANGED <<fate, next, answer>>
  BY <1>5 DEF Begin, Run, Commit, RunAgain, DeliverFaults, reaction
<1>6. ASSUME NEW r \in Reads, ReadSteps(r) PROVE Answers(r)
  BY <1>6, <1>c DEF ReadSteps, Tell, Answers, reaction
<1>7. ASSUME NEW r \in Reads, ReadSnapshot(r) PROVE UNCHANGED <<fate, next, answer>>
  BY <1>7 DEF ReadSnapshot, reaction
<1>8. ASSUME NEW h \in Hosts, Crash(h) PROVE UNCHANGED <<fate, next, answer>>
  BY <1>8 DEF Crash, reaction
<1>r. \A r \in Reads : r \in Requests
  BY DEF Requests
<1> QED BY <1>1, <1>2, <1>3, <1>4, <1>5, <1>6, <1>7, <1>8, <1>c, <1>r DEF Next, GoesOn

(* Every step keeps the invariant about reactions. *)
LEMMA ReactionInvKept == ReactionInv /\ [Next]_vars => ReactionInv'
<1> SUFFICES ASSUME ReactionInv, [Next]_vars
             PROVE  (ReactionTypes /\ SettledSoFar /\ ReactionsSettled)'
  BY StoredInvKept DEF ReactionInv
<1>f. StoredInv /\ ReactionTypes /\ SettledSoFar /\ ReactionsSettled
  BY DEF ReactionInv
<1>a. Accepted \subseteq Accepted'
  <2>1. CASE UNCHANGED vars
    BY <2>1, StoreLeft DEF vars, stored
  <2> QED BY <1>f, <2>1, ReactionSteps
<1>1. CASE UNCHANGED <<fate, next, answer>>
  BY <1>1, <1>f, <1>a DEF ReactionTypes, SettledSoFar, ReactionsSettled
<1>2. ASSUME NEW c \in Commands, Settles(c)
      PROVE  (ReactionTypes /\ SettledSoFar /\ ReactionsSettled)'
  <2>1. PICK how \in {"delivered", "refused", "dead"} :
           /\ fate' = [fate EXCEPT ![c][next[c]] = how]
           /\ next' = [next EXCEPT ![c] = @ + 1]
    BY <1>2 DEF Settles
  <2>2. /\ next[c] \in Nat \ {0} /\ next[c] \in 1..Reactions[c] /\ Reactions[c] \in Nat
        /\ fate[c] \in [1..Reactions[c] -> {"none", "delivered", "refused", "dead"}]
    BY <1>2, <1>f, HostAssumption DEF Settles, ReactionTypes
  <2>3. /\ fate'[c] = [fate[c] EXCEPT ![next[c]] = how]
        /\ \A d \in Commands \ {c} : fate'[d] = fate[d]
        /\ fate' = [d \in Commands |-> fate'[d]]
    BY <1>f, <2>1 DEF ReactionTypes
  <2>4. /\ next'[c] = next[c] + 1 /\ \A d \in Commands \ {c} : next'[d] = next[d]
        /\ next' \in [Commands -> Nat \ {0}]
    BY <1>f, <2>1, <2>2 DEF ReactionTypes
  <2>5. /\ fate'[c] \in [1..Reactions[c] -> {"none", "delivered", "refused", "dead"}]
        /\ fate'[c][next[c]] # "none"
        /\ \A i \in 1..Reactions[c] : i # next[c] => fate'[c][i] = fate[c][i]
    BY <2>2, <2>3
  <2>6. ReactionTypes'
    BY <1>2, <1>f, <2>3, <2>4, <2>5 DEF ReactionTypes, Settles
  <2>7. SettledSoFar'
    <3>1. ASSUME NEW i \in 1..Reactions[c], i < next'[c] PROVE fate'[c][i] # "none"
      BY <1>f, <2>2, <2>4, <2>5, <3>1 DEF SettledSoFar
    <3> QED BY <1>f, <2>3, <2>4, <3>1 DEF SettledSoFar
  <2>8. ReactionsSettled'
    <3>1. c \in Accepted
      BY <1>2, <1>f DEF StoredInv, AcceptedOnce, Settles
    <3>2. answer' = answer
      BY <1>2 DEF Settles
    <3>3. \A i \in 1..Reactions[c] : fate[c][i] # "none" => fate'[c][i] # "none"
      BY <2>5
    <3>4. ASSUME NEW d \in Commands
          PROVE  /\ (\E i \in 1..Reactions[d] : fate'[d][i] # "none") => d \in Accepted'
                 /\ answer[d] \in {"done", "undelivered"} =>
                       \A i \in 1..Reactions[d] : fate'[d][i] # "none"
      <4>1. CASE d = c
        BY <1>f, <1>a, <3>1, <3>3, <4>1 DEF ReactionsSettled
      <4>2. CASE d # c
        BY <1>f, <1>a, <2>3, <4>2 DEF ReactionsSettled
      <4> QED BY <4>1, <4>2
    <3> QED BY <3>2, <3>4 DEF ReactionsSettled
  <2> QED BY <2>6, <2>7, <2>8
<1>3. ASSUME NEW r \in Requests, Answers(r)
      PROVE  (ReactionTypes /\ SettledSoFar /\ ReactionsSettled)'
  <2>1. PICK told : /\ answer' = [answer EXCEPT ![r] = told]
                    /\ r \in Commands /\ told \in {"done", "undelivered"} => next[r] > Reactions[r]
    BY <1>3 DEF Answers
  <2>2. fate' = fate /\ next' = next
    BY <1>3 DEF Answers
  <2>3. ReactionTypes' /\ SettledSoFar'
    BY <1>f, <2>1, <2>2 DEF ReactionTypes, SettledSoFar
  <2>4. ASSUME NEW c \in Commands, answer'[c] \in {"done", "undelivered"}, NEW i \in 1..Reactions[c]
        PROVE  fate[c][i] # "none"
    <3>1. c \in Requests /\ next[c] \in Nat /\ Reactions[c] \in Nat
      BY <1>f, HostAssumption DEF Requests, ReactionTypes
    <3>2. CASE c = r
      BY <1>f, <2>1, <2>4, <3>1, <3>2 DEF ReactionTypes, SettledSoFar
    <3>3. CASE c # r
      BY <1>f, <2>1, <2>4, <3>1, <3>3 DEF ReactionTypes, ReactionsSettled
    <3> QED BY <3>2, <3>3
  <2>5. ReactionsSettled'
    BY <1>f, <1>a, <2>2, <2>4 DEF ReactionsSettled
  <2> QED BY <2>3, <2>5
<1> QED BY <1>f, <1>1, <1>2, <1>3, ReactionSteps DEF vars

(* A command's reactions go out only once it is kept, and by the time its    *)
(* caller is answered every one of them is delivered, refused or             *)
(* dead-lettered (run, deliver_with_retry).                                  *)
THEOREM ReactionsAreSettled == Spec => []ReactionsSettled
<1>1. Init => ReactionInv
  <2> SUFFICES ASSUME Init PROVE ReactionTypes /\ SettledSoFar /\ ReactionsSettled
    BY InitStoredInv DEF ReactionInv
  <2>1. /\ next = [c \in Commands |-> 1]
        /\ fate = [c \in Commands |-> [i \in 1..Reactions[c] |-> "none"]]
        /\ answer = [r \in Requests |-> "none"]
    BY DEF Init
  <2>2. \A c \in Commands : Reactions[c] \in Nat /\ c \in Requests
    BY HostAssumption DEF Requests
  <2> QED BY <2>1, <2>2 DEF ReactionTypes, SettledSoFar, ReactionsSettled
<1>2. ReactionInv => ReactionsSettled
  BY DEF ReactionInv
<1> QED BY <1>1, <1>2, ReactionInvKept, PTL DEF Spec

----------------------------------------------------------------------------
(* A step taken after a snapshot is the last of the steps to replay on it,   *)
(* and no step before it moves.                                              *)
LEMMA TailGrows ==
    ASSUME NEW S, NEW steps \in Seq(S), NEW c \in S, NEW k \in Nat, k <= Len(steps)
    PROVE  /\ SubSeq(steps, k + 1, Len(steps)) \in Seq(S)
           /\ SubSeq(Append(steps, c), k + 1, Len(steps) + 1)
                = Append(SubSeq(steps, k + 1, Len(steps)), c)
           /\ SubSeq(Append(steps, c), 1, k) = SubSeq(steps, 1, k)
<1> DEFINE n == Len(steps)
           longer == Append(steps, c)
           tail == SubSeq(steps, k + 1, n)
           left == SubSeq(longer, k + 1, n + 1)
           right == Append(tail, c)
<1>1. n \in Nat /\ longer \in Seq(S) /\ Len(longer) = n + 1 /\ longer[n + 1] = c
      /\ \A i \in 1..n : longer[i] = steps[i]
  OBVIOUS
<1>2. tail \in Seq(S) /\ Len(tail) = n - k /\ \A i \in 1..(n - k) : tail[i] = steps[k + i]
  BY <1>1
<1> HIDE DEF longer, tail
<1>3. left \in Seq(S) /\ Len(left) = n - k + 1 /\ \A i \in 1..(n - k + 1) : left[i] = longer[k + i]
  BY <1>1
<1>4. right \in Seq(S) /\ Len(right) = n - k + 1 /\ right[n - k + 1] = c
      /\ \A i \in 1..(n - k) : right[i] = tail[i]
  BY <1>1, <1>2
<1>5. \A i \in 1..(n - k + 1) : left[i] = right[i]
  <2> SUFFICES ASSUME NEW i \in 1..(n - k + 1) PROVE left[i] = right[i]
    OBVIOUS
  <2> HIDE DEF left, right
  <2>1. CASE i = n - k + 1
    BY <1>1, <1>3, <1>4, <2>1
  <2>2. CASE i \in 1..(n - k)
    <3>1. k + i \in 1..n
      BY <1>1, <2>2
    <3> QED BY <1>1, <1>2, <1>3, <1>4, <2>2, <3>1
  <2> QED BY <1>1, <2>1, <2>2
<1>6. left = right
  <2> HIDE DEF left, right
  <2> QED BY <1>3, <1>4, <1>5
<1>7. SubSeq(longer, 1, k) = SubSeq(steps, 1, k)
  BY <1>1
<1> QED BY <1>2, <1>6, <1>7 DEF longer, tail

(* A step leaves two such worlds as they were beside each other. *)
LEMMA ApplyFollows ==
    ASSUME NEW w, NEW v, NEW c, Follows(w, v)
    PROVE  Follows(Apply(w, c), Apply(v, c))
BY DEF Follows, Shows, Apply

(* What a step does to the reads. *)
Looks(r) ==
    /\ UNCHANGED <<stored, answer>> /\ view' = [view EXCEPT ![r] = snapshot]
    /\ since' = [since EXCEPT ![r] = Len(journal)]
    /\ pc[r] = "new"
    /\ \A q \in Reads \ {r} : pc'[q] = pc[q]

Tells(r) ==
    /\ UNCHANGED <<stored, since>> /\ pc[r] = "reading" /\ pc'[r] = "over"
    /\ view' = [view EXCEPT ![r].done = Shown(r).done]
    /\ answer' = [answer EXCEPT ![r] = "done"]
    /\ \A q \in Reads \ {r} : pc'[q] = pc[q]

NoRead ==
    /\ UNCHANGED seen
    /\ \A r \in Reads : (pc'[r] = pc[r] \/ pc'[r] = "dead") /\ answer'[r] = answer[r]

(* Every step is a read's or no read's. *)
LEMMA StepsOfReads ==
    ASSUME StoredInv, ReadTypes, Next
    PROVE  DOMAIN answer' = Requests /\ ((\E r \in Reads : Looks(r) \/ Tells(r)) \/ NoRead)
<1> USE DEF seen
<1> DEFINE Answer == DOMAIN answer' = Requests
           Read == (\E r \in Reads : Looks(r) \/ Tells(r)) \/ NoRead
<1>t. pc \in [Requests -> Pcs] /\ DOMAIN answer = Requests /\ view \in [Reads -> Snapshot]
  BY DEF StoredInv, Types, ReadTypes
<1>c. /\ \A c \in Commands : c \in Requests /\ c \notin Reads
      /\ \A r \in Reads : r \in Requests
  BY HostAssumption DEF Requests
<1>1. ASSUME NEW c \in Commands,
             Begin(c) \/ (\E preview \in BOOLEAN : Run(c, preview)) \/ Commit(c) \/ RunAgain(c)
      PROVE  Answer /\ Read
  <2>1. UNCHANGED <<answer, view, since>> /\ \E step : pc' = [pc EXCEPT ![c] = step]
    BY <1>1 DEF Begin, Run, Commit, RunAgain, Goto
  <2>2. \A q \in Requests \ {c} : pc'[q] = pc[q]
    BY <1>t, <1>c, <2>1
  <2> QED BY <1>t, <1>c, <2>1, <2>2 DEF NoRead
<1>2. ASSUME NEW c \in Commands,
             CommitUnanswered(c) \/ Rollback(c) \/ Fail(c) \/ DeadLetterFails(c) \/ Finish(c)
      PROVE  Answer /\ Read
  <2>1. /\ UNCHANGED <<view, since>> /\ pc' = [pc EXCEPT ![c] = "over"]
        /\ \E told : answer' = [answer EXCEPT ![c] = told]
    BY <1>2 DEF CommitUnanswered, Rollback, Fail, DeadLetterFails, Finish, Goto, Tell
  <2>2. \A q \in Requests \ {c} : pc'[q] = pc[q]
    BY <1>t, <1>c, <2>1
  <2>3. DOMAIN answer' = Requests /\ \A r \in Reads : answer'[r] = answer[r]
    BY <1>t, <1>c, <2>1
  <2> QED BY <1>c, <2>1, <2>2, <2>3 DEF NoRead
<1>3. ASSUME NEW c \in Commands, Deliver(c) \/ DeliverFaults(c) \/ DeadLetter(c)
      PROVE  Answer /\ Read
  <2>1. UNCHANGED <<pc, answer, view, since>>
    BY <1>3 DEF Deliver, DeliverFaults, DeadLetter
  <2> QED BY <1>t, <2>1 DEF NoRead
<1>4. ASSUME NEW r \in Reads, ReadSnapshot(r) PROVE Answer /\ Read
  <2>1. \A q \in Requests \ {r} : pc'[q] = pc[q]
    BY <1>4, <1>t, <1>c DEF ReadSnapshot, Goto
  <2>2. Looks(r)
    BY <1>4, <1>c, <2>1 DEF ReadSnapshot, Looks
  <2> QED BY <1>4, <1>t, <2>2 DEF ReadSnapshot
<1>5. ASSUME NEW r \in Reads, ReadSteps(r) PROVE Answer /\ Read
  <2>1. pc[r] = "reading" /\ pc'[r] = "over" /\ \A q \in Requests \ {r} : pc'[q] = pc[q]
    BY <1>5, <1>t, <1>c DEF ReadSteps, Goto, Tell
  <2>2. Tells(r)
    BY <1>5, <1>c, <2>1 DEF ReadSteps, Tells, Tell, Shown
  <2>3. Answer
    BY <1>5, <1>t DEF ReadSteps, Tell
  <2> QED BY <2>2, <2>3
<1>6. ASSUME NEW h \in Hosts, Crash(h) PROVE Answer /\ Read
  <2>1. \A r \in Requests : pc'[r] = pc[r] \/ pc'[r] = "dead"
    BY <1>6, <1>t DEF Crash
  <2> QED BY <1>6, <1>t, <1>c, <2>1 DEF Crash, NoRead
<1> QED BY <1>1, <1>2, <1>3, <1>4, <1>5, <1>6 DEF Next, GoesOn

(* A snapshot just read and the steps after it lack only legs of sagas. *)
LEMMA SnapshotReplays ==
    ASSUME StoredInv
    PROVE  /\ snapshot.at <= Len(journal)
           /\ Follows(Replay([done |-> snapshot.done, live |-> FALSE],
                             SubSeq(journal, snapshot.at + 1, Len(journal))), World)
<1> DEFINE tail == SubSeq(journal, snapshot.at + 1, Len(journal))
           first == [done |-> snapshot.done, live |-> FALSE]
<1>1. /\ journal \in Seq(Steps) /\ Len(journal) \in Nat
      /\ Replay(first, <<>>) = first /\ first.done = snapshot.done /\ ~first.live
  BY ReplayNothing DEF StoredInv, Types
<1>2. CASE snapshot.at > 0 /\ snapshot.backfilled
  <2>1. snapshot.at = Len(journal) /\ [done |-> snapshot.done, live |-> sagas] = World
    BY <1>2 DEF StoredInv, StoredIsReplay, World
  <2>2. tail = <<>>
    BY <1>1, <2>1
  <2>3. snapshot.done = World.done
    BY <2>1
  <2>4. snapshot.at <= Len(journal)
    BY <1>1, <2>1
  <2> HIDE DEF tail, first
  <2>5. Follows(Replay(first, tail), World)
    BY <1>1, <2>2, <2>3 DEF Follows, Shows
  <2> QED BY <2>4, <2>5 DEF tail, first
<1>3. CASE snapshot = NoSnapshot
  <2>1. snapshot.at = 0 /\ first = EmptyWorld
    BY <1>3 DEF NoSnapshot, EmptyWorld
  <2>2. tail = journal
    BY <1>1, <2>1
  <2>3. snapshot.at <= Len(journal)
    BY <1>1, <2>1
  <2> HIDE DEF tail, first
  <2>4. Replay(first, tail) = World
    BY <2>1, <2>2 DEF World
  <2>5. Follows(Replay(first, tail), World)
    BY <2>4 DEF Follows, Shows
  <2> QED BY <2>3, <2>5 DEF tail, first
<1>4. CASE /\ journal = <<Old>>
           /\ snapshot = [at |-> 1, done |-> Apply(EmptyWorld, Old).done, backfilled |-> FALSE]
  <2>1. Len(journal) = 1 /\ tail = <<>>
    BY <1>4
  <2>2. World = Apply(EmptyWorld, Old)
    <3>1. Old \in Steps /\ <<>> \in Seq(Steps) /\ journal = Append(<<>>, Old)
      BY <1>4 DEF Steps
    <3>2. World = Apply(Replay(EmptyWorld, <<>>), Old)
      BY <3>1, ReplayAppend DEF World
    <3> QED BY <3>2, ReplayNothing
  <2>3. snapshot.at <= Len(journal) /\ snapshot.done = World.done
    BY <1>4, <2>1, <2>2
  <2> HIDE DEF tail, first
  <2>4. Follows(Replay(first, tail), World)
    BY <1>1, <2>1, <2>3 DEF Follows, Shows
  <2> QED BY <2>3, <2>4 DEF tail, first
<1> HIDE DEF tail, first
<1> QED BY <1>2, <1>3, <1>4 DEF StoredInv, OldIsFirst

(* A step stored while a read is open goes to what the read will show and to *)
(* the domain alike.                                                         *)
LEMMA TailFollows ==
    ASSUME ReadInv, NEW c \in Commands, Stores(c), view' = view,
           NEW r \in Reads, pc[r] = "reading"
    PROVE  view[r].at <= Len(journal') /\ Follows(Shown(r), World)'
<1> DEFINE first == [done |-> view[r].done, live |-> FALSE]
           k == view[r].at
           tail == SubSeq(journal, k + 1, Len(journal))
<1>1. /\ StoredInv /\ journal \in Seq(Steps) /\ Len(journal) \in Nat
      /\ c \in Steps /\ k \in Nat
  BY HostAssumption DEF ReadInv, ReadTypes, StoredInv, Types, Snapshot, Steps
<1>2. k <= Len(journal) /\ Follows(Replay(first, tail), World)
  BY DEF ReadInv, TailReplays, Shown
<1>3. /\ journal' = Append(journal, c) /\ Len(journal') = Len(journal) + 1
      /\ World' = Apply(World, c)
  BY <1>1, StoreAdds
<1>4. tail \in Seq(Steps) /\ SubSeq(journal', k + 1, Len(journal')) = Append(tail, c)
  <2> HIDE DEF k
  <2>1. /\ SubSeq(journal, k + 1, Len(journal)) \in Seq(Steps)
        /\ SubSeq(Append(journal, c), k + 1, Len(journal) + 1)
             = Append(SubSeq(journal, k + 1, Len(journal)), c)
    BY <1>1, <1>2, TailGrows
  <2> QED BY <1>3, <2>1
<1>5. Shown(r)' = Replay(first, SubSeq(journal', k + 1, Len(journal')))
  BY DEF Shown
<1> HIDE DEF first, tail, k
<1>6. Shown(r)' = Apply(Replay(first, tail), c)
  <2>1. Replay(first, Append(tail, c)) = Apply(Replay(first, tail), c)
    BY <1>1, <1>4, ReplayAppend
  <2> QED BY <1>4, <1>5, <2>1
<1>7. Follows(Apply(Replay(first, tail), c), Apply(World, c))
  BY <1>2, ApplyFollows
<1>8. Follows(Shown(r), World)'
  <2>1. Follows(Shown(r), World)' <=> Follows(Shown(r)', World')
    BY DEF Follows, Shows
  <2> QED BY <1>3, <1>6, <1>7, <2>1
<1>9. k <= Len(journal')
  BY <1>1, <1>2, <1>3
<1> QED BY <1>8, <1>9 DEF k

(* What was shown of an earlier moment stays shown of it. *)
LEMMA MomentKept ==
    ASSUME NEW c \in Steps, journal \in Seq(Steps), journal' = Append(journal, c),
           NEW a \in Nat, NEW done,
           \E n \in a..Len(journal) : Shows(done, Replay(EmptyWorld, SubSeq(journal, 1, n)))
    PROVE  \E n \in a..Len(journal') : Shows(done, Replay(EmptyWorld, SubSeq(journal', 1, n)))
<1>1. PICK n \in a..Len(journal) : Shows(done, Replay(EmptyWorld, SubSeq(journal, 1, n)))
  OBVIOUS
<1>2. n \in Nat /\ n <= Len(journal) /\ n \in a..Len(journal')
  OBVIOUS
<1>3. SubSeq(journal', 1, n) = SubSeq(journal, 1, n)
  BY <1>2, TailGrows
<1> QED BY <1>1, <1>2, <1>3

(* Every step keeps the invariant about reads. *)
LEMMA ReadInvKept == ReadInv /\ [Next]_vars => ReadInv'
<1> DEFINE Parts == ReadTypes /\ OpenUnanswered /\ TailReplays /\ ReadsCommitted
<1> SUFFICES ASSUME ReadInv, [Next]_vars PROVE Parts'
  BY StoredInvKept DEF ReadInv
<1>f. /\ StoredInv /\ ReadTypes /\ OpenUnanswered /\ TailReplays /\ ReadsCommitted
      /\ journal \in Seq(Steps) /\ Len(journal) \in Nat
      /\ \A c \in Commands : c \in Steps
  BY DEF ReadInv, StoredInv, Types, Steps
<1>w. /\ view \in [Reads -> Snapshot] /\ \A r \in Reads : view[r].at \in Nat
      /\ since \in [Reads -> Nat] /\ \A r \in Reads : r \in Requests
  BY <1>f DEF ReadTypes, Snapshot, Requests
<1>1. CASE UNCHANGED vars
  <2>1. ReadTypes' /\ OpenUnanswered'
    BY <1>1, <1>f DEF vars, ReadTypes, OpenUnanswered
  <2>2. TailReplays'
    BY <1>1, <1>f DEF vars, TailReplays, World, Shown
  <2>3. ReadsCommitted'
    BY <1>1, <1>f DEF vars, ReadsCommitted
  <2> QED BY <2>1, <2>2, <2>3
<1>2. CASE Next
  <2>d. DOMAIN answer' = Requests
    BY <1>f, <1>2, StepsOfReads
  <2>1. ASSUME NEW r \in Reads, Looks(r) PROVE Parts'
    <3>1. /\ view'[r] = snapshot /\ \A q \in Reads \ {r} : view'[q] = view[q]
          /\ view' \in [Reads -> Snapshot]
          /\ since'[r] = Len(journal) /\ \A q \in Reads \ {r} : since'[q] = since[q]
          /\ since' \in [Reads -> Nat]
      BY <1>f, <1>w, <2>1 DEF Looks, StoredInv, Types
    <3>2. World' = World /\ journal' = journal /\ answer' = answer /\ answer[r] # "done"
      BY <1>f, <2>1, StoreLeft DEF Looks, OpenUnanswered
    <3>3. TailReplays'
      <4>1. ASSUME NEW q \in Reads, pc'[q] = "reading"
            PROVE  /\ view'[q].at <= Len(journal) /\ since'[q] <= Len(journal)
                   /\ Follows(Replay([done |-> view'[q].done, live |-> FALSE],
                              SubSeq(journal, view'[q].at + 1, Len(journal))), World)
        <5>1. CASE q = r
          BY <1>f, <3>1, <5>1, SnapshotReplays
        <5>2. CASE q # r
          BY <1>f, <2>1, <3>1, <4>1, <5>2 DEF TailReplays, Looks, Shown
        <5> QED BY <5>1, <5>2
      <4> QED BY <3>2, <4>1 DEF TailReplays, Shown, Follows, Shows
    <3>4. ReadsCommitted' /\ OpenUnanswered'
      BY <1>f, <2>1, <3>1, <3>2 DEF ReadsCommitted, OpenUnanswered, Looks
    <3> QED BY <2>d, <3>1, <3>3, <3>4 DEF ReadTypes
  <2>2. ASSUME NEW r \in Reads, Tells(r) PROVE Parts'
    <3>1. World' = World /\ journal' = journal /\ since' = since
      BY <2>2, StoreLeft DEF Tells
    <3>2. /\ view'[r] = [view[r] EXCEPT !.done = Shown(r).done]
          /\ \A q \in Reads \ {r} : view'[q] = view[q]
          /\ DOMAIN view' = Reads
      BY <1>w, <2>2 DEF Tells
    <3>3. Shows(Shown(r).done, World) /\ since[r] <= Len(journal)
      BY <1>f, <2>2 DEF TailReplays, Tells, Follows
    <3>4. view[r] \in Snapshot /\ World \in WorldType
      BY <1>f, <1>w DEF StoredInv, Types
    <3>5. view'[r] \in Snapshot /\ Shows(view'[r].done, World)
      BY <3>2, <3>3, <3>4 DEF Snapshot, WorldType, Shows
    <3>6. view' \in [Reads -> Snapshot]
      <4>1. \A q \in Reads : view'[q] \in Snapshot
        BY <1>w, <3>2, <3>5
      <4>2. view' = [q \in Reads |-> view'[q]]
        BY <2>2, <1>w DEF Tells
      <4> QED BY <4>1, <4>2
    <3>7. TailReplays'
      <4>1. \A q \in Reads : pc'[q] = "reading" => q # r /\ pc[q] = "reading" /\ view'[q] = view[q]
        BY <2>2, <3>2 DEF Tells
      <4>2. ASSUME NEW q \in Reads, pc[q] = "reading", view'[q] = view[q]
            PROVE  /\ view'[q].at <= Len(journal) /\ since[q] <= Len(journal)
                   /\ Follows(Replay([done |-> view'[q].done, live |-> FALSE],
                              SubSeq(journal, view'[q].at + 1, Len(journal))), World)
        BY <1>f, <4>2 DEF TailReplays, Shown
      <4> QED BY <3>1, <4>1, <4>2 DEF TailReplays, Shown, Follows, Shows
    <3>8. \A q \in Reads \ {r} : answer'[q] = answer[q]
      BY <1>f, <2>2 DEF Tells, ReadTypes
    <3>9. ReadsCommitted'
      <4>1. SubSeq(journal, 1, Len(journal)) = journal /\ Len(journal) \in since[r]..Len(journal)
        BY <1>f, <1>w, <3>3
      <4>2. Shows(view'[r].done, Replay(EmptyWorld, SubSeq(journal, 1, Len(journal))))
        BY <3>5, <4>1 DEF World
      <4>3. ASSUME NEW q \in Reads, answer'[q] = "done"
            PROVE  \E n \in since[q]..Len(journal) :
                      Shows(view'[q].done, Replay(EmptyWorld, SubSeq(journal, 1, n)))
        <5>1. CASE q = r
          BY <4>1, <4>2, <5>1
        <5>2. CASE q # r
          BY <1>f, <3>2, <3>8, <4>3, <5>2 DEF ReadsCommitted
        <5> QED BY <5>1, <5>2
      <4> QED BY <3>1, <4>3 DEF ReadsCommitted
    <3>10. OpenUnanswered'
      BY <1>f, <2>2, <3>8 DEF OpenUnanswered, Tells
    <3> QED BY <2>d, <1>w, <3>1, <3>6, <3>7, <3>9, <3>10 DEF ReadTypes
  <2>3. ASSUME NoRead PROVE Parts'
    <3>0. view' = view /\ since' = since
      BY <2>3 DEF NoRead, seen
    <3>1. ReadTypes' /\ OpenUnanswered'
      BY <1>f, <1>w, <2>d, <2>3, <3>0 DEF ReadTypes, OpenUnanswered, NoRead
    <3>2. \A r \in Reads : /\ view'[r] = view[r] /\ answer'[r] = answer[r]
                           /\ pc'[r] = "reading" => pc[r] = "reading"
      BY <2>3, <3>0 DEF NoRead
    <3>3. CASE UNCHANGED stored
      <4>1. World' = World /\ journal' = journal
        BY <3>3, StoreLeft
      <4>2. TailReplays'
        BY <1>f, <3>0, <3>2, <4>1 DEF TailReplays, Shown
      <4>3. ReadsCommitted'
        BY <1>f, <3>0, <3>2, <4>1 DEF ReadsCommitted
      <4> QED BY <3>1, <4>2, <4>3
    <3>4. ASSUME NEW c \in Commands, Stores(c) PROVE Parts'
      <4>1. journal' = Append(journal, c) /\ Len(journal') = Len(journal) + 1
        BY <1>f, <3>4, StoreAdds
      <4>2. TailReplays'
        <5>1. \A r \in Reads : pc[r] = "reading" =>
                 view[r].at <= Len(journal') /\ Follows(Shown(r), World)'
          BY <3>0, <3>4, TailFollows
        <5>2. \A r \in Reads : pc[r] = "reading" => since[r] <= Len(journal')
          BY <1>f, <1>w, <4>1 DEF TailReplays
        <5> QED BY <3>0, <3>2, <5>1, <5>2 DEF TailReplays
      <4>3. ReadsCommitted'
        <5>1. ASSUME NEW r \in Reads, answer[r] = "done"
              PROVE  \E n \in since[r]..Len(journal') :
                        Shows(view[r].done, Replay(EmptyWorld, SubSeq(journal', 1, n)))
          <6>1. since[r] \in Nat
                /\ \E n \in since[r]..Len(journal) :
                      Shows(view[r].done, Replay(EmptyWorld, SubSeq(journal, 1, n)))
            BY <1>f, <1>w, <5>1 DEF ReadsCommitted
          <6> QED BY <1>f, <4>1, <6>1, MomentKept
        <5> QED BY <3>0, <3>2, <5>1 DEF ReadsCommitted
      <4> QED BY <3>1, <4>2, <4>3
    <3> QED BY <1>f, <1>2, <3>3, <3>4, StepsOf DEF Unstored, Aside
  <2> QED BY <1>f, <1>2, <2>1, <2>2, <2>3, StepsOfReads
<1> QED BY <1>1, <1>2

(* A read takes no lock and its process is any: it still answers the         *)
(* commands kept at one moment since it began, whatever is committed between *)
(* its statements, and lacks at most what a saga's leg did (read).           *)
THEOREM ReadsShowTheDomain == Spec => []ReadsCommitted
<1>1. Init => ReadInv
  <2> SUFFICES ASSUME Init
               PROVE  ReadTypes /\ OpenUnanswered /\ TailReplays /\ ReadsCommitted
    BY InitStoredInv DEF ReadInv
  <2>1. /\ view = [r \in Reads |-> NoSnapshot] /\ since = [r \in Reads |-> 0]
        /\ answer = [r \in Requests |-> "none"] /\ pc = [r \in Requests |-> "new"]
        /\ \A r \in Reads : r \in Requests
    BY DEF Init, Requests
  <2>2. NoSnapshot \in Snapshot
    BY DEF NoSnapshot, Snapshot
  <2>3. ReadTypes
    BY <2>1, <2>2 DEF ReadTypes
  <2> QED BY <2>1, <2>3 DEF OpenUnanswered, TailReplays, ReadsCommitted
<1>2. ReadInv => ReadsCommitted
  BY DEF ReadInv
<1> QED BY <1>1, <1>2, ReadInvKept, PTL DEF Spec
=============================================================================
