---------------------------- MODULE OutboxProofs ----------------------------
(***************************************************************************)
(* Theorems about Outbox for every number of processes, rows, deaths and   *)
(* operator calls.                                                         *)
(***************************************************************************)
EXTENDS Outbox, FiniteSetTheorems, TLAPS

USE ConstantsAssumption

(* The frame a relay call starts with is well typed, whatever its rows.     *)
LEMMA CallType ==
    ASSUME NEW mode \in {"deliver", "pending", "stalled", "abandon"},
           NEW force \in BOOLEAN, NEW todo \in SUBSET Rows
    PROVE  Call(mode, force, todo) \in Frame
PROOF BY DEF Call, Frame, FirstStep, Settled

(* The innermost call of a busy process is a frame. *)
LEMMA TopType ==
    ASSUME TypeOK, NEW p \in Procs, stack[p] # << >>
    PROVE  /\ Top(p) \in Frame
           /\ Len(stack[p]) \in Nat \ {0}
           /\ Len(stack[p]) \in DOMAIN stack[p]
PROOF BY DEF TypeOK, Top, Depth

(* Replacing, pushing and popping the innermost call keep the stacks typed. *)
LEMMA StackType ==
    ASSUME TypeOK, NEW p \in Procs,
           \/ \E f \in Frame : Push(p, f)
           \/ stack[p] # << >> /\ \E f \in Frame : SetTop(p, f)
           \/ stack[p] # << >> /\ Pop(p)
    PROVE  stack' \in [Procs -> Seq(Frame)]
PROOF
<1>1. CASE \E f \in Frame : Push(p, f)
    BY <1>1 DEF TypeOK, Push
<1>2. CASE stack[p] # << >> /\ \E f \in Frame : SetTop(p, f)
    <2> PICK f \in Frame : SetTop(p, f)
        BY <1>2
    <2>1. stack[p] \in Seq(Frame) /\ Len(stack[p]) \in 1..Len(stack[p])
        BY <1>2 DEF TypeOK
    <2>2. [stack[p] EXCEPT ![Len(stack[p])] = f] \in Seq(Frame)
        BY <2>1
    <2> QED
        BY <2>2 DEF TypeOK, SetTop
<1>3. CASE stack[p] # << >> /\ Pop(p)
    <2>1. SubSeq(stack[p], 1, Len(stack[p]) - 1) \in Seq(Frame)
        BY <1>3 DEF TypeOK
    <2> QED
        BY <1>3, <2>1 DEF TypeOK, Pop
<1> QED
    BY <1>1, <1>2, <1>3

(* Moving on to the next row keeps a frame a frame. *)
LEMMA NextRowType ==
    ASSUME NEW f \in Frame, NEW r
    PROVE  NextRow(f, r) \in Frame
PROOF BY CallType DEF NextRow, Frame

----------------------------------------------------------------------------
(* Every step keeps the variables in their types. *)
LEMMA TypeStep == TypeOK /\ [Next]_vars => TypeOK'
PROOF
<1> SUFFICES ASSUME TypeOK, [Next]_vars PROVE TypeOK'
    OBVIOUS
<1>1. ASSUME NEW p \in Procs, NEW first \in Rows, NEW n \in 1..MaxFanout,
             NEW asks \in SUBSET (1..n), Enqueue(p, first, n, asks)
      PROVE  TypeOK'
    <2>1. first \in Nat
        BY DEF Rows
    <2>2. (first..(first + n - 1)) \in SUBSET Rows
        BY <1>1 DEF Enqueue
    <2>3. stack' \in [Procs -> Seq(Frame)]
        BY <1>1, <2>2, CallType, StackType DEF Enqueue
    <2>4. outbox' \in [Rows -> Row]
        BY <1>1, <2>1 DEF Enqueue, TypeOK, Row, Statuses
    <2> QED
        BY <1>1, <2>3, <2>4 DEF Enqueue, TypeOK
<1>2. ASSUME NEW p \in Procs, NEW r \in Rows, Claim(p, r)
      PROVE  TypeOK'
    <2> DEFINE g == [Top(p) EXCEPT !.at = "run", !.attempt = outbox[r].attempts + 1]
    <2>0. outbox[r] \in Row /\ outbox[r].attempts + 1 \in Nat
        BY DEF TypeOK, Row
    <2>1. g \in Frame
        <3>1. Top(p) \in Frame
            BY <1>2, TopType DEF Claim, Working
        <3> QED
            BY <3>1, <2>0 DEF Frame
    <2>2. stack' \in [Procs -> Seq(Frame)]
        BY <1>2, <2>1, StackType DEF Claim, Working
    <2>3. outbox' \in [Rows -> Row]
        <3> DEFINE w == [outbox[r] EXCEPT !.status = "claimed", !.attempts = @ + 1,
                                          !.old = FALSE]
        <3>1. w \in Row
            BY <2>0 DEF Row, Statuses
        <3>2. outbox' = [outbox EXCEPT ![r] = w]
            BY <1>2 DEF Claim, TypeOK
        <3> HIDE DEF w
        <3> QED
            BY <3>1, <3>2 DEF TypeOK
    <2> QED
        BY <1>2, <2>2, <2>3 DEF Claim, TypeOK
<1>3. ASSUME NEW p \in Procs, NEW r \in Rows, PassOver(p, r)
      PROVE  TypeOK'
    <2>1. stack' \in [Procs -> Seq(Frame)]
        BY <1>3, TopType, NextRowType, StackType DEF PassOver, Working
    <2> QED
        BY <1>3, <2>1 DEF PassOver, TypeOK
<1>4. ASSUME NEW p \in Procs, NEW r \in Rows, NEW o \in Settled, RunConsumer(p, r, o)
      PROVE  TypeOK'
    <2> DEFINE g == [Top(p) EXCEPT !.at = "ran", !.outcome = o]
    <2>1. g \in Frame
        BY <1>4, TopType DEF RunConsumer, Working, Frame
    <2>2. stack' \in [Procs -> Seq(Frame)]
        BY <1>4, <2>1, StackType DEF RunConsumer, Working
    <2> QED
        BY <1>4, <2>2 DEF RunConsumer, TypeOK
<1>5. ASSUME NEW p \in Procs, NEW r \in Rows, Settle(p, r)
      PROVE  TypeOK'
    <2>1. stack' \in [Procs -> Seq(Frame)]
        BY <1>5, TopType, NextRowType, StackType DEF Settle, Working
    <2>2. Top(p).outcome \in Settled
        BY <1>5, TopType DEF Settle, Working, Frame
    <2> QED
        BY <1>5, <2>1, <2>2 DEF Settle, TypeOK, Row, Statuses
<1>6. ASSUME NEW p \in Procs, Finish(p)
      PROVE  TypeOK'
    <2>1. Stalled \in SUBSET Rows
        BY DEF Stalled, Status
    <2>2. stack' \in [Procs -> Seq(Frame)]
        BY <1>6, <2>1, CallType, StackType DEF Finish
    <2>3. warned' \subseteq Rows
        BY <1>6, <2>1 DEF Finish, TypeOK
    <2> QED
        BY <1>6, <2>2, <2>3 DEF Finish, TypeOK
<1>7. ASSUME NEW p \in Procs, NEW r \in Rows, Reset(p, r)
      PROVE  TypeOK'
    <2> DEFINE g == [Top(p) EXCEPT !.at = "claim"]
    <2>1. g \in Frame /\ NextRow(Top(p), r) \in Frame
        BY <1>7, TopType, NextRowType DEF Reset, Working, Frame
    <2>2. stack' \in [Procs -> Seq(Frame)]
        BY <1>7, <2>1, StackType DEF Reset, Working
    <2>3. outbox' \in [Rows -> Row] /\ resets' \in [Rows -> Nat]
        <3>1. CASE Withheld(p, r)
            BY <1>7, <3>1 DEF Reset, TypeOK
        <3>2. CASE ~Withheld(p, r)
            <4>1. /\ outbox' = [outbox EXCEPT ![r].status = "pending"]
                  /\ resets' = [resets EXCEPT ![r] = @ + 1]
                BY <1>7, <3>2 DEF Reset
            <4>2. [outbox[r] EXCEPT !.status = "pending"] \in Row
                BY DEF TypeOK, Row, Statuses
            <4> QED
                BY <4>1, <4>2 DEF TypeOK
        <3> QED
            BY <3>1, <3>2
    <2> QED
        BY <1>7, <2>2, <2>3 DEF Reset, TypeOK
<1>8. ASSUME NEW p \in Procs, NEW r \in Rows, Abandon(p, r)
      PROVE  TypeOK'
    <2>1. stack' \in [Procs -> Seq(Frame)]
        BY <1>8, TopType, NextRowType, StackType DEF Abandon, Working
    <2> QED
        BY <1>8, <2>1 DEF Abandon, TypeOK, Row, Statuses, Settled
<1>9. ASSUME NEW p \in Procs, OperatorRedrive(p)
      PROVE  TypeOK'
    <2>1. stack' \in [Procs -> Seq(Frame)]
        BY <1>9, CallType, StackType DEF OperatorRedrive, Status
    <2> QED
        BY <1>9, <2>1 DEF OperatorRedrive, TypeOK
<1>10. ASSUME NEW p \in Procs, NEW r \in Rows, NEW mode \in {"stalled", "abandon"},
              OperatorRow(p, r, mode)
       PROVE  TypeOK'
    <2>1. stack' \in [Procs -> Seq(Frame)]
        BY <1>10, CallType, StackType DEF OperatorRow
    <2> QED
        BY <1>10, <2>1 DEF OperatorRow, TypeOK
<1>11. ASSUME NEW p \in Procs, Crash(p)
       PROVE  TypeOK'
    BY <1>11 DEF Crash, TypeOK
<1>12. ASSUME NEW p \in Procs, Boot(p)
       PROVE  TypeOK'
    <2>1. stack' \in [Procs -> Seq(Frame)]
        BY <1>12, CallType, StackType DEF Boot, Status
    <2> QED
        BY <1>12, <2>1 DEF Boot, TypeOK
<1>13. ASSUME NEW r \in Rows, Age(r)
       PROVE  TypeOK'
    BY <1>13 DEF Age, TypeOK, Row
<1>14. CASE UNCHANGED vars
    BY <1>14 DEF vars, TypeOK
<1> QED
    BY <1>1, <1>2, <1>3, <1>4, <1>5, <1>6, <1>7, <1>8, <1>9, <1>10, <1>11,
       <1>12, <1>13, <1>14 DEF Next, Relay

(* Type correctness of every behaviour of the outbox. *)
THEOREM TypeCorrect == Spec => []TypeOK
PROOF
<1>1. Init => TypeOK
    BY DEF Init, TypeOK, Row, NoRow, Statuses
<1> QED
    BY <1>1, TypeStep, PTL DEF Spec

----------------------------------------------------------------------------
(***************************************************************************)
(* At most once per arming.  ClaimsBounded is not inductive: a pending row *)
(* has a start still to spend, which the claim turns into an attempt.      *)
(***************************************************************************)
StartsLeft ==
    \A r \in Rows :
        outbox[r].attempts + (IF outbox[r].status = "pending" THEN 1 ELSE 0)
            <= 1 + resets[r]

(* A step that leaves the table and the resets alone keeps the bound. *)
LEMMA SameTable ==
    ASSUME StartsLeft, UNCHANGED <<outbox, resets>>
    PROVE  StartsLeft'
PROOF BY DEF StartsLeft

(* So does one that writes a row some other status than pending. *)
LEMMA ClosedRow ==
    ASSUME TypeOK, StartsLeft, NEW r \in Rows, NEW s, s # "pending",
           outbox' = [outbox EXCEPT ![r].status = s], UNCHANGED resets
    PROVE  StartsLeft'
PROOF
<1> SUFFICES ASSUME NEW q \in Rows
             PROVE  (outbox[q].attempts
                       + (IF outbox[q].status = "pending" THEN 1 ELSE 0)
                           <= 1 + resets[q])'
    BY DEF StartsLeft
<1>1. outbox[q].attempts \in Nat /\ resets[q] \in Nat
    BY DEF TypeOK, Row
<1>2. outbox'[q].attempts = outbox[q].attempts
    BY DEF TypeOK, Row
<1>3. outbox'[q].status = "pending" => outbox[q].status = "pending"
    BY DEF TypeOK, Row
<1> QED
    BY <1>1, <1>2, <1>3 DEF StartsLeft

(* Every step keeps the starts a row has left. *)
LEMMA StartsStep == TypeOK /\ StartsLeft /\ [Next]_vars => StartsLeft'
PROOF
<1> SUFFICES ASSUME TypeOK, StartsLeft, [Next]_vars PROVE StartsLeft'
    OBVIOUS
<1>0. \A q \in Rows : outbox[q] \in Row /\ outbox[q].attempts \in Nat
                         /\ resets[q] \in Nat
    BY DEF TypeOK, Row
<1>1. ASSUME NEW p \in Procs, NEW first \in Rows, NEW n \in 1..MaxFanout,
             NEW asks \in SUBSET (1..n), Enqueue(p, first, n, asks)
      PROVE  StartsLeft'
    <2> SUFFICES ASSUME NEW q \in Rows
                 PROVE  outbox'[q].attempts
                          + (IF outbox'[q].status = "pending" THEN 1 ELSE 0)
                              <= 1 + resets'[q]
        BY DEF StartsLeft
    <2>1. CASE q \in first..(first + n - 1)
        <3>1. outbox'[q].attempts = 0 /\ resets'[q] = resets[q]
            BY <1>1, <2>1 DEF Enqueue
        <3> QED
            BY <3>1, <1>0
    <2>2. CASE q \notin first..(first + n - 1)
        <3>1. outbox'[q] = outbox[q] /\ resets'[q] = resets[q]
            BY <1>1, <2>2 DEF Enqueue
        <3> QED
            BY <3>1 DEF StartsLeft
    <2> QED
        BY <2>1, <2>2
<1>2. ASSUME NEW p \in Procs, NEW r \in Rows, Claim(p, r)
      PROVE  StartsLeft'
    <2> SUFFICES ASSUME NEW q \in Rows
                 PROVE  outbox'[q].attempts
                          + (IF outbox'[q].status = "pending" THEN 1 ELSE 0)
                              <= 1 + resets'[q]
        BY DEF StartsLeft
    <2>1. CASE q = r
        <3>1. outbox[q].status = "pending" /\ resets'[q] = resets[q]
            BY <1>2, <2>1 DEF Claim, Claimable
        <3>2. outbox'[q].status = "claimed"
              /\ outbox'[q].attempts = outbox[q].attempts + 1
            BY <1>2, <2>1, <1>0 DEF Claim, TypeOK, Row
        <3> QED
            BY <3>1, <3>2, <1>0 DEF StartsLeft
    <2>2. CASE q # r
        <3>1. outbox'[q] = outbox[q] /\ resets'[q] = resets[q]
            BY <1>2, <2>2 DEF Claim, TypeOK
        <3> QED
            BY <3>1 DEF StartsLeft
    <2> QED
        BY <2>1, <2>2
<1>3. ASSUME NEW p \in Procs, NEW r \in Rows, Settle(p, r)
      PROVE  StartsLeft'
    <2>1. Top(p).outcome # "pending"
        BY <1>3, TopType DEF Settle, Working, Frame, Settled
    <2> QED
        BY <1>3, <2>1, ClosedRow DEF Settle
<1>4. ASSUME NEW p \in Procs, NEW r \in Rows, Abandon(p, r)
      PROVE  StartsLeft'
    BY <1>4, ClosedRow DEF Abandon
<1>5. ASSUME NEW p \in Procs, NEW r \in Rows, Reset(p, r)
      PROVE  StartsLeft'
    <2>1. CASE Withheld(p, r)
        BY <1>5, <2>1, SameTable DEF Reset
    <2>2. CASE ~Withheld(p, r)
        <3> SUFFICES ASSUME NEW q \in Rows
                     PROVE  outbox'[q].attempts
                              + (IF outbox'[q].status = "pending" THEN 1 ELSE 0)
                                  <= 1 + resets'[q]
            BY DEF StartsLeft
        <3>0. /\ outbox' = [outbox EXCEPT ![r].status = "pending"]
              /\ resets' = [resets EXCEPT ![r] = @ + 1]
            BY <1>5, <2>2 DEF Reset
        <3>1. CASE q = r
            <4>1. outbox'[q].attempts = outbox[q].attempts
                  /\ resets'[q] = resets[q] + 1
                BY <3>0, <3>1, <1>0 DEF TypeOK, Row
            <4> QED
                BY <4>1, <1>0 DEF StartsLeft
        <3>2. CASE q # r
            <4>1. outbox'[q] = outbox[q] /\ resets'[q] = resets[q]
                BY <3>0, <3>2 DEF TypeOK
            <4> QED
                BY <4>1 DEF StartsLeft
        <3> QED
            BY <3>1, <3>2
    <2> QED
        BY <2>1, <2>2
<1>6. ASSUME NEW r \in Rows, Age(r)
      PROVE  StartsLeft'
    <2> SUFFICES ASSUME NEW q \in Rows
                 PROVE  outbox'[q].attempts
                          + (IF outbox'[q].status = "pending" THEN 1 ELSE 0)
                              <= 1 + resets'[q]
        BY DEF StartsLeft
    <2>1. outbox'[q].attempts = outbox[q].attempts
          /\ outbox'[q].status = outbox[q].status /\ resets'[q] = resets[q]
        BY <1>6, <1>0 DEF Age, TypeOK, Row
    <2> QED
        BY <2>1, <1>0 DEF StartsLeft
<1>7. ASSUME NEW p \in Procs,
             \/ \E r \in Rows : PassOver(p, r)
             \/ \E r \in Rows, o \in Settled : RunConsumer(p, r, o)
             \/ Finish(p) \/ OperatorRedrive(p) \/ Crash(p) \/ Boot(p)
             \/ \E r \in Rows, mode \in {"stalled", "abandon"} : OperatorRow(p, r, mode)
      PROVE  StartsLeft'
    BY <1>7, SameTable DEF PassOver, RunConsumer, Finish, OperatorRedrive, Crash, Boot, OperatorRow
<1>8. CASE UNCHANGED vars
    BY <1>8, SameTable DEF vars
<1> QED
    BY <1>1, <1>2, <1>3, <1>4, <1>5, <1>6, <1>7, <1>8 DEF Next, Relay

(* However many relays, boots, deaths and operators race, a row's consumer  *)
(* is started at most once more than the times an operator put it back: with *)
(* no operator, the claim's compare-and-set makes it at most once.          *)
THEOREM AtMostOncePerArming == Spec => []ClaimsBounded
PROOF
<1>1. Init => StartsLeft
    BY DEF Init, StartsLeft, NoRow
<1>2. TypeOK /\ StartsLeft => ClaimsBounded
    BY DEF TypeOK, Row, StartsLeft, ClaimsBounded
<1> QED
    BY <1>1, <1>2, StartsStep, TypeCorrect, PTL DEF Spec

----------------------------------------------------------------------------
(***************************************************************************)
(* The claim a runner holds.  RunnerHoldsClaim is about the relays inside  *)
(* a consumer; what keeps it is about the two other writers of a claimed   *)
(* row, the reset of a redrive and the abandon, which write whatever       *)
(* status the row has: the rows they have read must still be claims that   *)
(* nobody runs when they get to them.                                      *)
(***************************************************************************)
Live(p, i) == p \in up /\ i \in DOMAIN stack[p]

(* A call inside the consumer of row r. *)
InConsumer(f, r) == f.at \in {"run", "ran"} /\ FirstOf(r, f.todo)

(* A call that will write row r whatever its status is then: a redrive of   *)
(* stalled rows before its reset, or an abandon.                            *)
Blind(f, r) ==
    /\ r \in f.todo
    /\ \/ f.mode = "abandon"
       \/ f.mode = "stalled" /\ (f.at = "reset" \/ ~FirstOf(r, f.todo))

Runs(p, i, r) == Live(p, i) /\ InConsumer(stack[p][i], r)
Holds(p, i, r) == Live(p, i) /\ Blind(stack[p][i], r)

(* A dead process has no call, calls are nested no deeper than the bound,   *)
(* only a call on stalled rows resets, and only an operator's outermost     *)
(* call is forced.                                                          *)
Forced(f) == f.force \/ f.mode \in {"stalled", "abandon"}
StackShape ==
    /\ \A p \in Procs : p \notin up => stack[p] = << >>
    /\ \A p \in Procs, i \in Nat :
         Live(p, i) => /\ i <= MaxDepth + 1
                       /\ stack[p][i].at = "reset" => stack[p][i].mode = "stalled"
                       /\ Forced(stack[p][i]) => p \in Operators /\ i = 1

(* The rows in the table are the first ones, none is of a later save than   *)
(* its own, and one that has left pending has been started.                 *)
TableShape ==
    \A r \in Rows :
        /\ outbox[r].status = "absent" =>
             /\ outbox[r].attempts = 0
             /\ \A s \in Rows : r <= s => outbox[s].status = "absent"
        /\ outbox[r].status # "absent" => outbox[r].batch \in 1..r
        /\ outbox[r].status \notin {"absent", "pending"} => outbox[r].attempts > 0

(* A call is on rows of the table, and those it runs, puts back or abandons *)
(* have been started.                                                       *)
InTable(f) ==
    \A r \in f.todo :
        /\ outbox[r].status # "absent"
        /\ (InConsumer(f, r) \/ f.mode \in {"stalled", "abandon"})
               => outbox[r].attempts > 0

(* A call has left no earlier row of a save unstarted behind it. *)
InOrder(f) ==
    \A r \in f.todo, s \in Rows :
        (/\ s < r /\ outbox[s].batch = outbox[r].batch
         /\ outbox[r].attempts = 0 /\ s \notin f.todo)
        => outbox[s].attempts > 0 \/ outbox[s].ask

CallsInOrder ==
    \A p \in Procs, i \in Nat :
        Live(p, i) => InTable(stack[p][i]) /\ InOrder(stack[p][i])

OrderInv == TypeOK /\ StackShape /\ TableShape /\ CallsInOrder /\ StartsInOrder

OneOperator == \A p, q \in Operators : p = q

(* The resets are the operators' and need an old claim, which needs a death. *)
Guarded == crashes = 0 \/ OneOperator

ClaimHeld ==
    \A p \in Procs, i \in Nat, r \in Rows :
        Runs(p, i, r) => /\ outbox[r].status = "claimed"
                         /\ outbox[r].attempts = stack[p][i].attempt
OneRunner ==
    \A p, q \in Procs, i, j \in Nat, r \in Rows :
        Runs(p, i, r) /\ Runs(q, j, r) => p = q /\ i = j
OldIsIdle ==
    \A r \in Stalled, p \in Procs, i \in Nat : ~Runs(p, i, r)
HeldIsIdle ==
    \A p \in Procs, i \in Nat, r \in Rows :
        Holds(p, i, r) => /\ outbox[r].status = "claimed"
                          /\ \A q \in Procs, j \in Nat : ~Runs(q, j, r)
Claims == ClaimHeld /\ OneRunner /\ OldIsIdle /\ HeldIsIdle

ClaimRuns ==
    crashes = 0 => \A r \in Rows : outbox[r].status = "claimed" =>
                       \E p \in Procs, i \in Nat : Runs(p, i, r)

ClaimInv == OrderInv /\ ClaimRuns /\ (Guarded => Claims)

----------------------------------------------------------------------------
(* A step that changes, adds or ends the one call k of p, and no other.     *)
Renews(p, k, f) ==
    \A q \in Procs, i \in Nat :
        IF q = p /\ i = k
        THEN Live(q, i)' /\ stack'[q][i] = f
        ELSE Live(q, i)' = Live(q, i) /\ (Live(q, i) => stack'[q][i] = stack[q][i])

Ends(p, k) ==
    \A q \in Procs, i \in Nat :
        IF q = p /\ i = k
        THEN ~Live(q, i)'
        ELSE Live(q, i)' = Live(q, i) /\ (Live(q, i) => stack'[q][i] = stack[q][i])

(* A step in which no call is born or changed. *)
NoNewCall ==
    \A q \in Procs, i \in Nat :
        Live(q, i)' => Live(q, i) /\ stack'[q][i] = stack[q][i]

(* Writing the innermost call changes only that call. *)
LEMMA SetTopCalls ==
    ASSUME TypeOK, NEW p \in up, NEW f, stack[p] # << >>, SetTop(p, f), UNCHANGED up
    PROVE  Renews(p, Depth(p), f)
PROOF
<1>1. stack[p] \in Seq(Frame) /\ Len(stack[p]) \in 1..Len(stack[p]) /\ p \in Procs
    BY DEF TypeOK
<1>2. stack' = [stack EXCEPT ![p] = [stack[p] EXCEPT ![Len(stack[p])] = f]]
    BY DEF SetTop
<1>3. /\ stack'[p] = [stack[p] EXCEPT ![Len(stack[p])] = f]
      /\ DOMAIN stack'[p] = DOMAIN stack[p]
      /\ DOMAIN stack[p] = 1..Len(stack[p])
    BY <1>1, <1>2 DEF TypeOK
<1>4. \A q \in Procs : q # p => stack'[q] = stack[q]
    BY <1>2 DEF TypeOK
<1> SUFFICES ASSUME NEW q \in Procs, NEW i \in Nat
             PROVE  IF q = p /\ i = Depth(p)
                    THEN Live(q, i)' /\ stack'[q][i] = f
                    ELSE Live(q, i)' = Live(q, i)
                         /\ (Live(q, i) => stack'[q][i] = stack[q][i])
    BY DEF Renews
<1> QED
    BY <1>1, <1>3, <1>4 DEF Live, Depth

(* A nested call, or the first one of a process that boots, is one call more. *)
LEMMA PushCalls ==
    ASSUME TypeOK, NEW p \in Procs, NEW f \in Frame, Push(p, f),
           \/ p \in up /\ up' = up
           \/ p \notin up /\ stack[p] = << >> /\ up' = up \cup {p}
    PROVE  Renews(p, Depth(p) + 1, f)
PROOF
<1>1. stack[p] \in Seq(Frame) /\ Len(stack[p]) \in Nat
    BY DEF TypeOK
<1>2. stack' = [stack EXCEPT ![p] = Append(stack[p], f)]
    BY DEF Push
<1>3. stack'[p] = Append(stack[p], f)
    BY <1>2 DEF TypeOK
<1>4. /\ DOMAIN stack'[p] = 1..(Len(stack[p]) + 1)
      /\ stack'[p][Len(stack[p]) + 1] = f
      /\ \A i \in 1..Len(stack[p]) : stack'[p][i] = stack[p][i]
      /\ DOMAIN stack[p] = 1..Len(stack[p])
    BY <1>1, <1>3
<1>5. \A q \in Procs : q # p => stack'[q] = stack[q]
    BY <1>2 DEF TypeOK
<1>6. stack[p] = << >> => Len(stack[p]) = 0
    OBVIOUS
<1> SUFFICES ASSUME NEW q \in Procs, NEW i \in Nat
             PROVE  IF q = p /\ i = Depth(p) + 1
                    THEN Live(q, i)' /\ stack'[q][i] = f
                    ELSE Live(q, i)' = Live(q, i)
                         /\ (Live(q, i) => stack'[q][i] = stack[q][i])
    BY DEF Renews
<1>7. CASE q = p
    BY <1>1, <1>4, <1>6, <1>7 DEF Live, Depth
<1>8. CASE q # p
    BY <1>5, <1>8 DEF Live
<1> QED
    BY <1>7, <1>8

(* A return takes away the innermost call. *)
LEMMA PopCalls ==
    ASSUME TypeOK, NEW p \in up, stack[p] # << >>, Pop(p), UNCHANGED up
    PROVE  Ends(p, Depth(p))
PROOF
<1>1. stack[p] \in Seq(Frame) /\ Len(stack[p]) \in Nat \ {0} /\ p \in Procs
    BY DEF TypeOK
<1>2. stack' = [stack EXCEPT ![p] = SubSeq(stack[p], 1, Len(stack[p]) - 1)]
    BY DEF Pop
<1>3. stack'[p] = SubSeq(stack[p], 1, Len(stack[p]) - 1)
    BY <1>1, <1>2 DEF TypeOK
<1>4. /\ DOMAIN stack'[p] = 1..(Len(stack[p]) - 1)
      /\ \A i \in 1..(Len(stack[p]) - 1) : stack'[p][i] = stack[p][i]
      /\ DOMAIN stack[p] = 1..Len(stack[p])
    BY <1>1, <1>3
<1>5. \A q \in Procs : q # p => stack'[q] = stack[q]
    BY <1>2 DEF TypeOK
<1> SUFFICES ASSUME NEW q \in Procs, NEW i \in Nat
             PROVE  IF q = p /\ i = Depth(p)
                    THEN ~Live(q, i)'
                    ELSE Live(q, i)' = Live(q, i)
                         /\ (Live(q, i) => stack'[q][i] = stack[q][i])
    BY DEF Ends
<1>6. CASE q = p
    BY <1>1, <1>4, <1>6 DEF Live, Depth
<1>7. CASE q # p
    BY <1>5, <1>7 DEF Live
<1> QED
    BY <1>6, <1>7

(* The innermost call of a busy live process is a live call, a frame on     *)
(* rows, and the row it works on is the least of them.                      *)
LEMMA TopIsLive ==
    ASSUME TypeOK, NEW p \in up, stack[p] # << >>
    PROVE  /\ p \in Procs /\ Depth(p) \in Nat \ {0}
           /\ Live(p, Depth(p)) /\ stack[p][Depth(p)] = Top(p)
           /\ Top(p) \in Frame /\ Top(p).todo \subseteq Rows
PROOF
<1>1. p \in Procs
    BY DEF TypeOK
<1>2. Top(p) \in Frame /\ Len(stack[p]) \in Nat \ {0} /\ Len(stack[p]) \in DOMAIN stack[p]
    BY <1>1, TopType
<1> QED
    BY <1>1, <1>2 DEF Live, Depth, Top, Frame

(* What each step of a relay does to its innermost call. *)
LEMMA RelayCalls ==
    ASSUME TypeOK, NEW p \in Procs, NEW r \in Rows
    PROVE  /\ Claim(p, r) => Renews(p, Depth(p),
                 [Top(p) EXCEPT !.at = "run", !.attempt = outbox[r].attempts + 1])
           /\ \A o \in Settled : RunConsumer(p, r, o) =>
                 Renews(p, Depth(p), [Top(p) EXCEPT !.at = "ran", !.outcome = o])
           /\ (PassOver(p, r) \/ Settle(p, r) \/ Abandon(p, r)) =>
                 Renews(p, Depth(p), NextRow(Top(p), r))
           /\ Reset(p, r) =>
                 Renews(p, Depth(p), IF Withheld(p, r) THEN NextRow(Top(p), r)
                                     ELSE [Top(p) EXCEPT !.at = "claim"])
PROOF
<1>1. ASSUME Claim(p, r)
      PROVE  Renews(p, Depth(p),
                 [Top(p) EXCEPT !.at = "run", !.attempt = outbox[r].attempts + 1])
    BY <1>1, SetTopCalls DEF Claim, Working
<1>2. ASSUME NEW o \in Settled, RunConsumer(p, r, o)
      PROVE  Renews(p, Depth(p), [Top(p) EXCEPT !.at = "ran", !.outcome = o])
    BY <1>2, SetTopCalls DEF RunConsumer, Working
<1>3. ASSUME PassOver(p, r) \/ Settle(p, r) \/ Abandon(p, r)
      PROVE  Renews(p, Depth(p), NextRow(Top(p), r))
    BY <1>3, SetTopCalls DEF PassOver, Settle, Abandon, Working
<1>4. ASSUME Reset(p, r)
      PROVE  Renews(p, Depth(p), IF Withheld(p, r) THEN NextRow(Top(p), r)
                                 ELSE [Top(p) EXCEPT !.at = "claim"])
    BY <1>4, SetTopCalls DEF Reset, Working
<1> QED
    BY <1>1, <1>2, <1>3, <1>4

(* A call with no row left ends, or goes on to the stalled rows. *)
LEMMA FinishCalls ==
    ASSUME TypeOK, NEW p \in Procs, Finish(p)
    PROVE  IF Top(p).mode = "pending" /\ Top(p).force
           THEN Renews(p, Depth(p), Call("stalled", TRUE, Stalled))
           ELSE Ends(p, Depth(p))
PROOF BY SetTopCalls, PopCalls DEF Finish

(* The first call of an operator or of a boot. *)
LEMMA FirstCalls ==
    ASSUME TypeOK, NEW p \in Procs, StackShape
    PROVE  /\ OperatorRedrive(p) =>
                 Renews(p, 1, Call("pending", TRUE, Status("pending")))
           /\ \A r \in Rows, mode \in {"stalled", "abandon"} :
                 OperatorRow(p, r, mode) => Renews(p, 1, Call(mode, TRUE, {r}))
           /\ Boot(p) => Renews(p, 1, Call("pending", FALSE, Status("pending")))
PROOF
<1>0. /\ Status("pending") \in SUBSET Rows
      /\ stack[p] = << >> => Depth(p) + 1 = 1
    BY DEF Status, Depth
<1>1. ASSUME OperatorRedrive(p)
      PROVE  Renews(p, 1, Call("pending", TRUE, Status("pending")))
    BY <1>0, <1>1, PushCalls, CallType DEF OperatorRedrive, Idle
<1>2. ASSUME NEW r \in Rows, NEW mode \in {"stalled", "abandon"}, OperatorRow(p, r, mode)
      PROVE  Renews(p, 1, Call(mode, TRUE, {r}))
    BY <1>0, <1>2, PushCalls, CallType DEF OperatorRow, Idle
<1>3. ASSUME Boot(p)
      PROVE  Renews(p, 1, Call("pending", FALSE, Status("pending")))
    BY <1>0, <1>3, PushCalls, CallType DEF Boot, StackShape
<1> QED
    BY <1>1, <1>2, <1>3

(* A save's delivery is a call of its own, within the bound. *)
LEMMA EnqueueCalls ==
    ASSUME TypeOK, NEW p \in Procs, NEW first \in Rows,
           NEW n \in 1..MaxFanout, NEW asks \in SUBSET (1..n), Enqueue(p, first, n, asks)
    PROVE  /\ Renews(p, Depth(p) + 1, Call("deliver", FALSE, first..(first + n - 1)))
           /\ Depth(p) + 1 \in Nat /\ Depth(p) + 1 <= MaxDepth + 1
PROOF
<1>1. p \in up /\ up' = up /\ (stack[p] = << >> \/ Depth(p) <= MaxDepth)
    BY DEF Enqueue, MayDispatch
<1>2. Depth(p) \in Nat /\ (stack[p] = << >> => Depth(p) = 0)
    BY DEF TypeOK, Depth
<1>3. (first..(first + n - 1)) \in SUBSET Rows
    BY DEF Enqueue
<1>4. Call("deliver", FALSE, first..(first + n - 1)) \in Frame
    BY <1>3, CallType
<1>5. Push(p, Call("deliver", FALSE, first..(first + n - 1)))
    BY DEF Enqueue
<1>6. Renews(p, Depth(p) + 1, Call("deliver", FALSE, first..(first + n - 1)))
    BY <1>1, <1>4, <1>5, PushCalls
<1>7. Depth(p) + 1 \in Nat /\ Depth(p) + 1 <= MaxDepth + 1
    <2>1. Depth(p) <= MaxDepth
        BY <1>1, <1>2
    <2> QED
        BY <1>2, <2>1
<1> QED
    BY <1>6, <1>7

(* A step that ends calls, or touches none, brings no new one. *)
LEMMA QuietCalls ==
    ASSUME TypeOK
    PROVE  /\ \A p \in Procs, k \in Nat : Ends(p, k) => NoNewCall
           /\ \A p \in Procs : Crash(p) => NoNewCall
           /\ UNCHANGED <<stack, up>> => NoNewCall
PROOF
<1>1. \A p \in Procs, k \in Nat : Ends(p, k) => NoNewCall
    BY DEF Ends, NoNewCall
<1>2. ASSUME NEW p \in Procs, Crash(p)
      PROVE  NoNewCall
    BY <1>2 DEF Crash, NoNewCall, Live, TypeOK
<1>3. ASSUME UNCHANGED <<stack, up>>
      PROVE  NoNewCall
    BY <1>3 DEF NoNewCall, Live
<1> QED
    BY <1>1, <1>2, <1>3

(* A renewed call keeps the stacks in shape. *)
LEMMA ShapeRenewed ==
    ASSUME StackShape, NEW p \in Procs, NEW k \in Nat, NEW g, Renews(p, k, g),
           \A q \in Procs : q \notin up' => stack'[q] = << >>,
           k <= MaxDepth + 1, Forced(g) => p \in Operators /\ k = 1,
           g.at = "reset" => g.mode = "stalled"
    PROVE  StackShape'
PROOF
<1> SUFFICES ASSUME NEW q \in Procs, NEW i \in Nat, Live(q, i)'
             PROVE  /\ i <= MaxDepth + 1
                    /\ stack'[q][i].at = "reset" => stack'[q][i].mode = "stalled"
                    /\ Forced(stack'[q][i]) => q \in Operators /\ i = 1
    BY DEF StackShape, Forced
<1>1. CASE q = p /\ i = k
    BY <1>1 DEF Renews
<1>2. CASE ~(q = p /\ i = k)
    BY <1>2 DEF Renews, StackShape
<1> QED
    BY <1>1, <1>2

(* Every step keeps the stacks in shape. *)
LEMMA StackStep == TypeOK /\ StackShape /\ [Next]_vars => StackShape'
PROOF
<1> SUFFICES ASSUME TypeOK, StackShape, [Next]_vars PROVE StackShape'
    OBVIOUS
<1>0. ASSUME NEW p \in up, stack[p] # << >>, up' = up, NEW g, SetTop(p, g),
             Forced(g) => Forced(Top(p)), g.at = "reset" => g.mode = "stalled"
      PROVE  StackShape'
    <2>1. Renews(p, Depth(p), g)
        BY <1>0, SetTopCalls
    <2>2. /\ p \in Procs /\ Depth(p) \in Nat /\ Live(p, Depth(p))
          /\ stack[p][Depth(p)] = Top(p)
        BY <1>0, TopIsLive
    <2>3. \A q \in Procs : q \notin up' => stack'[q] = << >>
        BY <1>0 DEF SetTop, StackShape, TypeOK
    <2>4. Depth(p) <= MaxDepth + 1 /\ (Forced(g) => p \in Operators /\ Depth(p) = 1)
        BY <1>0, <2>2 DEF StackShape
    <2> QED
        BY <1>0, <2>1, <2>2, <2>3, <2>4, ShapeRenewed
<1>1. ASSUME NEW p \in Procs, NEW r \in Rows,
             PassOver(p, r) \/ Settle(p, r) \/ Abandon(p, r)
      PROVE  StackShape'
    <2>1. p \in up /\ stack[p] # << >> /\ up' = up /\ SetTop(p, NextRow(Top(p), r))
        BY <1>1 DEF PassOver, Settle, Abandon, Working
    <2>2. Forced(NextRow(Top(p), r)) => Forced(Top(p))
        BY DEF Forced, NextRow, Call
    <2>3. NextRow(Top(p), r).at = "reset" => NextRow(Top(p), r).mode = "stalled"
        BY DEF NextRow, Call, FirstStep
    <2> QED
        BY <2>1, <2>2, <2>3, <1>0
<1>2. ASSUME NEW p \in Procs, NEW r \in Rows, Claim(p, r)
      PROVE  StackShape'
    <2> DEFINE g == [Top(p) EXCEPT !.at = "run", !.attempt = outbox[r].attempts + 1]
    <2>1. p \in up /\ stack[p] # << >> /\ up' = up /\ SetTop(p, g)
        BY <1>2 DEF Claim, Working
    <2>2. (Forced(g) => Forced(Top(p))) /\ g.at # "reset"
        BY <2>1, TopIsLive DEF Forced, Frame
    <2> QED
        BY <2>1, <2>2, <1>0
<1>3. ASSUME NEW p \in Procs, NEW r \in Rows, NEW o \in Settled, RunConsumer(p, r, o)
      PROVE  StackShape'
    <2> DEFINE g == [Top(p) EXCEPT !.at = "ran", !.outcome = o]
    <2>1. p \in up /\ stack[p] # << >> /\ up' = up /\ SetTop(p, g)
        BY <1>3 DEF RunConsumer, Working
    <2>2. (Forced(g) => Forced(Top(p))) /\ g.at # "reset"
        BY <2>1, TopIsLive DEF Forced, Frame
    <2> QED
        BY <2>1, <2>2, <1>0
<1>4. ASSUME NEW p \in Procs, NEW r \in Rows, Reset(p, r)
      PROVE  StackShape'
    <2> DEFINE g == IF Withheld(p, r) THEN NextRow(Top(p), r)
                    ELSE [Top(p) EXCEPT !.at = "claim"]
    <2>1. p \in up /\ stack[p] # << >> /\ up' = up /\ SetTop(p, g)
        BY <1>4 DEF Reset, Working
    <2>2. (Forced(g) => Forced(Top(p))) /\ (g.at = "reset" => g.mode = "stalled")
        BY <2>1, TopIsLive DEF Forced, Frame, NextRow, Call, FirstStep
    <2> QED
        BY <2>1, <2>2, <1>0
<1>5. ASSUME NEW p \in Procs, Finish(p)
      PROVE  StackShape'
    <2>1. p \in up /\ stack[p] # << >> /\ up' = up
        BY <1>5 DEF Finish
    <2>2. CASE Top(p).mode = "pending" /\ Top(p).force
        BY <1>0, <1>5, <2>1, <2>2 DEF Finish, Forced, Call
    <2>3. CASE ~(Top(p).mode = "pending" /\ Top(p).force)
        <3>1. Pop(p)
            BY <1>5, <2>3 DEF Finish
        <3>2. NoNewCall
            BY <2>1, <3>1, PopCalls, TopIsLive, QuietCalls
        <3>3. \A q \in Procs : q \notin up' => stack'[q] = << >>
            BY <2>1, <3>1 DEF Pop, StackShape, TypeOK
        <3> QED
            BY <3>2, <3>3 DEF StackShape, NoNewCall, Forced
    <2> QED
        BY <2>2, <2>3
<1>6. ASSUME NEW p \in Procs, NEW first \in Rows, NEW n \in 1..MaxFanout,
             NEW asks \in SUBSET (1..n), Enqueue(p, first, n, asks)
      PROVE  StackShape'
    <2> DEFINE g == Call("deliver", FALSE, first..(first + n - 1))
    <2>1. /\ Renews(p, Depth(p) + 1, g) /\ Depth(p) + 1 \in Nat
          /\ Depth(p) + 1 <= MaxDepth + 1
        BY <1>6, EnqueueCalls
    <2>2. ~Forced(g) /\ g.at # "reset"
        BY DEF Forced, Call, FirstStep
    <2>3. \A q \in Procs : q \notin up' => stack'[q] = << >>
        BY <1>6 DEF Enqueue, MayDispatch, Push, StackShape, TypeOK
    <2> HIDE DEF g
    <2> QED
        BY <2>1, <2>2, <2>3, ShapeRenewed
<1>7. ASSUME NEW p \in Procs,
             \/ OperatorRedrive(p)
             \/ \E r \in Rows, mode \in {"stalled", "abandon"} : OperatorRow(p, r, mode)
      PROVE  StackShape'
    <2>0. PICK mode, todo : Renews(p, 1, Call(mode, TRUE, todo))
        BY <1>7, FirstCalls
    <2>1. PICK g : Renews(p, 1, g) /\ (g.at = "reset" => g.mode = "stalled")
        BY <2>0 DEF Call, FirstStep
    <2>2. \A q \in Procs : q \notin up' => stack'[q] = << >>
        BY <1>7 DEF OperatorRedrive, OperatorRow, Idle, Push, StackShape, TypeOK
    <2>3. p \in Operators
        BY <1>7 DEF OperatorRedrive, OperatorRow
    <2> QED
        BY <2>1, <2>2, <2>3, ShapeRenewed
<1>8. ASSUME NEW p \in Procs, Boot(p)
      PROVE  StackShape'
    <2> DEFINE g == Call("pending", FALSE, Status("pending"))
    <2>1. Renews(p, 1, g)
        BY <1>8, FirstCalls
    <2>2. ~Forced(g) /\ g.at # "reset"
        BY DEF Forced, Call, FirstStep
    <2>3. \A q \in Procs : q \notin up' => stack'[q] = << >>
        BY <1>8 DEF Boot, Push, StackShape, TypeOK
    <2> HIDE DEF g
    <2> QED
        BY <2>1, <2>2, <2>3, ShapeRenewed
<1>9. ASSUME NEW p \in Procs, Crash(p)
      PROVE  StackShape'
    <2>1. NoNewCall
        BY <1>9, QuietCalls
    <2>2. \A q \in Procs : q \notin up' => stack'[q] = << >>
        BY <1>9 DEF Crash, StackShape, TypeOK
    <2> QED
        BY <2>1, <2>2 DEF StackShape, NoNewCall, Forced
<1>10. ASSUME NEW r \in Rows, Age(r)
       PROVE  StackShape'
    BY <1>10 DEF Age, StackShape, Live, Forced
<1>11. CASE UNCHANGED vars
    BY <1>11 DEF vars, StackShape, Live, Forced
<1> QED
    BY <1>1, <1>2, <1>3, <1>4, <1>5, <1>6, <1>7, <1>8, <1>9, <1>10, <1>11 DEF Next, Relay

----------------------------------------------------------------------------
(* The rows of the table stay there, of the same save and kind, and no      *)
(* start is forgotten.                                                      *)
Grows ==
    \A s \in Rows :
        /\ (outbox'[s].status = "absent") <=> (outbox[s].status = "absent")
        /\ outbox'[s].batch = outbox[s].batch /\ outbox'[s].ask = outbox[s].ask
        /\ outbox'[s].attempts >= outbox[s].attempts

NoStart == \A s \in Rows : outbox'[s].attempts = outbox[s].attempts

(* A step that leaves the table alone starts nothing. *)
LEMMA SameRows ==
    ASSUME TypeOK, UNCHANGED outbox
    PROVE  Grows /\ NoStart
PROOF
<1>1. \A s \in Rows : outbox[s].attempts \in Nat
    BY DEF TypeOK, Row
<1> QED
    BY <1>1 DEF Grows, NoStart

(* A write to one row of the table keeps its shape, when it leaves the row  *)
(* started or pending.                                                      *)
LEMMA RowWritten ==
    ASSUME TypeOK, TypeOK', TableShape, NEW r \in Rows,
           \A s \in Rows : s # r => outbox'[s] = outbox[s],
           outbox[r].status # "absent", outbox'[r].status # "absent",
           outbox'[r].batch = outbox[r].batch, outbox'[r].ask = outbox[r].ask,
           outbox'[r].attempts >= outbox[r].attempts,
           outbox'[r].status # "pending" => outbox'[r].attempts > 0
    PROVE  TableShape' /\ Grows
PROOF
<1>1. \A s \in Rows : outbox[s].attempts \in Nat
    BY DEF TypeOK, Row
<1>2. Grows
    BY <1>1 DEF Grows
<1>3. TableShape'
    <2> SUFFICES ASSUME NEW q \in Rows
                 PROVE  /\ outbox'[q].status = "absent" =>
                             /\ outbox'[q].attempts = 0
                             /\ \A s \in Rows : q <= s => outbox'[s].status = "absent"
                        /\ outbox'[q].status # "absent" => outbox'[q].batch \in 1..q
                        /\ outbox'[q].status \notin {"absent", "pending"}
                               => outbox'[q].attempts > 0
        BY DEF TableShape
    <2>1. CASE q = r
        BY <2>1 DEF TableShape
    <2>2. CASE q # r
        BY <2>2 DEF TableShape
    <2> QED
        BY <2>1, <2>2
<1> QED
    BY <1>2, <1>3

(* What a call has left behind stays behind it. *)
LEMMA OldCall ==
    ASSUME TypeOK, TypeOK', Grows, NEW f \in Frame, InTable(f), InOrder(f)
    PROVE  InTable(f)' /\ InOrder(f)'
PROOF
<1>1. \A s \in Rows : outbox[s].attempts \in Nat /\ outbox'[s].attempts \in Nat
    BY DEF TypeOK, Row
<1>2. \A s \in f.todo : s \in Rows
    BY DEF Frame
<1>3. InTable(f)'
    BY <1>1, <1>2 DEF Grows, InTable
<1>4. InOrder(f)'
    BY <1>1, <1>2 DEF Grows, InOrder
<1> QED
    BY <1>3, <1>4

(* A live call is a frame. *)
LEMMA LiveIsFrame ==
    ASSUME TypeOK, NEW q \in Procs, NEW i \in Nat, Live(q, i)
    PROVE  stack[q][i] \in Frame
PROOF
<1>1. stack[q] \in Seq(Frame) /\ i \in DOMAIN stack[q]
    BY DEF TypeOK, Live
<1> QED
    BY <1>1

(* The calls are in order after a step when each of them, named, is. *)
LEMMA CallByCall ==
    ASSUME \A q \in Procs, i \in Nat : \A f :
               Live(q, i)' /\ f = stack'[q][i] => InTable(f)' /\ InOrder(f)'
    PROVE  CallsInOrder'
PROOF
<1> SUFFICES ASSUME NEW q \in Procs, NEW i \in Nat, Live(q, i)'
             PROVE  InTable(stack[q][i])' /\ InOrder(stack[q][i])'
    BY DEF CallsInOrder
<1>1. PICK f : f = stack'[q][i]
    OBVIOUS
<1>2. InTable(f)' /\ InOrder(f)'
    BY <1>1
<1> QED
    BY <1>1, <1>2 DEF InTable, InOrder, InConsumer

(* Calls that only stay or end stay in order. *)
LEMMA CallsStay ==
    ASSUME TypeOK, TypeOK', Grows, CallsInOrder, NoNewCall
    PROVE  CallsInOrder'
PROOF
<1> SUFFICES ASSUME NEW q \in Procs, NEW i \in Nat, NEW f, Live(q, i)', f = stack'[q][i]
             PROVE  InTable(f)' /\ InOrder(f)'
    BY CallByCall
<1>1. Live(q, i) /\ f = stack[q][i]
    BY DEF NoNewCall
<1>2. f \in Frame /\ InTable(f) /\ InOrder(f)
    BY <1>1, LiveIsFrame DEF CallsInOrder
<1> QED
    BY <1>2, OldCall

(* One renewed call is in order if its own frame is. *)
LEMMA CallsRenewed ==
    ASSUME TypeOK, TypeOK', Grows, CallsInOrder, NEW p \in Procs, NEW k \in Nat,
           NEW g, Renews(p, k, g), InTable(g)', InOrder(g)'
    PROVE  CallsInOrder'
PROOF
<1> SUFFICES ASSUME NEW q \in Procs, NEW i \in Nat, NEW f, Live(q, i)', f = stack'[q][i]
             PROVE  InTable(f)' /\ InOrder(f)'
    BY CallByCall
<1>1. CASE q = p /\ i = k
    BY <1>1 DEF Renews
<1>2. CASE ~(q = p /\ i = k)
    <2>1. Live(q, i) /\ f = stack[q][i]
        BY <1>2 DEF Renews
    <2>2. f \in Frame /\ InTable(f) /\ InOrder(f)
        BY <2>1, LiveIsFrame DEF CallsInOrder
    <2> QED
        BY <2>2, OldCall
<1> QED
    BY <1>1, <1>2

(* The call that is done with a row it started or withheld is still in      *)
(* order on the rest.                                                       *)
LEMMA MovesOn ==
    ASSUME TypeOK, TypeOK', Grows, CallsInOrder, NEW p \in up, stack[p] # << >>,
           NEW r \in Rows, FirstOf(r, Top(p).todo),
           outbox[r].attempts > 0 \/ outbox[r].ask,
           NEW g, g = NextRow(Top(p), r), Renews(p, Depth(p), g)
    PROVE  CallsInOrder'
PROOF
<1>1. PICK f \in Frame : f = Top(p)
    BY TopIsLive
<1>2. InTable(f) /\ InOrder(f)
    BY <1>1, TopIsLive DEF CallsInOrder
<1>3. /\ g.todo = f.todo \ {r} /\ g.mode = f.mode
      /\ \A s : ~InConsumer(g, s)
    BY <1>1 DEF NextRow, Call, FirstStep, InConsumer
<1>4. InTable(g) /\ InOrder(g)
    <2>1. InTable(g)
        BY <1>2, <1>3 DEF InTable
    <2>2. InOrder(g)
        BY <1>2, <1>3 DEF InOrder
    <2> QED
        BY <2>1, <2>2
<1>5. g \in Frame
    BY <1>1, NextRowType
<1>6. InTable(g)' /\ InOrder(g)'
    BY <1>4, <1>5, OldCall
<1> QED
    BY <1>6, TopIsLive, CallsRenewed

(* The call that goes on with its row is in order, when the row it runs has *)
(* been started.                                                            *)
LEMMA GoesOn ==
    ASSUME TypeOK, TypeOK', Grows, CallsInOrder, NEW p \in up, stack[p] # << >>,
           NEW g, g.todo = Top(p).todo, g.mode = Top(p).mode,
           Renews(p, Depth(p), g),
           \A s \in Rows : InConsumer(g, s) => outbox'[s].attempts > 0
    PROVE  CallsInOrder'
PROOF
<1>1. PICK f \in Frame : f = Top(p)
    BY TopIsLive
<1>2. InTable(f) /\ InOrder(f)
    BY <1>1, TopIsLive DEF CallsInOrder
<1>3. InTable(f)' /\ InOrder(f)'
    BY <1>2, OldCall
<1>4. InTable(g)'
    BY <1>1, <1>3 DEF InTable, Frame
<1>5. InOrder(g)'
    BY <1>1, <1>3 DEF InOrder
<1> QED
    BY <1>4, <1>5, TopIsLive, CallsRenewed

(* A call on rows just read: all the pending ones, or ones already started. *)
LEMMA StartsOn ==
    ASSUME TypeOK, TypeOK', TableShape, CallsInOrder, UNCHANGED outbox,
           NEW p \in Procs, NEW k \in Nat, NEW mode, NEW force, NEW todo \in SUBSET Rows,
           \/ mode = "pending" /\ todo = Status("pending")
           \/ \A r \in todo : outbox[r].status = "claimed",
           NEW g, g = Call(mode, force, todo), Renews(p, k, g)
    PROVE  CallsInOrder'
PROOF
<1>1. g.todo = todo /\ g.mode = mode /\ \A s : ~InConsumer(g, s)
    BY DEF Call, FirstStep, InConsumer
<1>2. InTable(g)
    BY <1>1 DEF InTable, TableShape, Status
<1>3. InOrder(g)
    <2> SUFFICES ASSUME NEW r \in todo, NEW s \in Rows, s < r,
                        outbox[s].batch = outbox[r].batch,
                        outbox[r].attempts = 0, s \notin todo
                 PROVE  outbox[s].attempts > 0
        BY <1>1 DEF InOrder
    <2>1. outbox[r].status # "claimed"
        BY DEF TableShape
    <2>2. outbox[r].status = "pending" /\ outbox[s].status # "pending"
        BY <2>1 DEF Status
    <2>3. outbox[s].status # "absent"
        BY <2>2 DEF TableShape, Rows
    <2> QED
        BY <2>2, <2>3 DEF TableShape
<1>4. InTable(g)' /\ InOrder(g)'
    BY <1>2, <1>3 DEF InTable, InOrder, InConsumer
<1> QED
    BY <1>4, SameRows, CallsRenewed

(* With no start, nothing starts out of order. *)
LEMMA OrderKept ==
    ASSUME Grows, NoStart, StartsInOrder
    PROVE  StartsInOrder'
PROOF BY DEF Grows, NoStart, StartsInOrder

(* Writing a status, or the age, is no start. *)
LEMMA StatusWritten ==
    ASSUME TypeOK, TypeOK', TableShape, NEW r \in Rows, NEW st,
           outbox' = [outbox EXCEPT ![r].status = st],
           outbox[r].status # "absent", st # "absent",
           st = "pending" \/ outbox[r].attempts > 0
    PROVE  TableShape' /\ Grows /\ NoStart
PROOF
<1>1. \A s \in Rows : outbox[s].attempts \in Nat /\ outbox[s] \in Row
    BY DEF TypeOK, Row
<1>2. outbox' = [outbox EXCEPT ![r] = [outbox[r] EXCEPT !.status = st]]
    BY DEF TypeOK
<1>3. /\ outbox'[r] = [outbox[r] EXCEPT !.status = st]
      /\ \A s \in Rows : s # r => outbox'[s] = outbox[s]
    BY <1>2 DEF TypeOK
<1>4. /\ outbox'[r].status = st /\ outbox'[r].attempts = outbox[r].attempts
      /\ outbox'[r].batch = outbox[r].batch /\ outbox'[r].ask = outbox[r].ask
    BY <1>1, <1>3 DEF Row
<1>5. TableShape' /\ Grows
    BY <1>1, <1>3, <1>4, RowWritten
<1>6. NoStart
    BY <1>3, <1>4 DEF NoStart
<1> QED
    BY <1>5, <1>6

(* The row a call works on is in the table. *)
LEMMA WorkedRow ==
    ASSUME TypeOK, CallsInOrder, NEW p, NEW r \in Rows, NEW at, Working(p, r, at)
    PROVE  /\ p \in up /\ p \in Procs /\ stack[p] # << >> /\ FirstOf(r, Top(p).todo)
           /\ outbox[r].status # "absent"
           /\ (at \in {"run", "ran"} \/ Top(p).mode \in {"stalled", "abandon"})
                  => outbox[r].attempts > 0
PROOF
<1>1. p \in up /\ stack[p] # << >> /\ FirstOf(r, Top(p).todo) /\ Top(p).at = at
    BY DEF Working
<1>2. p \in Procs /\ InTable(Top(p)) /\ r \in Top(p).todo
    BY <1>1, TopIsLive DEF CallsInOrder, FirstOf
<1> QED
    BY <1>1, <1>2 DEF InTable, InConsumer

(* A save's rows are new, all unstarted, and behind no other row of theirs. *)
LEMMA EnqueueOrder ==
    ASSUME OrderInv, TypeOK', StackShape', NEW p \in Procs, NEW first \in Rows,
           NEW n \in 1..MaxFanout, NEW asks \in SUBSET (1..n), Enqueue(p, first, n, asks)
    PROVE  OrderInv'
PROOF
<1> DEFINE new == first..(first + n - 1)
<1>1. TypeOK /\ TableShape /\ CallsInOrder /\ StartsInOrder
    BY DEF OrderInv
<1>2. /\ new \subseteq Rows /\ first \in new /\ first \in Nat /\ first >= 1 /\ n \in Nat
      /\ \A s \in new : first <= s
    BY DEF Enqueue, Rows
<1>3. /\ \A s \in new : /\ outbox[s].status = "absent"
                        /\ outbox'[s].status = "pending" /\ outbox'[s].attempts = 0
                        /\ outbox'[s].batch = first
      /\ \A s \in Rows \ new : outbox'[s] = outbox[s]
    BY <1>1, <1>2 DEF Enqueue, NextId, Status, TableShape
<1>4. \A s \in Rows : outbox[s].status # "absent" => s < first /\ outbox[s].batch \in 1..s
    BY <1>1, <1>2, <1>3 DEF TableShape, Rows
<1>5. \A s \in Rows : s < first => outbox[s].status # "absent"
    BY <1>2 DEF Enqueue, NextId, Status, Rows
<1>6. \A s \in Rows : s \in Nat /\ outbox[s].attempts \in Nat
    BY <1>1 DEF TypeOK, Row, Rows
<1> HIDE DEF new
<1>7. TableShape'
    <2> SUFFICES ASSUME NEW q \in Rows
                 PROVE  /\ outbox'[q].status = "absent" =>
                             /\ outbox'[q].attempts = 0
                             /\ \A s \in Rows : q <= s => outbox'[s].status = "absent"
                        /\ outbox'[q].status # "absent" => outbox'[q].batch \in 1..q
                        /\ outbox'[q].status \notin {"absent", "pending"}
                               => outbox'[q].attempts > 0
        BY DEF TableShape
    <2>1. CASE q \in new
        BY <1>2, <1>3, <1>6, <2>1
    <2>2. CASE q \notin new
        <3>1. outbox'[q] = outbox[q]
            BY <1>3, <2>2
        <3>2. ASSUME NEW s \in Rows, outbox[q].status = "absent", q <= s
              PROVE  outbox'[s].status = "absent"
            <4>0. q \in Nat /\ s \in Nat /\ ~(q < first)
                BY <1>5, <1>6, <3>2
            <4>1. q > first + n - 1
                BY <1>2, <2>2, <4>0 DEF new
            <4>2. s \notin new
                BY <1>2, <3>2, <4>0, <4>1 DEF new
            <4> QED
                BY <1>1, <1>3, <3>2, <4>2 DEF TableShape
        <3> QED
            BY <1>1, <3>1, <3>2 DEF TableShape
    <2> QED
        BY <2>1, <2>2
<1>8. StartsInOrder'
    <2> SUFFICES ASSUME NEW i \in Rows, NEW j \in Rows, i < j,
                        outbox'[i].batch = outbox'[j].batch, outbox'[j].attempts > 0
                 PROVE  outbox'[i].attempts > 0 \/ outbox'[i].ask
        BY DEF StartsInOrder
    <2>1. j \notin new
        BY <1>3
    <2>2. outbox'[j] = outbox[j] /\ outbox[j].status # "absent"
        BY <1>1, <1>3, <2>1 DEF TableShape
    <2>3. j < first /\ i < first
        BY <1>2, <1>4, <1>6, <2>2
    <2>4. i \notin new
        BY <1>2, <1>6, <2>3
    <2> QED
        BY <1>1, <1>3, <2>2, <2>4 DEF StartsInOrder
<1>9. CallsInOrder'
    <2>1. PICK g : g = Call("deliver", FALSE, new)
        OBVIOUS
    <2>2. g \in Frame /\ Push(p, g)
        BY <1>2, <2>1, CallType DEF Enqueue, new
    <2>3. p \in up /\ up' = up
        BY DEF Enqueue, MayDispatch
    <2>4. Renews(p, Depth(p) + 1, g) /\ Depth(p) + 1 \in Nat
        BY <1>1, <2>2, <2>3, PushCalls DEF TypeOK, Depth
    <2>5. g.todo = new /\ g.mode = "deliver" /\ \A s : ~InConsumer(g, s)
        BY <2>1 DEF Call, FirstStep, InConsumer
    <2>6. InTable(g)'
        BY <1>3, <2>5 DEF InTable
    <2>7. InOrder(g)'
        <3> SUFFICES ASSUME NEW r \in new, NEW s \in Rows, s < r,
                            outbox'[s].batch = outbox'[r].batch, s \notin new
                     PROVE  FALSE
            BY <2>5 DEF InOrder
        <3>1. s < first
            BY <1>2, <1>6 DEF new
        <3>2. outbox[s].batch \in 1..s /\ outbox[s].batch = first
            BY <1>3, <1>4, <1>5, <3>1
        <3>3. s \in Nat
            BY <1>6
        <3> QED
            BY <1>2, <3>1, <3>2, <3>3
    <2> SUFFICES ASSUME NEW q \in Procs, NEW i \in Nat, NEW f, Live(q, i)', f = stack'[q][i]
                 PROVE  InTable(f)' /\ InOrder(f)'
        BY CallByCall
    <2>8. CASE q = p /\ i = Depth(p) + 1
        BY <2>4, <2>6, <2>7, <2>8 DEF Renews
    <2>9. CASE ~(q = p /\ i = Depth(p) + 1)
        <3>1. Live(q, i) /\ f = stack[q][i]
            BY <2>4, <2>9 DEF Renews
        <3>2. f \in Frame /\ InTable(f) /\ InOrder(f) /\ f.todo \subseteq Rows
            BY <1>1, <3>1, LiveIsFrame DEF CallsInOrder, Frame
        <3>3. ASSUME NEW r \in f.todo
              PROVE  r < first /\ r \notin new
            <4>1. r \in Rows /\ outbox[r].status # "absent"
                BY <3>2 DEF InTable
            <4>2. r < first /\ r \in Nat
                BY <1>4, <1>6, <4>1
            <4> QED
                BY <1>2, <4>2 DEF new
        <3>4. InTable(f)'
            BY <1>3, <3>2, <3>3 DEF InTable
        <3>5. InOrder(f)'
            <4> SUFFICES ASSUME NEW r \in f.todo, NEW s \in Rows, s < r,
                                outbox'[s].batch = outbox'[r].batch,
                                outbox'[r].attempts = 0, s \notin f.todo
                         PROVE  outbox'[s].attempts > 0 \/ outbox'[s].ask
                BY DEF InOrder
            <4>0. r \in Rows /\ r \in Nat /\ s \in Nat
                BY <1>6, <3>2
            <4>1. r < first /\ r \notin new
                BY <3>3
            <4>2. s < first
                BY <1>2, <4>0, <4>1
            <4>3. s \notin new
                BY <1>2, <4>0, <4>2
            <4>4. outbox'[s] = outbox[s] /\ outbox'[r] = outbox[r]
                BY <1>3, <4>0, <4>1, <4>3
            <4> QED
                BY <3>2, <4>4 DEF InOrder
        <3> QED
            BY <3>4, <3>5
    <2> QED
        BY <2>8, <2>9
<1> QED
    BY <1>7, <1>8, <1>9 DEF OrderInv

(* A claim starts the first unstarted row its call has left. *)
LEMMA ClaimOrder ==
    ASSUME OrderInv, TypeOK', StackShape', NEW p \in Procs, NEW r \in Rows, Claim(p, r)
    PROVE  OrderInv'
PROOF
<1>1. TypeOK /\ TableShape /\ CallsInOrder /\ StartsInOrder
    BY DEF OrderInv
<1>2. Working(p, r, "claim") /\ outbox[r].status = "pending" /\ UNCHANGED up
    BY DEF Claim, Claimable
<1>3. /\ p \in up /\ stack[p] # << >> /\ FirstOf(r, Top(p).todo)
    BY <1>1, <1>2, WorkedRow
<1>4. PICK g : g = [Top(p) EXCEPT !.at = "run", !.attempt = outbox[r].attempts + 1]
    OBVIOUS
<1>5. Renews(p, Depth(p), g)
    BY <1>1, <1>2, <1>3, <1>4, SetTopCalls DEF Claim
<1>6. \A s \in Rows : outbox[s] \in Row /\ outbox[s].attempts \in Nat /\ s \in Nat
    BY <1>1 DEF TypeOK, Row, Rows
<1>7. /\ outbox'[r] = [outbox[r] EXCEPT !.status = "claimed", !.attempts = @ + 1,
                                        !.old = FALSE]
      /\ \A s \in Rows : s # r => outbox'[s] = outbox[s]
    BY <1>1 DEF Claim, TypeOK
<1>8. /\ outbox'[r].status = "claimed" /\ outbox'[r].attempts = outbox[r].attempts + 1
      /\ outbox'[r].batch = outbox[r].batch /\ outbox'[r].ask = outbox[r].ask
    BY <1>6, <1>7 DEF Row
<1>9. TableShape' /\ Grows
    <2>1. outbox'[r].attempts >= outbox[r].attempts /\ outbox'[r].attempts > 0
        BY <1>6, <1>8
    <2>2. outbox[r].status # "absent" /\ outbox'[r].status # "absent"
        BY <1>2, <1>8
    <2> QED
        BY <1>1, <1>7, <1>8, <2>1, <2>2, RowWritten
<1>10. CallsInOrder'
    <2>1. Top(p) \in Frame
        BY <1>1, <1>3, TopIsLive
    <2>2. g.todo = Top(p).todo /\ g.mode = Top(p).mode
        BY <1>4, <2>1 DEF Frame
    <2>3. \A s \in Rows : InConsumer(g, s) => s = r
        BY <1>3, <1>6, <2>2 DEF InConsumer, FirstOf
    <2>4. \A s \in Rows : InConsumer(g, s) => outbox'[s].attempts > 0
        BY <1>6, <1>8, <2>3
    <2> QED
        BY <1>1, <1>3, <1>5, <1>9, <2>2, <2>4, GoesOn
<1>11. StartsInOrder'
    <2> SUFFICES ASSUME NEW i \in Rows, NEW j \in Rows, i < j,
                        outbox'[i].batch = outbox'[j].batch, outbox'[j].attempts > 0
                 PROVE  outbox'[i].attempts > 0 \/ outbox'[i].ask
        BY DEF StartsInOrder
    <2>1. /\ outbox[i].batch = outbox[j].batch
          /\ outbox'[i].ask = outbox[i].ask /\ outbox'[i].attempts >= outbox[i].attempts
          /\ outbox'[i].attempts \in Nat /\ outbox'[j].attempts \in Nat
        BY <1>9 DEF Grows, TypeOK, Row
    <2>2. CASE outbox[j].attempts > 0
        BY <1>1, <1>6, <2>1, <2>2 DEF StartsInOrder
    <2>3. CASE ~(outbox[j].attempts > 0)
        <3>1. j = r /\ outbox[j].attempts = 0
            BY <1>6, <1>7, <2>3
        <3>2. InOrder(Top(p)) /\ r \in Top(p).todo /\ i \notin Top(p).todo
            BY <1>1, <1>3, <1>6, <3>1, TopIsLive DEF CallsInOrder, FirstOf
        <3> QED
            BY <1>6, <2>1, <3>1, <3>2 DEF InOrder
    <2> QED
        BY <2>2, <2>3
<1> QED
    BY <1>9, <1>10, <1>11 DEF OrderInv

(* Every step keeps the starts of a save in order. *)
LEMMA OrderStep == OrderInv /\ [Next]_vars => OrderInv'
PROOF
<1> SUFFICES ASSUME OrderInv, [Next]_vars PROVE OrderInv'
    OBVIOUS
<1>0. /\ TypeOK /\ StackShape /\ TableShape /\ CallsInOrder /\ StartsInOrder
      /\ TypeOK' /\ StackShape'
    BY TypeStep, StackStep DEF OrderInv
<1>q. ASSUME Grows, NoStart, TableShape', CallsInOrder'
      PROVE  OrderInv'
    BY <1>0, <1>q, OrderKept DEF OrderInv
<1>s. ASSUME UNCHANGED outbox, CallsInOrder'
      PROVE  OrderInv'
    <2>1. TableShape'
        BY <1>0, <1>s DEF TableShape
    <2> QED
        BY <1>0, <1>q, <1>s, <2>1, SameRows
<1>1. ASSUME NEW p \in Procs, NEW r \in Rows, PassOver(p, r)
      PROVE  OrderInv'
    <2>1. /\ p \in up /\ stack[p] # << >> /\ FirstOf(r, Top(p).todo)
          /\ outbox[r].status # "absent"
        BY <1>0, <1>1, WorkedRow DEF PassOver
    <2>2. outbox[r].attempts > 0 \/ outbox[r].ask
        BY <1>0, <1>1, <2>1 DEF PassOver, Withheld, Claimable, TableShape
    <2>3. UNCHANGED outbox
        BY <1>1 DEF PassOver
    <2>4. CallsInOrder'
        BY <1>0, <1>1, <2>1, <2>2, <2>3, SameRows, RelayCalls, MovesOn
    <2> QED
        BY <1>s, <2>3, <2>4
<1>2. ASSUME NEW p \in Procs, NEW r \in Rows, NEW o \in Settled, RunConsumer(p, r, o)
      PROVE  OrderInv'
    <2>1. /\ p \in up /\ stack[p] # << >> /\ FirstOf(r, Top(p).todo)
          /\ outbox[r].attempts > 0
        BY <1>0, <1>2, WorkedRow DEF RunConsumer
    <2>2. UNCHANGED outbox
        BY <1>2 DEF RunConsumer
    <2>3. PICK g : g = [Top(p) EXCEPT !.at = "ran", !.outcome = o]
        OBVIOUS
    <2>4. Top(p) \in Frame
        BY <1>0, <2>1, TopIsLive
    <2>5. g.todo = Top(p).todo /\ g.mode = Top(p).mode
        BY <2>3, <2>4 DEF Frame
    <2>6. \A s \in Rows : InConsumer(g, s) => s = r
        BY <2>1, <2>5 DEF InConsumer, FirstOf, Rows
    <2>7. Renews(p, Depth(p), g)
        BY <1>0, <1>2, <2>3, RelayCalls
    <2>8. CallsInOrder'
        BY <1>0, <2>1, <2>2, <2>5, <2>6, <2>7, SameRows, GoesOn
    <2> QED
        BY <1>s, <2>2, <2>8
<1>3. ASSUME NEW p \in Procs, NEW r \in Rows, Settle(p, r) \/ Abandon(p, r)
      PROVE  OrderInv'
    <2>1. PICK st \in Settled : outbox' = [outbox EXCEPT ![r].status = st]
        BY <1>0, <1>3, TopIsLive DEF Settle, Abandon, Working, Frame, Settled
    <2>2. /\ p \in up /\ stack[p] # << >> /\ FirstOf(r, Top(p).todo)
          /\ outbox[r].status # "absent" /\ outbox[r].attempts > 0
        BY <1>0, <1>3, WorkedRow DEF Settle, Abandon
    <2>3. st # "absent"
        BY DEF Settled
    <2>4. TableShape' /\ Grows /\ NoStart
        BY <1>0, <2>1, <2>2, <2>3, StatusWritten
    <2>5. CallsInOrder'
        BY <1>0, <1>3, <2>2, <2>4, RelayCalls, MovesOn
    <2> QED
        BY <1>q, <2>4, <2>5
<1>4. ASSUME NEW p \in Procs, NEW r \in Rows, Reset(p, r)
      PROVE  OrderInv'
    <2>1. /\ p \in up /\ stack[p] # << >> /\ FirstOf(r, Top(p).todo)
          /\ outbox[r].status # "absent"
        BY <1>0, <1>4, WorkedRow DEF Reset
    <2>2. CASE Withheld(p, r)
        <3>1. UNCHANGED outbox /\ outbox[r].ask
            BY <1>4, <2>2 DEF Reset, Withheld
        <3>2. Renews(p, Depth(p), NextRow(Top(p), r))
            BY <1>0, <1>4, <2>2, RelayCalls
        <3>3. CallsInOrder'
            BY <1>0, <2>1, <3>1, <3>2, SameRows, MovesOn
        <3> QED
            BY <1>s, <3>1, <3>3
    <2>3. CASE ~Withheld(p, r)
        <3>1. outbox' = [outbox EXCEPT ![r].status = "pending"]
            BY <1>4, <2>3 DEF Reset
        <3>2. TableShape' /\ Grows /\ NoStart
            BY <1>0, <2>1, <3>1, StatusWritten
        <3>3. PICK g : g = [Top(p) EXCEPT !.at = "claim"]
            OBVIOUS
        <3>4. Top(p) \in Frame
            BY <1>0, <2>1, TopIsLive
        <3>5. g.todo = Top(p).todo /\ g.mode = Top(p).mode /\ \A s : ~InConsumer(g, s)
            BY <3>3, <3>4 DEF Frame, InConsumer
        <3>6. Renews(p, Depth(p), g)
            BY <1>0, <1>4, <2>3, <3>3, RelayCalls
        <3>7. CallsInOrder'
            BY <1>0, <2>1, <3>2, <3>5, <3>6, GoesOn
        <3> QED
            BY <1>q, <3>2, <3>7
    <2> QED
        BY <2>2, <2>3
<1>5. ASSUME NEW p \in Procs, Finish(p)
      PROVE  OrderInv'
    <2>1. p \in up /\ stack[p] # << >> /\ UNCHANGED outbox
        BY <1>5 DEF Finish
    <2>3. Depth(p) \in Nat
        BY <1>0, <2>1, TopIsLive
    <2>4. CASE Top(p).mode = "pending" /\ Top(p).force
        <3>1. Renews(p, Depth(p), Call("stalled", TRUE, Stalled))
            BY <1>0, <1>5, <2>4, FinishCalls
        <3>2. Stalled \in SUBSET Rows /\ \A s \in Stalled : outbox[s].status = "claimed"
            BY DEF Stalled, Status
        <3>3. CallsInOrder'
            BY <1>0, <2>1, <2>3, <3>1, <3>2, StartsOn
        <3> QED
            BY <1>s, <2>1, <3>3
    <2>5. CASE ~(Top(p).mode = "pending" /\ Top(p).force)
        <3>1. NoNewCall
            BY <1>0, <1>5, <2>3, <2>5, FinishCalls, QuietCalls
        <3> QED
            BY <1>0, <1>s, <2>1, <3>1, SameRows, CallsStay
    <2> QED
        BY <2>4, <2>5
<1>6. ASSUME NEW p \in Procs, OperatorRedrive(p) \/ Boot(p)
      PROVE  OrderInv'
    <2>1. PICK force : Renews(p, 1, Call("pending", force, Status("pending")))
        BY <1>0, <1>6, FirstCalls
    <2>2. UNCHANGED outbox /\ Status("pending") \in SUBSET Rows
        BY <1>6 DEF OperatorRedrive, Boot, Status
    <2>3. CallsInOrder'
        BY <1>0, <2>1, <2>2, StartsOn
    <2> QED
        BY <1>s, <2>2, <2>3
<1>7. ASSUME NEW p \in Procs, NEW r \in Rows, NEW mode \in {"stalled", "abandon"},
             OperatorRow(p, r, mode)
      PROVE  OrderInv'
    <2>1. Renews(p, 1, Call(mode, TRUE, {r}))
        BY <1>0, <1>7, FirstCalls
    <2>2. UNCHANGED outbox /\ \A s \in {r} : outbox[s].status = "claimed"
        BY <1>7 DEF OperatorRow, Stalled, Status
    <2>3. CallsInOrder'
        BY <1>0, <2>1, <2>2, StartsOn
    <2> QED
        BY <1>s, <2>2, <2>3
<1>8. ASSUME NEW p \in Procs, Crash(p)
      PROVE  OrderInv'
    <2>1. NoNewCall /\ UNCHANGED outbox
        BY <1>0, <1>8, QuietCalls DEF Crash
    <2> QED
        BY <1>0, <1>s, <2>1, SameRows, CallsStay
<1>9. ASSUME NEW r \in Rows, Age(r)
      PROVE  OrderInv'
    <2>1. outbox[r] \in Row /\ outbox[r].status = "claimed" /\ outbox[r].attempts \in Nat
        BY <1>0, <1>9 DEF Age, TypeOK, Row
    <2>2. /\ outbox'[r] = [outbox[r] EXCEPT !.old = TRUE]
          /\ \A s \in Rows : s # r => outbox'[s] = outbox[s]
        BY <1>0, <1>9 DEF Age, TypeOK
    <2>3. /\ outbox'[r].status = "claimed" /\ outbox'[r].attempts = outbox[r].attempts
          /\ outbox'[r].batch = outbox[r].batch /\ outbox'[r].ask = outbox[r].ask
        BY <2>1, <2>2 DEF Row
    <2>4. outbox[r].attempts > 0
        BY <1>0, <2>1 DEF TableShape
    <2>5. outbox'[r].attempts >= outbox[r].attempts /\ outbox'[r].attempts > 0
        BY <2>1, <2>3, <2>4
    <2>6. TableShape' /\ Grows
        BY <1>0, <2>1, <2>2, <2>3, <2>5, RowWritten
    <2>7. NoStart
        BY <2>2, <2>3 DEF NoStart
    <2>8. NoNewCall
        BY <1>0, <1>9, QuietCalls DEF Age
    <2> QED
        BY <1>0, <1>q, <2>6, <2>7, <2>8, CallsStay
<1>10. CASE UNCHANGED vars
    <2>1. NoNewCall /\ UNCHANGED outbox
        BY <1>0, <1>10, QuietCalls DEF vars
    <2> QED
        BY <1>0, <1>s, <2>1, SameRows, CallsStay
<1> QED
    BY <1>0, <1>1, <1>2, <1>3, <1>4, <1>5, <1>6, <1>7, <1>8, <1>9, <1>10,
       EnqueueOrder, ClaimOrder DEF Next, Relay

(* No call, no row: everything is in order at the start. *)
LEMMA OrderStart == Init => OrderInv /\ ClaimRuns /\ Claims
PROOF
<1> SUFFICES ASSUME Init PROVE OrderInv /\ ClaimRuns /\ Claims
    OBVIOUS
<1>1. TypeOK
    BY DEF Init, TypeOK, Row, NoRow, Statuses
<1>2. /\ \A p \in Procs, i \in Nat : ~Live(p, i)
      /\ \A p \in Procs, i \in Nat, r \in Rows : ~Runs(p, i, r) /\ ~Holds(p, i, r)
    BY DEF Init, Live, Runs, Holds
<1>3. TableShape /\ StartsInOrder
    BY DEF Init, NoRow, TableShape, StartsInOrder
<1>4. StackShape /\ CallsInOrder
    BY <1>2 DEF Init, StackShape, CallsInOrder
<1>5. ClaimRuns
    BY DEF Init, NoRow, ClaimRuns
<1>6. Claims
    BY <1>2 DEF Claims, ClaimHeld, OneRunner, OldIsIdle, HeldIsIdle, Stalled, Status
<1> QED
    BY <1>1, <1>3, <1>4, <1>5, <1>6 DEF OrderInv

(* The consumers of a save start in Fanout's order, for any number of       *)
(* relays, boots, deaths and operators: every relay visits rows by id, and  *)
(* passes over an unstarted one only where it withholds an ask.             *)
THEOREM StartsAreOrdered == Spec => []StartsInOrder
PROOF
<1>1. OrderInv => StartsInOrder
    BY DEF OrderInv
<1> QED
    BY <1>1, OrderStart, OrderStep, PTL DEF Spec

----------------------------------------------------------------------------
(* No consumer is entered, and the calls in one keep their attempt. *)
FewerRuns ==
    \A q \in Procs, i \in Nat, s \in Rows :
        Runs(q, i, s)' => /\ Runs(q, i, s)
                          /\ stack'[q][i].attempt = stack[q][i].attempt

FewerHolds ==
    \A q \in Procs, i \in Nat, s \in Rows : Holds(q, i, s)' => Holds(q, i, s)

(* A step that leaves the table alone, enters no consumer and takes up only *)
(* stalled rows keeps the claims.                                           *)
LEMMA ClaimsQuiet ==
    ASSUME Claims, UNCHANGED outbox, FewerRuns,
           \A q \in Procs, i \in Nat, s \in Rows :
               Holds(q, i, s)' => Holds(q, i, s) \/ s \in Stalled
    PROVE  Claims'
PROOF
<1>1. ClaimHeld'
    BY DEF Claims, ClaimHeld, FewerRuns
<1>2. OneRunner'
    BY DEF Claims, OneRunner, FewerRuns
<1>3. Stalled' = Stalled /\ Stalled \subseteq Rows
    BY DEF Stalled, Status
<1>4. OldIsIdle'
    BY <1>3 DEF Claims, OldIsIdle, FewerRuns
<1>5. HeldIsIdle'
    BY <1>3 DEF Claims, OldIsIdle, HeldIsIdle, FewerRuns, Stalled, Status
<1> QED
    BY <1>1, <1>2, <1>4, <1>5 DEF Claims

(* So does one that writes a row which nobody runs or holds any more. *)
LEMMA ClaimLeft ==
    ASSUME Claims, NEW r \in Rows, \A s \in Rows : s # r => outbox'[s] = outbox[s],
           outbox'[r].status # "claimed", FewerRuns, FewerHolds,
           \A q \in Procs, i \in Nat : ~Runs(q, i, r)' /\ ~Holds(q, i, r)'
    PROVE  Claims'
PROOF
<1>1. ClaimHeld'
    BY DEF Claims, ClaimHeld, FewerRuns
<1>2. OneRunner'
    BY DEF Claims, OneRunner, FewerRuns
<1>3. Stalled' \subseteq Stalled /\ Stalled \subseteq Rows
    BY DEF Stalled, Status
<1>4. OldIsIdle'
    BY <1>3 DEF Claims, OldIsIdle, FewerRuns
<1>5. HeldIsIdle'
    BY DEF Claims, HeldIsIdle, FewerRuns, FewerHolds
<1> QED
    BY <1>1, <1>2, <1>4, <1>5 DEF Claims

(* Runs and Holds of the next state, call by call. *)
LEMMA RenewedCalls ==
    ASSUME NEW p \in Procs, NEW k \in Nat, NEW g, Renews(p, k, g),
           NEW q \in Procs, NEW i \in Nat, NEW s \in Rows
    PROVE  /\ q = p /\ i = k => /\ Runs(q, i, s)' <=> InConsumer(g, s)
                                /\ Holds(q, i, s)' <=> Blind(g, s)
                                /\ stack'[q][i] = g
           /\ ~(q = p /\ i = k) =>
                /\ Runs(q, i, s)' <=> Runs(q, i, s)
                /\ Holds(q, i, s)' <=> Holds(q, i, s)
                /\ Live(q, i) => stack'[q][i] = stack[q][i]
PROOF
<1>1. Runs(q, i, s)' <=> Live(q, i)' /\ InConsumer(stack'[q][i], s)
    BY DEF Runs, InConsumer
<1>2. Holds(q, i, s)' <=> Live(q, i)' /\ Blind(stack'[q][i], s)
    BY DEF Holds, Blind
<1> QED
    BY <1>1, <1>2 DEF Renews, Runs, Holds

(* When a renewed call enters no consumer and takes up no row but stalled   *)
(* ones.                                                                    *)
LEMMA FewerOf ==
    ASSUME NEW p \in Procs, NEW k \in Nat, NEW g, Renews(p, k, g),
           \A s \in Rows : InConsumer(g, s) =>
               Runs(p, k, s) /\ g.attempt = stack[p][k].attempt,
           \A s \in Rows : Blind(g, s) => Holds(p, k, s) \/ s \in Stalled
    PROVE  /\ FewerRuns
           /\ \A q \in Procs, i \in Nat, s \in Rows :
                  Holds(q, i, s)' => Holds(q, i, s) \/ s \in Stalled
PROOF
<1> SUFFICES ASSUME NEW q \in Procs, NEW i \in Nat, NEW s \in Rows
             PROVE  /\ Runs(q, i, s)' =>
                          Runs(q, i, s) /\ stack'[q][i].attempt = stack[q][i].attempt
                    /\ Holds(q, i, s)' => Holds(q, i, s) \/ s \in Stalled
    BY DEF FewerRuns
<1>1. CASE q = p /\ i = k
    BY <1>1, RenewedCalls
<1>2. CASE ~(q = p /\ i = k)
    BY <1>2, RenewedCalls DEF Runs
<1> QED
    BY <1>1, <1>2

(* When no call is born or changed, none enters a consumer or takes up a row. *)
LEMMA FewerQuiet ==
    ASSUME NoNewCall
    PROVE  FewerRuns /\ FewerHolds
PROOF BY DEF NoNewCall, FewerRuns, FewerHolds, Runs, Holds, InConsumer, Blind

(* The call done with a row is in no consumer, and writes blindly only rows *)
(* it would have.                                                           *)
LEMMA MovedOn ==
    ASSUME TypeOK, NEW p \in up, stack[p] # << >>, NEW r \in Rows,
           FirstOf(r, Top(p).todo), NEW g, g = NextRow(Top(p), r)
    PROVE  \A s \in Rows : /\ ~InConsumer(g, s)
                           /\ Blind(g, s) => s # r /\ Holds(p, Depth(p), s)
PROOF
<1>1. /\ Top(p) \in Frame /\ Live(p, Depth(p)) /\ stack[p][Depth(p)] = Top(p)
    BY TopIsLive
<1>2. /\ g.todo = Top(p).todo \ {r} /\ g.mode = Top(p).mode
      /\ g.at \in {"claim", "reset"}
    BY DEF NextRow, Call, FirstStep
<1>3. \A s \in Rows : FirstOf(s, Top(p).todo) => s = r
    BY DEF FirstOf, Rows
<1>4. \A s \in Rows : ~InConsumer(g, s)
    BY <1>2 DEF InConsumer
<1>5. \A s \in Rows : Blind(g, s) => s # r /\ Holds(p, Depth(p), s)
    BY <1>1, <1>2, <1>3 DEF Blind, Holds
<1> QED
    BY <1>4, <1>5

(* A claim is still run after a step that leaves the runs of other rows.    *)
LEMMA RunsRenewed ==
    ASSUME ClaimRuns, UNCHANGED crashes, NEW p \in Procs, NEW k \in Nat, NEW g,
           Renews(p, k, g),
           \A s \in Rows : outbox'[s].status = "claimed" =>
               \/ InConsumer(g, s)
               \/ outbox[s].status = "claimed" /\ ~Runs(p, k, s)
    PROVE  ClaimRuns'
PROOF
<1> SUFFICES ASSUME crashes = 0, NEW s \in Rows, outbox'[s].status = "claimed"
             PROVE  \E q \in Procs, i \in Nat : Runs(q, i, s)'
    BY DEF ClaimRuns
<1>1. CASE InConsumer(g, s)
    BY <1>1, RenewedCalls
<1>2. CASE outbox[s].status = "claimed" /\ ~Runs(p, k, s)
    <2>1. PICK q \in Procs, i \in Nat : Runs(q, i, s)
        BY <1>2 DEF ClaimRuns
    <2>2. ~(q = p /\ i = k)
        BY <1>2, <2>1
    <2> QED
        BY <2>1, <2>2, RenewedCalls
<1> QED
    BY <1>1, <1>2

(* The one holder of a row: where nobody died, an old claim to hold does    *)
(* not exist; else the operator's one outermost call is the only holder.    *)
LEMMA OneHolder ==
    ASSUME ClaimInv, Guarded, NEW p \in Procs, NEW k \in Nat, NEW r \in Rows,
           Holds(p, k, r), NEW q \in Procs, NEW i \in Nat, Holds(q, i, r)
    PROVE  q = p /\ i = k
PROOF
<1>1. HeldIsIdle /\ ClaimRuns /\ StackShape
    BY DEF ClaimInv, Claims, OrderInv
<1>2. crashes # 0
    BY <1>1 DEF HeldIsIdle, ClaimRuns
<1>3. OneOperator
    BY <1>2 DEF Guarded
<1>4. p \in Operators /\ k = 1 /\ q \in Operators /\ i = 1
    BY <1>1 DEF Holds, Blind, StackShape, Forced
<1> QED
    BY <1>3, <1>4 DEF OneOperator

(* The claim a relay wins is its own and nobody else's. *)
LEMMA ClaimTaken ==
    ASSUME ClaimInv, NEW p \in Procs, NEW r \in Rows, Claim(p, r)
    PROVE  ClaimRuns' /\ (Guarded => Claims')
PROOF
<1>0. TypeOK /\ CallsInOrder /\ ClaimRuns
    BY DEF ClaimInv, OrderInv
<1>1. Working(p, r, "claim") /\ outbox[r].status = "pending" /\ Top(p).mode # "abandon"
    BY DEF Claim, Claimable
<1>2. p \in up /\ stack[p] # << >> /\ FirstOf(r, Top(p).todo) /\ Top(p).at = "claim"
    BY <1>1 DEF Working
<1>3. /\ Top(p) \in Frame /\ Live(p, Depth(p)) /\ stack[p][Depth(p)] = Top(p)
      /\ Depth(p) \in Nat
    BY <1>0, <1>2, TopIsLive
<1>4. PICK g : g = [Top(p) EXCEPT !.at = "run", !.attempt = outbox[r].attempts + 1]
    OBVIOUS
<1>5. Renews(p, Depth(p), g)
    BY <1>0, <1>4, RelayCalls
<1>6. /\ g.todo = Top(p).todo /\ g.mode = Top(p).mode /\ g.at = "run"
      /\ g.attempt = outbox[r].attempts + 1
    BY <1>3, <1>4 DEF Frame
<1>7. \A s \in Rows : FirstOf(s, Top(p).todo) <=> s = r
    BY <1>2 DEF FirstOf, Rows
<1>8. \A s \in Rows : /\ InConsumer(g, s) <=> s = r
                      /\ ~Runs(p, Depth(p), s)
                      /\ Blind(g, s) => Holds(p, Depth(p), s)
    BY <1>1, <1>2, <1>3, <1>6, <1>7 DEF InConsumer, Runs, Blind, Holds
<1>9. /\ outbox'[r].status = "claimed" /\ outbox'[r].attempts = outbox[r].attempts + 1
      /\ outbox'[r].old = FALSE
      /\ \A s \in Rows : s # r => outbox'[s] = outbox[s]
    BY <1>0 DEF Claim, TypeOK, Row
<1>10. ClaimRuns'
    <2>1. UNCHANGED crashes
        BY DEF Claim
    <2> QED
        BY <1>0, <1>3, <1>5, <1>8, <1>9, <2>1, RunsRenewed
<1>11. ASSUME Claims PROVE Claims'
    <2>0. ClaimHeld /\ OneRunner /\ OldIsIdle /\ HeldIsIdle
        BY <1>11 DEF Claims
    <2>1. ASSUME NEW q \in Procs, NEW i \in Nat, NEW s \in Rows
          PROVE  /\ Runs(q, i, s)' =>
                      \/ q = p /\ i = Depth(p) /\ s = r /\ stack'[q][i] = g
                      \/ s # r /\ Runs(q, i, s) /\ stack'[q][i] = stack[q][i]
                 /\ Holds(q, i, s)' => s # r /\ Holds(q, i, s)
        <3>1. (Runs(q, i, s) \/ Holds(q, i, s)) => s # r
            BY <1>1, <2>0 DEF ClaimHeld, HeldIsIdle
        <3>2. CASE q = p /\ i = Depth(p)
            BY <1>3, <1>5, <1>8, <3>1, <3>2, RenewedCalls
        <3>3. CASE ~(q = p /\ i = Depth(p))
            BY <1>3, <1>5, <3>1, <3>3, RenewedCalls DEF Runs
        <3> QED
            BY <3>2, <3>3
    <2>2. ClaimHeld'
        BY <1>6, <1>9, <2>0, <2>1 DEF ClaimHeld
    <2>3. OneRunner'
        <3> SUFFICES ASSUME NEW q1 \in Procs, NEW q2 \in Procs, NEW i1 \in Nat,
                            NEW i2 \in Nat, NEW s \in Rows,
                            Runs(q1, i1, s)', Runs(q2, i2, s)'
                     PROVE  q1 = q2 /\ i1 = i2
            BY DEF OneRunner
        <3>1. CASE s = r
            BY <2>1, <3>1
        <3>2. CASE s # r
            <4>1. Runs(q1, i1, s) /\ Runs(q2, i2, s)
                BY <2>1, <3>2
            <4> QED
                BY <2>0, <4>1 DEF OneRunner
        <3> QED
            BY <3>1, <3>2
    <2>4. OldIsIdle'
        <3>1. \A s \in Stalled' : s \in Rows /\ s # r /\ s \in Stalled
            BY <1>9 DEF Stalled, Status
        <3> QED
            BY <2>0, <2>1, <3>1 DEF OldIsIdle
    <2>5. HeldIsIdle'
        <3> SUFFICES ASSUME NEW q \in Procs, NEW i \in Nat, NEW s \in Rows, Holds(q, i, s)'
                     PROVE  /\ outbox'[s].status = "claimed"
                            /\ \A q2 \in Procs, i2 \in Nat : ~Runs(q2, i2, s)'
            BY DEF HeldIsIdle
        <3>1. s # r /\ Holds(q, i, s)
            BY <2>1
        <3>2. /\ outbox[s].status = "claimed"
              /\ \A q2 \in Procs, i2 \in Nat : ~Runs(q2, i2, s)
            BY <2>0, <3>1 DEF HeldIsIdle
        <3>3. \A q2 \in Procs, i2 \in Nat : ~Runs(q2, i2, s)'
            BY <2>1, <3>1, <3>2
        <3> QED
            BY <1>9, <3>1, <3>2, <3>3
    <2> QED
        BY <2>2, <2>3, <2>4, <2>5 DEF Claims
<1> QED
    BY <1>10, <1>11 DEF ClaimInv

(* A runner settles the row it alone runs. *)
LEMMA ClaimSettled ==
    ASSUME ClaimInv, NEW p \in Procs, NEW r \in Rows, Settle(p, r)
    PROVE  /\ ClaimRuns' /\ (Guarded => Claims')
           /\ Guarded => outbox[r].status = "claimed"
PROOF
<1>0. TypeOK /\ CallsInOrder /\ ClaimRuns
    BY DEF ClaimInv, OrderInv
<1>1. /\ p \in up /\ stack[p] # << >> /\ FirstOf(r, Top(p).todo) /\ Top(p).at = "ran"
      /\ UNCHANGED crashes
    BY DEF Settle, Working
<1>2. /\ Live(p, Depth(p)) /\ stack[p][Depth(p)] = Top(p) /\ Depth(p) \in Nat
      /\ Top(p).outcome \in Settled
    BY <1>0, <1>1, TopIsLive DEF Frame
<1>3. PICK g : g = NextRow(Top(p), r) /\ Renews(p, Depth(p), g)
    BY <1>0, RelayCalls
<1>4. \A s \in Rows : ~InConsumer(g, s) /\ (Blind(g, s) => s # r /\ Holds(p, Depth(p), s))
    BY <1>0, <1>1, <1>3, MovedOn
<1>5. /\ outbox'[r].status # "claimed"
      /\ \A s \in Rows : s # r => outbox'[s] = outbox[s]
    BY <1>0, <1>2 DEF Settle, TypeOK, Row, Settled
<1>6. Runs(p, Depth(p), r)
    BY <1>1, <1>2 DEF Runs, InConsumer
<1>7. ClaimRuns'
    <2>1. \A s \in Rows : s # r => ~Runs(p, Depth(p), s)
        BY <1>1, <1>2 DEF Runs, InConsumer, FirstOf, Rows
    <2> QED
        BY <1>0, <1>1, <1>2, <1>3, <1>5, <2>1, RunsRenewed
<1>8. ASSUME Claims PROVE Claims' /\ outbox[r].status = "claimed"
    <2>0. ClaimHeld /\ OneRunner /\ HeldIsIdle
        BY <1>8 DEF Claims
    <2>1. ASSUME NEW q \in Procs, NEW i \in Nat, NEW s \in Rows
          PROVE  /\ Runs(q, i, s)' => /\ s # r /\ Runs(q, i, s)
                                      /\ stack'[q][i].attempt = stack[q][i].attempt
                 /\ Holds(q, i, s)' => s # r /\ Holds(q, i, s)
        <3>1. Holds(q, i, s) => s # r
            BY <1>2, <1>6, <2>0 DEF HeldIsIdle
        <3>2. CASE q = p /\ i = Depth(p)
            BY <1>2, <1>3, <1>4, <3>2, RenewedCalls
        <3>3. CASE ~(q = p /\ i = Depth(p))
            <4>1. Runs(q, i, s) => s # r
                BY <1>2, <1>6, <2>0, <3>3 DEF OneRunner
            <4> QED
                BY <1>2, <1>3, <3>1, <3>3, <4>1, RenewedCalls DEF Runs
        <3> QED
            BY <3>2, <3>3
    <2>2. FewerRuns /\ FewerHolds
        BY <2>1 DEF FewerRuns, FewerHolds
    <2>3. Claims'
        BY <1>5, <1>8, <2>1, <2>2, ClaimLeft
    <2> QED
        BY <1>2, <1>6, <2>0, <2>3 DEF ClaimHeld
<1> QED
    BY <1>7, <1>8 DEF ClaimInv

(* A redrive or an abandon writes a row that it alone holds and nobody runs. *)
LEMMA ClaimWritten ==
    ASSUME ClaimInv, NEW p \in Procs, NEW r \in Rows,
           Abandon(p, r) \/ (Reset(p, r) /\ ~Withheld(p, r))
    PROVE  /\ ClaimRuns' /\ (Guarded => Claims')
           /\ Guarded => outbox[r].status = "claimed"
PROOF
<1>0. TypeOK /\ StackShape /\ ClaimRuns
    BY DEF ClaimInv, OrderInv
<1>1. /\ p \in up /\ stack[p] # << >> /\ FirstOf(r, Top(p).todo) /\ UNCHANGED crashes
      /\ Top(p).at \in {"claim", "reset"}
    BY DEF Abandon, Reset, Working
<1>2. /\ Top(p) \in Frame /\ Live(p, Depth(p)) /\ stack[p][Depth(p)] = Top(p)
      /\ Depth(p) \in Nat
    BY <1>0, <1>1, TopIsLive
<1>3. PICK g : /\ Renews(p, Depth(p), g)
               /\ \A s \in Rows : /\ ~InConsumer(g, s)
                                  /\ Blind(g, s) => s # r /\ Holds(p, Depth(p), s)
    <2>1. CASE Abandon(p, r)
        BY <1>0, <1>1, <2>1, RelayCalls, MovedOn
    <2>2. CASE Reset(p, r) /\ ~Withheld(p, r)
        <3>1. PICK f : f = [Top(p) EXCEPT !.at = "claim"]
            OBVIOUS
        <3>2. Renews(p, Depth(p), f)
            BY <1>0, <2>2, <3>1, RelayCalls
        <3>3. f.todo = Top(p).todo /\ f.mode = Top(p).mode /\ f.at = "claim"
            BY <1>2, <3>1 DEF Frame
        <3>4. Top(p).at = "reset" /\ Top(p).mode = "stalled"
            BY <1>0, <1>2, <2>2 DEF Reset, Working, StackShape, TypeOK
        <3>5. \A s \in Rows : /\ ~InConsumer(f, s)
                              /\ Blind(f, s) => s # r /\ Holds(p, Depth(p), s)
            BY <1>1, <1>2, <3>3, <3>4 DEF InConsumer, Blind, Holds
        <3> QED
            BY <3>2, <3>5
    <2> QED
        BY <2>1, <2>2
<1>4. Holds(p, Depth(p), r)
    <2>1. Top(p).mode = "abandon" \/ (Top(p).at = "reset" /\ Top(p).mode = "stalled")
        BY <1>0, <1>2 DEF Abandon, Reset, Working, StackShape, TypeOK
    <2> QED
        BY <1>1, <1>2, <2>1 DEF Holds, Blind, FirstOf
<1>5. /\ outbox'[r].status # "claimed"
      /\ \A s \in Rows : s # r => outbox'[s] = outbox[s]
    BY <1>0 DEF Abandon, Reset, TypeOK, Row
<1>6. \A s \in Rows : ~Runs(p, Depth(p), s)
    BY <1>1, <1>2 DEF Runs, InConsumer
<1>7. ClaimRuns'
    BY <1>0, <1>1, <1>2, <1>3, <1>5, <1>6, RunsRenewed
<1>8. ASSUME Guarded PROVE Claims' /\ outbox[r].status = "claimed"
    <2>0. Claims /\ HeldIsIdle
        BY <1>8 DEF ClaimInv, Claims
    <2>1. ASSUME NEW q \in Procs, NEW i \in Nat, NEW s \in Rows
          PROVE  /\ Runs(q, i, s)' => /\ s # r /\ Runs(q, i, s)
                                      /\ stack'[q][i].attempt = stack[q][i].attempt
                 /\ Holds(q, i, s)' => s # r /\ Holds(q, i, s)
        <3>1. Runs(q, i, s) => s # r
            BY <1>2, <1>4, <2>0 DEF HeldIsIdle
        <3>2. CASE q = p /\ i = Depth(p)
            BY <1>2, <1>3, <3>2, RenewedCalls
        <3>3. CASE ~(q = p /\ i = Depth(p))
            <4>1. Holds(q, i, s) => s # r
                BY <1>2, <1>4, <1>8, <3>3, OneHolder
            <4> QED
                BY <1>2, <1>3, <3>1, <3>3, <4>1, RenewedCalls DEF Runs
        <3> QED
            BY <3>2, <3>3
    <2>2. FewerRuns /\ FewerHolds
        BY <2>1 DEF FewerRuns, FewerHolds
    <2>3. Claims'
        BY <1>5, <2>0, <2>1, <2>2, ClaimLeft
    <2> QED
        BY <1>2, <1>4, <2>0, <2>3 DEF HeldIsIdle
<1> QED
    BY <1>7, <1>8

(* Steps that write no row: no claim is dropped, and only a call on stalled *)
(* rows takes any up.                                                       *)
LEMMA ClaimPassed ==
    ASSUME ClaimInv, NEW p \in Procs,
           \/ \E r \in Rows : PassOver(p, r) \/ (Reset(p, r) /\ Withheld(p, r))
           \/ \E r \in Rows, o \in Settled : RunConsumer(p, r, o)
           \/ Finish(p) \/ OperatorRedrive(p) \/ Boot(p)
           \/ \E r \in Rows, mode \in {"stalled", "abandon"} : OperatorRow(p, r, mode)
    PROVE  ClaimRuns' /\ (Guarded => Claims')
PROOF
<1>0. TypeOK /\ StackShape /\ ClaimRuns
    BY DEF ClaimInv, OrderInv
<1>1. UNCHANGED outbox /\ UNCHANGED crashes
    BY DEF PassOver, Reset, RunConsumer, Finish, OperatorRedrive, Boot, OperatorRow
(* A renewed call that runs what it ran, and nothing new. *)
<1>2. ASSUME NEW k \in Nat, NEW g, Renews(p, k, g),
             \A s \in Rows : InConsumer(g, s) <=> Runs(p, k, s),
             \A s \in Rows : InConsumer(g, s) => g.attempt = stack[p][k].attempt,
             \A s \in Rows : Blind(g, s) => Holds(p, k, s) \/ s \in Stalled
      PROVE  ClaimRuns' /\ (Guarded => Claims')
    <2>1. ClaimRuns'
        BY <1>0, <1>1, <1>2, RunsRenewed
    <2>2. /\ FewerRuns
          /\ \A q \in Procs, i \in Nat, s \in Rows :
                 Holds(q, i, s)' => Holds(q, i, s) \/ s \in Stalled
        BY <1>2, FewerOf
    <2>3. Claims => Claims'
        BY <1>1, <2>2, ClaimsQuiet
    <2> QED
        BY <2>1, <2>3 DEF ClaimInv
<1>3. ASSUME NEW r \in Rows, PassOver(p, r) \/ (Reset(p, r) /\ Withheld(p, r))
      PROVE  ClaimRuns' /\ (Guarded => Claims')
    <2>1. /\ p \in up /\ stack[p] # << >> /\ FirstOf(r, Top(p).todo)
          /\ Top(p).at \in {"claim", "reset"}
        BY <1>3 DEF PassOver, Reset, Working
    <2>2. PICK g : g = NextRow(Top(p), r) /\ Renews(p, Depth(p), g)
        BY <1>0, <1>3, RelayCalls
    <2>3. \A s \in Rows : ~InConsumer(g, s) /\ (Blind(g, s) => Holds(p, Depth(p), s))
        BY <1>0, <2>1, <2>2, MovedOn
    <2>4. Depth(p) \in Nat /\ \A s \in Rows : ~Runs(p, Depth(p), s)
        BY <1>0, <2>1, TopIsLive DEF Runs, InConsumer
    <2> QED
        BY <1>2, <2>2, <2>3, <2>4
<1>4. ASSUME NEW r \in Rows, NEW o \in Settled, RunConsumer(p, r, o)
      PROVE  ClaimRuns' /\ (Guarded => Claims')
    <2>1. p \in up /\ stack[p] # << >> /\ Top(p).at = "run"
        BY <1>4 DEF RunConsumer, Working
    <2>2. /\ Top(p) \in Frame /\ Live(p, Depth(p)) /\ stack[p][Depth(p)] = Top(p)
          /\ Depth(p) \in Nat
        BY <1>0, <2>1, TopIsLive
    <2>3. PICK g : g = [Top(p) EXCEPT !.at = "ran", !.outcome = o]
        OBVIOUS
    <2>4. /\ g.todo = Top(p).todo /\ g.mode = Top(p).mode /\ g.at = "ran"
          /\ g.attempt = Top(p).attempt
        BY <2>2, <2>3 DEF Frame
    <2>5. Renews(p, Depth(p), g)
        BY <1>0, <1>4, <2>3, RelayCalls
    <2>6. \A s \in Rows : InConsumer(g, s) <=> Runs(p, Depth(p), s)
        BY <2>1, <2>2, <2>4 DEF InConsumer, Runs
    <2>7. \A s \in Rows : Blind(g, s) => Holds(p, Depth(p), s)
        BY <2>1, <2>2, <2>4 DEF Blind, Holds
    <2> QED
        BY <1>2, <2>2, <2>4, <2>5, <2>6, <2>7
<1>5. ASSUME Finish(p)
      PROVE  ClaimRuns' /\ (Guarded => Claims')
    <2>1. p \in up /\ stack[p] # << >> /\ Top(p).todo = {}
        BY <1>5 DEF Finish
    <2>2. /\ Live(p, Depth(p)) /\ stack[p][Depth(p)] = Top(p) /\ Depth(p) \in Nat
        BY <1>0, <2>1, TopIsLive
    <2>3. \A s \in Rows : ~Runs(p, Depth(p), s)
        BY <2>1, <2>2 DEF Runs, InConsumer, FirstOf
    <2>4. CASE Top(p).mode = "pending" /\ Top(p).force
        <3>1. PICK g : g = Call("stalled", TRUE, Stalled) /\ Renews(p, Depth(p), g)
            BY <1>0, <1>5, <2>4, FinishCalls
        <3>2. \A s \in Rows : ~InConsumer(g, s) /\ (Blind(g, s) => s \in Stalled)
            BY <3>1 DEF Call, FirstStep, InConsumer, Blind
        <3> QED
            BY <1>2, <2>2, <2>3, <3>1, <3>2
    <2>5. CASE ~(Top(p).mode = "pending" /\ Top(p).force)
        <3>1. Ends(p, Depth(p))
            BY <1>0, <1>5, <2>5, FinishCalls
        <3>2. ClaimRuns'
            <4> SUFFICES ASSUME crashes = 0, NEW s \in Rows, outbox[s].status = "claimed"
                         PROVE  \E q \in Procs, i \in Nat : Runs(q, i, s)'
                BY <1>1 DEF ClaimRuns
            <4>1. PICK q \in Procs, i \in Nat : Runs(q, i, s)
                BY <1>0 DEF ClaimRuns
            <4>2. ~(q = p /\ i = Depth(p))
                BY <2>3, <4>1
            <4>3. Live(q, i)' /\ stack'[q][i] = stack[q][i]
                BY <3>1, <4>1, <4>2 DEF Ends, Runs
            <4>4. Runs(q, i, s)'
                BY <4>1, <4>3 DEF Runs, InConsumer
            <4> QED
                BY <4>4
        <3>3. FewerRuns /\ FewerHolds
            BY <1>0, <2>2, <3>1, QuietCalls, FewerQuiet
        <3>4. Claims => Claims'
            BY <1>1, <3>3, ClaimsQuiet DEF FewerHolds
        <3> QED
            BY <3>2, <3>4 DEF ClaimInv
    <2> QED
        BY <2>4, <2>5
<1>6. ASSUME \/ OperatorRedrive(p) \/ Boot(p)
             \/ \E r \in Rows, mode \in {"stalled", "abandon"} : OperatorRow(p, r, mode)
      PROVE  ClaimRuns' /\ (Guarded => Claims')
    <2>1. PICK mode, force, todo :
              /\ Renews(p, 1, Call(mode, force, todo))
              /\ mode = "pending" \/ todo \subseteq Stalled
        <3>1. CASE OperatorRedrive(p) \/ Boot(p)
            BY <1>0, <3>1, FirstCalls
        <3>2. CASE \E r \in Rows, mode \in {"stalled", "abandon"} : OperatorRow(p, r, mode)
            <4>1. PICK r \in Rows, m \in {"stalled", "abandon"} : OperatorRow(p, r, m)
                BY <3>2
            <4>2. Renews(p, 1, Call(m, TRUE, {r})) /\ {r} \subseteq Stalled
                BY <1>0, <4>1, FirstCalls DEF OperatorRow
            <4> QED
                BY <4>2
        <3> QED
            BY <1>6, <3>1, <3>2
    <2>2. PICK g : g = Call(mode, force, todo)
        OBVIOUS
    <2>3. \A s \in Rows : ~InConsumer(g, s) /\ (Blind(g, s) => s \in Stalled)
        BY <2>1, <2>2 DEF Call, FirstStep, InConsumer, Blind
    <2>4. \A s \in Rows : ~Runs(p, 1, s)
        <3>1. stack[p] = << >>
            BY <1>0, <1>6 DEF OperatorRedrive, OperatorRow, Boot, Idle, StackShape
        <3> QED
            BY <3>1 DEF Runs, Live
    <2> QED
        BY <1>2, <2>1, <2>2, <2>3, <2>4
<1> QED
    BY <1>3, <1>4, <1>5, <1>6

(* New rows are nobody's. *)
LEMMA ClaimEnqueued ==
    ASSUME ClaimInv, NEW p \in Procs, NEW first \in Rows,
           NEW n \in 1..MaxFanout, NEW asks \in SUBSET (1..n), Enqueue(p, first, n, asks)
    PROVE  ClaimRuns' /\ (Guarded => Claims')
PROOF
<1>0. TypeOK /\ StackShape /\ TableShape /\ ClaimRuns
    BY DEF ClaimInv, OrderInv
<1> DEFINE new == first..(first + n - 1)
<1>1. /\ \A s \in Rows : s \in new => /\ outbox[s].status = "absent"
                                      /\ outbox'[s].status = "pending"
      /\ \A s \in Rows : s \notin new => outbox'[s] = outbox[s]
    <2>1. \A s \in new : first <= s
        BY DEF Rows
    <2> QED
        BY <1>0, <2>1 DEF Enqueue, NextId, Status, TableShape
<1>k. PICK k \in Nat : k = Depth(p) + 1
    BY <1>0, EnqueueCalls
<1>2. PICK g : g = Call("deliver", FALSE, new) /\ Renews(p, k, g)
    BY <1>0, <1>k, EnqueueCalls
<1>3. \A s \in Rows : ~InConsumer(g, s) /\ ~Blind(g, s)
    BY <1>2 DEF Call, FirstStep, InConsumer, Blind
<1> HIDE DEF new
<1>4. \A s \in Rows : ~Runs(p, k, s)
    BY <1>0, <1>k DEF Runs, Live, TypeOK, Depth
<1>5. UNCHANGED crashes
    BY DEF Enqueue
<1>6. ClaimRuns'
    BY <1>0, <1>1, <1>2, <1>4, <1>5, RunsRenewed
<1>7. FewerRuns /\ FewerHolds
    <2> SUFFICES ASSUME NEW q \in Procs, NEW i \in Nat, NEW s \in Rows
                 PROVE  /\ Runs(q, i, s)' =>
                              /\ Runs(q, i, s)
                              /\ stack'[q][i].attempt = stack[q][i].attempt
                        /\ Holds(q, i, s)' => Holds(q, i, s)
        BY DEF FewerRuns, FewerHolds
    <2>0. Renews(p, k, g)
        BY <1>2
    <2>1. CASE q = p /\ i = k
        BY <1>3, <2>0, <2>1, RenewedCalls
    <2>2. CASE ~(q = p /\ i = k)
        BY <2>0, <2>2, RenewedCalls DEF Runs
    <2> QED
        BY <2>1, <2>2
<1>8. ASSUME Claims PROVE Claims'
    <2>0. ClaimHeld /\ OneRunner /\ OldIsIdle /\ HeldIsIdle
        BY <1>8 DEF Claims
    <2>1. \A s \in Rows : outbox[s].status = "claimed" => outbox'[s] = outbox[s]
        BY <1>1
    <2>2. ClaimHeld'
        BY <1>7, <2>0, <2>1 DEF ClaimHeld, FewerRuns
    <2>3. OneRunner'
        BY <1>7, <2>0 DEF OneRunner, FewerRuns
    <2>4. Stalled' \subseteq Stalled /\ Stalled \subseteq Rows
        BY <1>1 DEF Stalled, Status
    <2>5. OldIsIdle'
        BY <1>7, <2>0, <2>4 DEF OldIsIdle, FewerRuns
    <2>6. HeldIsIdle'
        BY <1>7, <2>0, <2>1 DEF HeldIsIdle, FewerRuns, FewerHolds
    <2> QED
        BY <2>2, <2>3, <2>5, <2>6 DEF Claims
<1> QED
    BY <1>6, <1>8 DEF ClaimInv

(* With reactions prompt, only a claim nobody runs gets old. *)
LEMMA ClaimAges ==
    ASSUME Prompt, ClaimInv, NEW r \in Rows, Age(r)
    PROVE  ClaimRuns' /\ (Guarded => Claims')
PROOF
<1>0. TypeOK /\ StackShape /\ ClaimRuns
    BY DEF ClaimInv, OrderInv
<1>1. /\ outbox[r].status = "claimed" /\ Running(r) = {}
      /\ UNCHANGED <<stack, up, crashes>>
    BY DEF Age
<1>2. \A s \in Rows : /\ outbox'[s].status = outbox[s].status
                      /\ outbox'[s].attempts = outbox[s].attempts
                      /\ s # r => outbox'[s].old = outbox[s].old
    BY <1>0 DEF Age, TypeOK, Row
<1>3. \A q \in Procs, i \in Nat, s \in Rows :
          /\ Runs(q, i, s)' <=> Runs(q, i, s)
          /\ Holds(q, i, s)' <=> Holds(q, i, s)
          /\ stack'[q][i] = stack[q][i]
    BY <1>1 DEF Runs, Holds, Live, InConsumer, Blind
<1>4. \A q \in Procs, i \in Nat : ~Runs(q, i, r)
    <2> SUFFICES ASSUME NEW q \in Procs, NEW i \in Nat, Runs(q, i, r) PROVE FALSE
        OBVIOUS
    <2>1. q \in up /\ i \in DOMAIN stack[q] /\ i \in 1..(MaxDepth + 1)
        BY <1>0 DEF Runs, Live, StackShape, TypeOK
    <2>2. <<q, i>> \in Running(r)
        BY <2>1 DEF Running, Runs, InConsumer
    <2> QED
        BY <1>1, <2>2
<1>5. ClaimRuns'
    BY <1>0, <1>1, <1>2, <1>3 DEF ClaimRuns
<1>6. ASSUME Claims PROVE Claims'
    <2>0. ClaimHeld /\ OneRunner /\ OldIsIdle /\ HeldIsIdle
        BY <1>6 DEF Claims
    <2>1. ClaimHeld'
        BY <1>2, <1>3, <2>0 DEF ClaimHeld
    <2>2. OneRunner'
        BY <1>3, <2>0 DEF OneRunner
    <2>3. \A s \in Stalled' : s \in Rows /\ (s = r \/ s \in Stalled)
        BY <1>2 DEF Stalled, Status
    <2>4. OldIsIdle'
        BY <1>3, <1>4, <2>0, <2>3 DEF OldIsIdle
    <2>5. HeldIsIdle'
        BY <1>2, <1>3, <2>0 DEF HeldIsIdle
    <2> QED
        BY <2>1, <2>2, <2>4, <2>5 DEF Claims
<1> QED
    BY <1>5, <1>6 DEF ClaimInv

(* Every step keeps the claims, where reactions are prompt. *)
LEMMA ClaimStep == Prompt => (ClaimInv /\ [Next]_vars => ClaimInv')
PROOF
<1> SUFFICES ASSUME Prompt, ClaimInv, [Next]_vars PROVE ClaimInv'
    OBVIOUS
<1>0. OrderInv' /\ TypeOK
    BY OrderStep DEF ClaimInv, OrderInv
<1>g. Guarded' => Guarded
    <2>0. ASSUME NEW p \in Procs, Crash(p) PROVE crashes' # 0
        BY <1>0, <2>0 DEF Crash, TypeOK
    <2>1. ASSUME NEW p \in Procs, Relay(p) PROVE UNCHANGED crashes
        BY <2>1 DEF Relay, Finish, Claim, PassOver, Settle, Reset, Abandon, RunConsumer
    <2>2. ASSUME NEW p \in Procs, NEW first \in Rows, NEW n \in 1..MaxFanout,
                 NEW asks \in SUBSET (1..n), Enqueue(p, first, n, asks)
          PROVE  UNCHANGED crashes
        BY <2>2 DEF Enqueue
    <2>3. ASSUME NEW p \in Procs,
                 \/ OperatorRedrive(p) \/ Boot(p)
                 \/ \E r \in Rows, mode \in {"stalled", "abandon"} : OperatorRow(p, r, mode)
          PROVE  UNCHANGED crashes
        BY <2>3 DEF OperatorRedrive, OperatorRow, Boot
    <2>4. ASSUME NEW r \in Rows, Age(r) PROVE UNCHANGED crashes
        BY <2>4 DEF Age
    <2>5. crashes' = 0 => crashes = 0
        BY <2>0, <2>1, <2>2, <2>3, <2>4 DEF Next, vars
    <2> QED
        BY <2>5 DEF Guarded, OneOperator
<1>c. ASSUME ClaimRuns', Guarded => Claims' PROVE ClaimInv'
    BY <1>0, <1>g, <1>c DEF ClaimInv
<1>1. ASSUME NEW p \in Procs, Crash(p) PROVE ClaimInv'
    <2>1. FewerRuns /\ FewerHolds /\ UNCHANGED outbox
        BY <1>0, <1>1, QuietCalls, FewerQuiet DEF Crash
    <2>2. Claims => Claims'
        BY <2>1, ClaimsQuiet DEF FewerHolds
    <2>3. ClaimRuns'
        BY <1>0, <1>1 DEF Crash, ClaimRuns, TypeOK
    <2> QED
        BY <1>c, <2>2, <2>3 DEF ClaimInv
<1>2. CASE UNCHANGED vars
    <2>1. FewerRuns /\ FewerHolds /\ UNCHANGED outbox
        BY <1>0, <1>2, QuietCalls, FewerQuiet DEF vars
    <2>2. Claims => Claims'
        BY <2>1, ClaimsQuiet DEF FewerHolds
    <2>3. ClaimRuns'
        BY <1>2 DEF vars, ClaimInv, ClaimRuns, Runs, Live, InConsumer
    <2> QED
        BY <1>c, <2>2, <2>3 DEF ClaimInv
<1>3. ASSUME NEW p \in Procs, NEW r \in Rows,
             \/ Claim(p, r) \/ Settle(p, r) \/ Abandon(p, r) \/ Reset(p, r)
             \/ PassOver(p, r) \/ (\E o \in Settled : RunConsumer(p, r, o))
      PROVE  ClaimInv'
    <2>1. CASE Claim(p, r)
        BY <1>c, <2>1, ClaimTaken
    <2>2. CASE Settle(p, r)
        BY <1>c, <2>2, ClaimSettled
    <2>3. CASE Abandon(p, r) \/ (Reset(p, r) /\ ~Withheld(p, r))
        BY <1>c, <2>3, ClaimWritten
    <2>4. CASE PassOver(p, r) \/ (Reset(p, r) /\ Withheld(p, r))
        BY <1>c, <2>4, ClaimPassed
    <2>5. CASE \E o \in Settled : RunConsumer(p, r, o)
        BY <1>c, <2>5, ClaimPassed
    <2> QED
        BY <1>3, <2>1, <2>2, <2>3, <2>4, <2>5
<1>4. ASSUME NEW p \in Procs,
             \/ Finish(p) \/ OperatorRedrive(p) \/ Boot(p)
             \/ \E r \in Rows, mode \in {"stalled", "abandon"} : OperatorRow(p, r, mode)
      PROVE  ClaimInv'
    BY <1>4, <1>c, ClaimPassed
<1>5. ASSUME NEW p \in Procs, NEW first \in Rows, NEW n \in 1..MaxFanout,
             NEW asks \in SUBSET (1..n), Enqueue(p, first, n, asks)
      PROVE  ClaimInv'
    BY <1>5, <1>c, ClaimEnqueued
<1>6. ASSUME NEW r \in Rows, Age(r) PROVE ClaimInv'
    BY <1>6, <1>c, ClaimAges
<1> QED
    BY <1>1, <1>2, <1>3, <1>4, <1>5, <1>6 DEF Next, Relay

(* Where reactions are prompt and one operator works at a time, a relay     *)
(* inside a consumer still holds the claim it won, through any deaths,      *)
(* boots and redrives.  With a second operator it may not: both read the    *)
(* same stalled row, and the later reset takes it from whoever claimed it   *)
(* after the first.                                                         *)
THEOREM RunnersHoldTheirClaims ==
    ASSUME Prompt, OneOperator
    PROVE  Spec => []RunnerHoldsClaim
PROOF
<1>1. ClaimInv => RunnerHoldsClaim
    <2> SUFFICES ASSUME ClaimInv, NEW p \in up, NEW r \in Rows, NEW i \in DOMAIN stack[p],
                        FirstOf(r, stack[p][i].todo), stack[p][i].at \in {"run", "ran"}
                 PROVE  /\ outbox[r].status = "claimed"
                        /\ outbox[r].attempts = stack[p][i].attempt
        BY DEF RunnerHoldsClaim
    <2>1. TypeOK /\ ClaimHeld
        BY DEF ClaimInv, OrderInv, Claims, Guarded
    <2>2. p \in Procs /\ i \in Nat
        BY <2>1 DEF TypeOK
    <2>3. Runs(p, i, r)
        BY DEF Runs, Live, InConsumer
    <2> QED
        BY <2>1, <2>2, <2>3 DEF ClaimHeld
<1>2. Init => ClaimInv
    BY OrderStart DEF ClaimInv
<1>3. ClaimInv /\ [Next]_vars => ClaimInv'
    BY ClaimStep
<1> QED
    BY <1>1, <1>2, <1>3, PTL DEF Spec

(* Where reactions are prompt, and whatever the operators do, until some    *)
(* process dies every claimed row is being run by exactly one relay call.   *)
THEOREM ClaimsAreRun ==
    ASSUME Prompt
    PROVE  Spec => []NoOrphanWithoutCrash
PROOF
<1>1. ClaimInv => NoOrphanWithoutCrash
    <2> SUFFICES ASSUME ClaimInv, crashes = 0, NEW r \in Rows, outbox[r].status = "claimed"
                 PROVE  Cardinality(Running(r)) = 1
        BY DEF NoOrphanWithoutCrash
    <2>1. TypeOK /\ StackShape /\ ClaimRuns /\ OneRunner
        BY DEF ClaimInv, OrderInv, Claims, Guarded
    <2>2. PICK p \in Procs, i \in Nat : Runs(p, i, r)
        BY <2>1 DEF ClaimRuns
    <2>3. Running(r) = {<<p, i>>}
        <3>1. <<p, i>> \in Running(r)
            <4>1. p \in up /\ i \in DOMAIN stack[p] /\ i \in 1..(MaxDepth + 1)
                BY <2>1, <2>2 DEF Runs, Live, StackShape, TypeOK
            <4> QED
                BY <2>2, <4>1 DEF Running, Runs, InConsumer
        <3>2. ASSUME NEW e \in Running(r) PROVE e = <<p, i>>
            <4>1. PICK q \in up, j \in 1..(MaxDepth + 1) : e = <<q, j>>
                BY <3>2 DEF Running
            <4>2. Runs(q, j, r) /\ q \in Procs /\ j \in Nat
                BY <2>1, <3>2, <4>1 DEF Running, Runs, Live, InConsumer, TypeOK
            <4> QED
                BY <2>1, <2>2, <4>1, <4>2 DEF OneRunner
        <3> QED
            BY <3>1, <3>2
    <2> QED
        BY <2>3, FS_Singleton
<1>2. Init => ClaimInv
    BY OrderStart DEF ClaimInv
<1>3. ClaimInv /\ [Next]_vars => ClaimInv'
    BY ClaimStep
<1> QED
    BY <1>1, <1>2, <1>3, PTL DEF Spec

----------------------------------------------------------------------------
(* What is owed for a row, as the promise sees its status. *)
DebtOf(st) ==
    CASE st = "absent"  -> "none"
      [] st = "pending" -> "owed"
      [] st = "claimed" -> "started"
      [] OTHER          -> "closed"
Debts == [r \in Rows |-> DebtOf(outbox[r].status)]

(* A step that writes one row's status is a move of the promise. *)
LEMMA OneDebt ==
    ASSUME TypeOK, TypeOK', NEW r \in Rows, \A s \in Rows : s # r => outbox'[s] = outbox[s]
    PROVE  Debts' = [Debts EXCEPT ![r] = DebtOf(outbox'[r].status)]
PROOF BY DEF Debts

(* Where reactions are prompt and one operator works at a time, the relays  *)
(* implement the promise for any number of processes, rows and deaths: an   *)
(* owed reaction starts once, a closed one is never reopened, and only a    *)
(* started one is put back.                                                 *)
THEOREM PromiseIsKept ==
    ASSUME Prompt, OneOperator
    PROVE  Spec => KeepsPromise
PROOF
<1>d. Debts = [r \in Rows |->
                 CASE outbox[r].status = "absent"  -> "none"
                   [] outbox[r].status = "pending" -> "owed"
                   [] outbox[r].status = "claimed" -> "started"
                   [] OTHER                        -> "closed"]
    BY DEF Debts, DebtOf
<1>e. Debts' = [r \in Rows |->
                  CASE outbox'[r].status = "absent"  -> "none"
                    [] outbox'[r].status = "pending" -> "owed"
                    [] outbox'[r].status = "claimed" -> "started"
                    [] OTHER                         -> "closed"]
    BY DEF Debts, DebtOf
<1>1. Init => Promise!Init
    BY DEF Init, NoRow, Promise!Init
<1>2. ASSUME ClaimInv, ClaimInv', [Next]_vars
      PROVE  Promise!Next \/ UNCHANGED Debts
    <2>0. TypeOK /\ TypeOK' /\ TableShape /\ Claims /\ Guarded
        BY <1>2 DEF ClaimInv, OrderInv, Guarded
    <2>s. UNCHANGED outbox => UNCHANGED Debts
        BY DEF Debts
    <2>m. ASSUME NEW r \in Rows, NEW st, outbox[r].status = "claimed",
                 \A s \in Rows : s # r => outbox'[s] = outbox[s],
                 outbox'[r].status = st, st \in Settled \cup {"pending"}
          PROVE  Promise!Next
        <3>1. Debts' = [Debts EXCEPT ![r] = DebtOf(st)] /\ Debts[r] = "started"
            BY <2>0, <2>m, OneDebt DEF Debts, DebtOf
        <3>2. DebtOf(st) \in {"closed", "owed"}
            BY <2>m DEF DebtOf, Settled
        <3>3. Promise!Close(r) \/ Promise!PutBack(r)
            BY <1>d, <1>e, <3>1, <3>2 DEF Promise!Close, Promise!PutBack, Promise!Move
        <3> QED
            BY <3>3 DEF Promise!Next
    <2>1. ASSUME NEW p \in Procs, NEW first \in Rows, NEW n \in 1..MaxFanout,
                 NEW asks \in SUBSET (1..n), Enqueue(p, first, n, asks)
          PROVE  Promise!Next
        <3> DEFINE new == first..(first + n - 1)
        <3>1. /\ new \in SUBSET Rows
              /\ \A s \in new : /\ outbox[s].status = "absent"
                                /\ outbox'[s].status = "pending"
              /\ \A s \in Rows : s \notin new => outbox'[s] = outbox[s]
            <4>1. \A s \in new : first <= s
                BY DEF Rows
            <4> QED
                BY <2>0, <2>1, <4>1 DEF Enqueue, NextId, Status, TableShape
        <3> HIDE DEF new
        <3>2. /\ \A s \in new : Debts[s] = "none"
              /\ Debts' = [s \in Rows |-> IF s \in new THEN "owed" ELSE Debts[s]]
            BY <3>1 DEF Debts, DebtOf
        <3>3. Promise!Owe(new)
            BY <1>d, <1>e, <3>2 DEF Promise!Owe
        <3> QED
            BY <3>1, <3>3 DEF Promise!Next
    <2>2. ASSUME NEW p \in Procs, NEW r \in Rows, Claim(p, r)
          PROVE  Promise!Next
        <3>1. /\ outbox[r].status = "pending" /\ outbox'[r].status = "claimed"
              /\ \A s \in Rows : s # r => outbox'[s] = outbox[s]
            BY <2>0, <2>2 DEF Claim, Claimable, TypeOK, Row
        <3>2. Debts' = [Debts EXCEPT ![r] = "started"] /\ Debts[r] = "owed"
            BY <2>0, <3>1, OneDebt DEF Debts, DebtOf
        <3>3. Promise!Start(r)
            BY <1>d, <1>e, <3>2 DEF Promise!Start, Promise!Move
        <3> QED
            BY <3>3 DEF Promise!Next
    <2>3. ASSUME NEW p \in Procs, NEW r \in Rows, Settle(p, r)
          PROVE  Promise!Next
        <3>1. Top(p).outcome \in Settled
            BY <2>0, <2>3, TopIsLive DEF Settle, Working, Frame
        <3>2. /\ outbox'[r].status = Top(p).outcome
              /\ \A s \in Rows : s # r => outbox'[s] = outbox[s]
            BY <2>0, <2>3 DEF Settle, TypeOK, Row
        <3>3. outbox[r].status = "claimed"
            BY <1>2, <2>0, <2>3, ClaimSettled
        <3> QED
            BY <2>m, <3>1, <3>2, <3>3
    <2>4. ASSUME NEW p \in Procs, NEW r \in Rows,
                 Abandon(p, r) \/ (Reset(p, r) /\ ~Withheld(p, r))
          PROVE  Promise!Next
        <3>1. /\ outbox'[r].status \in {"failed", "pending"}
              /\ \A s \in Rows : s # r => outbox'[s] = outbox[s]
            BY <2>0, <2>4 DEF Abandon, Reset, TypeOK, Row
        <3>2. outbox[r].status = "claimed"
            BY <1>2, <2>0, <2>4, ClaimWritten
        <3> QED
            BY <2>m, <3>1, <3>2 DEF Settled
    <2>5. ASSUME NEW r \in Rows, Age(r)
          PROVE  UNCHANGED Debts
        <3>1. \A s \in Rows : outbox'[s].status = outbox[s].status
            BY <2>0, <2>5 DEF Age, TypeOK, Row
        <3> QED
            BY <3>1 DEF Debts
    <2>6. ASSUME NEW p \in Procs,
                 \/ \E r \in Rows : PassOver(p, r) \/ (Reset(p, r) /\ Withheld(p, r))
                 \/ \E r \in Rows, o \in Settled : RunConsumer(p, r, o)
                 \/ Finish(p) \/ OperatorRedrive(p) \/ Boot(p) \/ Crash(p)
                 \/ \E r \in Rows, mode \in {"stalled", "abandon"} : OperatorRow(p, r, mode)
          PROVE  UNCHANGED outbox
        BY <2>6 DEF PassOver, Reset, RunConsumer, Finish, OperatorRedrive, Boot, Crash,
                    OperatorRow
    <2>7. CASE UNCHANGED vars
        BY <2>7, <2>s DEF vars
    <2>8. ASSUME NEW p \in Procs, Relay(p)
          PROVE  Promise!Next \/ UNCHANGED Debts
        BY <2>2, <2>3, <2>4, <2>6, <2>8, <2>s DEF Relay
    <2> QED
        BY <1>2, <2>1, <2>5, <2>6, <2>7, <2>8, <2>s DEF Next
<1>3. ASSUME ClaimInv, ClaimInv', [Next]_vars
      PROVE  [Promise!Next]_[r \in Rows |->
                 CASE outbox[r].status = "absent"  -> "none"
                   [] outbox[r].status = "pending" -> "owed"
                   [] outbox[r].status = "claimed" -> "started"
                   [] OTHER                        -> "closed"]
    BY <1>2, <1>3 DEF Debts, DebtOf
<1>4. Init => ClaimInv
    BY OrderStart DEF ClaimInv
<1>5. ClaimInv /\ [Next]_vars => ClaimInv'
    BY ClaimStep
<1> QED
    BY <1>1, <1>3, <1>4, <1>5, PTL DEF Spec, KeepsPromise, Promise!Spec
=============================================================================
