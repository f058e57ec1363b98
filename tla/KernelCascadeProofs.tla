------------------------ MODULE KernelCascadeProofs -------------------------
(***************************************************************************)
(* Proofs about KernelCascade, for any process manager, policies, commands *)
(* and ceiling.                                                            *)
(***************************************************************************)
EXTENDS KernelCascade, FunctionTheorems, FiniteSetTheorems, SequenceTheorems, TLAPS

(* How many elements of a sequence are in A. *)
Places(s, A) == {i \in DOMAIN s : s[i] \in A}
Count(s, A) == Cardinality(Places(s, A))

(* The places are finitely many. *)
LEMMA CountType ==
    ASSUME NEW S, NEW s \in Seq(S), NEW A
    PROVE  IsFiniteSet(Places(s, A)) /\ Count(s, A) \in Nat
<1>1. Len(s) \in Nat /\ DOMAIN s = 1..Len(s)
  OBVIOUS
<1>2. IsFiniteSet(1..Len(s))
  BY <1>1, FS_Interval
<1>3. Places(s, A) \in SUBSET (1..Len(s))
  BY <1>1 DEF Places
<1>4. IsFiniteSet(Places(s, A))
  BY <1>2, <1>3, FS_Subset
<1> QED BY <1>4, FS_CardinalityType DEF Count

(* An empty sequence has none, a single element counts if it is in A. *)
LEMMA CountSmall ==
    ASSUME NEW A, NEW x
    PROVE  /\ Count(<< >>, A) = 0
           /\ Count(<<x>>, A) = IF x \in A THEN 1 ELSE 0
<1>1. Places(<< >>, A) = {}
  BY DEF Places
<1>2. Places(<<x>>, A) = IF x \in A THEN {1} ELSE {}
  BY DEF Places
<1> QED BY <1>1, <1>2, FS_EmptySet, FS_Singleton DEF Count

(* The count of a concatenation is the sum of the counts. *)
LEMMA CountConcat ==
    ASSUME NEW S, NEW s \in Seq(S), NEW u \in Seq(S), NEW A
    PROVE  Count(s \o u, A) = Count(s, A) + Count(u, A)
<1> DEFINE n == Len(s)
           P == Places(s, A)
           Q == Places(u, A)
           R == {i \in (n + 1)..(n + Len(u)) : u[i - n] \in A}
<1>1. /\ n \in Nat /\ Len(u) \in Nat /\ DOMAIN s = 1..n /\ DOMAIN u = 1..Len(u)
      /\ DOMAIN (s \o u) = 1..(n + Len(u))
      /\ \A i \in 1..n : (s \o u)[i] = s[i]
      /\ \A i \in (n + 1)..(n + Len(u)) : (s \o u)[i] = u[i - n]
  BY DEF n
<1> HIDE DEF n
<1>2. Places(s \o u, A) = P \cup R
  <2>1. ASSUME NEW i PROVE i \in Places(s \o u, A) <=> i \in P \cup R
    <3>1. i \in Places(s \o u, A) <=> i \in 1..(n + Len(u)) /\ (s \o u)[i] \in A
      BY <1>1 DEF Places
    <3>2. i \in P <=> i \in 1..n /\ s[i] \in A
      BY <1>1 DEF Places
    <3>3. i \in 1..(n + Len(u)) <=> i \in 1..n \/ i \in (n + 1)..(n + Len(u))
      BY <1>1
    <3> QED BY <1>1, <3>1, <3>2, <3>3
  <2> QED BY <2>1
<1>3. P \cap R = {}
  BY <1>1 DEF Places
<1>4. IsFiniteSet(P) /\ IsFiniteSet(Q) /\ Count(s, A) \in Nat /\ Count(u, A) \in Nat
  BY CountType
<1>5. ExistsBijection(Q, R)
  <2> DEFINE f == [i \in Q |-> i + n]
  <2>0. \A i \in Q : i \in 1..Len(u) /\ i \in Nat /\ u[i] \in A
    BY <1>1 DEF Places
  <2>1. f \in [Q -> R]
    <3>1. ASSUME NEW i \in Q PROVE i + n \in R
      <4>1. i \in Nat /\ i \in 1..Len(u) /\ u[i] \in A
        BY <2>0
      <4>2. i + n \in (n + 1)..(n + Len(u)) /\ (i + n) - n = i
        BY <1>1, <4>1
      <4> QED BY <4>1, <4>2
    <3> QED BY <3>1
  <2>2. \A i, j \in Q : f[i] = f[j] => i = j
    BY <1>1, <2>0
  <2>3. \A k \in R : \E i \in Q : f[i] = k
    <3> SUFFICES ASSUME NEW k \in R PROVE \E i \in Q : f[i] = k
      OBVIOUS
    <3>1. k \in Nat /\ k \in (n + 1)..(n + Len(u)) /\ u[k - n] \in A
      BY <1>1
    <3>2. k - n \in 1..Len(u) /\ (k - n) + n = k
      BY <1>1, <3>1
    <3>3. k - n \in Q
      BY <1>1, <3>1, <3>2 DEF Places
    <3> QED BY <3>2, <3>3
  <2>4. f \in Bijection(Q, R)
    BY <2>1, <2>2, <2>3 DEF Bijection, Injection, Surjection, IsInjective
  <2> QED BY <2>4 DEF ExistsBijection
<1>6. IsFiniteSet(R) /\ Cardinality(R) = Count(u, A)
  BY <1>4, <1>5, FS_Bijection DEF Count
<1>7. Cardinality(P \cup R) = Cardinality(P) + Cardinality(R) - Cardinality(P \cap R)
  BY <1>4, <1>6, FS_Union
<1>8. Cardinality(P \cap R) = 0
  BY <1>3, FS_EmptySet
<1> QED BY <1>2, <1>4, <1>6, <1>7, <1>8 DEF Count

(* Counting from the front. *)
LEMMA CountHead ==
    ASSUME NEW S, NEW s \in Seq(S), s # << >>, NEW A
    PROVE  /\ Head(s) \in S /\ Tail(s) \in Seq(S)
           /\ Count(s, A) = Count(Tail(s), A) + (IF Head(s) \in A THEN 1 ELSE 0)
<1>1. Head(s) \in S /\ Tail(s) \in Seq(S) /\ <<Head(s)>> \in Seq(S)
  OBVIOUS
<1>2. s = <<Head(s)>> \o Tail(s)
  <2> DEFINE u == <<Head(s)>> \o Tail(s)
  <2>1. /\ Len(s) \in Nat /\ Len(Tail(s)) = Len(s) - 1
        /\ \A i \in 1..Len(Tail(s)) : Tail(s)[i] = s[i + 1]
    BY HeadTailProperties
  <2>2. /\ u \in Seq(S) /\ Len(u) = Len(s)
        /\ \A i \in 1..Len(s) : u[i] = IF i <= 1 THEN Head(s) ELSE Tail(s)[i - 1]
    <3>1. Len(<<Head(s)>>) = 1 /\ <<Head(s)>>[1] = Head(s)
      OBVIOUS
    <3>2. /\ u \in Seq(S) /\ Len(u) = Len(<<Head(s)>>) + Len(Tail(s))
          /\ \A i \in 1..(Len(<<Head(s)>>) + Len(Tail(s))) :
               u[i] = IF i <= Len(<<Head(s)>>) THEN <<Head(s)>>[i] ELSE Tail(s)[i - Len(<<Head(s)>>)]
      BY <1>1, ConcatProperties
    <3> HIDE DEF u
    <3> QED BY <2>1, <3>1, <3>2
  <2> HIDE DEF u
  <2>3. ASSUME NEW i \in 1..Len(s) PROVE s[i] = u[i]
    <3>1. CASE i = 1
      BY <2>1, <2>2, <3>1
    <3>2. CASE i # 1
      <4>1. i - 1 \in 1..Len(Tail(s)) /\ (i - 1) + 1 = i /\ ~(i <= 1)
        BY <2>1, <3>2
      <4>2. Tail(s)[i - 1] = s[i]
        BY <2>1, <4>1
      <4> QED BY <2>2, <4>1, <4>2
    <3> QED BY <3>1, <3>2
  <2>4. s = u
    BY <2>2, <2>3, SeqEqual
  <2> QED BY <2>4 DEF u
<1>3. Count(s, A) = Count(<<Head(s)>>, A) + Count(Tail(s), A)
  BY <1>1, <1>2, CountConcat
<1>4. Count(<<Head(s)>>, A) = IF Head(s) \in A THEN 1 ELSE 0
  BY CountSmall
<1>5. Count(Tail(s), A) \in Nat
  BY <1>1, CountType
<1> QED BY <1>1, <1>3, <1>4, <1>5

(* Counting from the back. *)
LEMMA CountAppend ==
    ASSUME NEW S, NEW s \in Seq(S), NEW x \in S, NEW A
    PROVE  Count(Append(s, x), A) = Count(s, A) + (IF x \in A THEN 1 ELSE 0)
<1>1. <<x>> \in Seq(S) /\ Append(s, x) = s \o <<x>>
  OBVIOUS
<1>2. Count(Append(s, x), A) = Count(s, A) + Count(<<x>>, A)
  BY <1>1, CountConcat
<1> QED BY <1>2, CountSmall

(* A pair, counted. *)
LEMMA CountPair ==
    ASSUME NEW S, NEW x \in S, NEW y \in S, NEW A
    PROVE  /\ <<x, y>> \in Seq(S)
           /\ Count(<<x, y>>, A) = (IF x \in A THEN 1 ELSE 0) + (IF y \in A THEN 1 ELSE 0)
<1>1. <<x, y>> \in Seq(S) /\ <<x>> \in Seq(S)
  OBVIOUS
<1>2. Append(<<x>>, y) \in Seq(S) /\ Len(Append(<<x>>, y)) = 2
      /\ Append(<<x>>, y)[1] = x /\ Append(<<x>>, y)[2] = y
  <2>1. Len(<<x>>) = 1 /\ <<x>>[1] = x
    OBVIOUS
  <2> QED BY <1>1, <2>1, AppendProperties
<1>3. <<x, y>> = Append(<<x>>, y)
  <2>1. Len(<<x, y>>) = 2 /\ <<x, y>>[1] = x /\ <<x, y>>[2] = y
    OBVIOUS
  <2>2. \A i \in 1..2 : <<x, y>>[i] = Append(<<x>>, y)[i]
    BY <1>2, <2>1
  <2> QED BY <1>1, <1>2, <2>1, <2>2, SeqEqual
<1>4. Count(Append(<<x>>, y), A) = Count(<<x>>, A) + (IF y \in A THEN 1 ELSE 0)
  BY <1>1, CountAppend
<1>5. Count(<<x>>, A) = IF x \in A THEN 1 ELSE 0
  BY CountSmall
<1> QED BY <1>1, <1>3, <1>4, <1>5

(* What is taken from the back is the last element. *)
LEMMA CountFront ==
    ASSUME NEW S, NEW s \in Seq(S), s # << >>, NEW A
    PROVE  /\ Front(s) \in Seq(S) /\ Last(s) \in S
           /\ Count(s, A) = Count(Front(s), A) + (IF Last(s) \in A THEN 1 ELSE 0)
<1>1. Len(s) \in Nat \ {0} /\ Front(s) = SubSeq(s, 1, Len(s) - 1) /\ Last(s) = s[Len(s)]
  BY DEF Front, Last
<1>2. Front(s) \in Seq(S) /\ Last(s) \in S
  BY <1>1
<1>3. s = Append(Front(s), Last(s))
  <2>1. \A i \in 1..(Len(s) - 1) : s[i] \in S
    BY <1>1
  <2>2. /\ Len(Front(s)) = Len(s) - 1
        /\ \A i \in 1..(Len(s) - 1) : Front(s)[i] = s[i]
    <3>1. PICK n : n = Len(s) - 1
      OBVIOUS
    <3>2. n \in Nat /\ n <= Len(s) /\ n = (1 + n) - 1 /\ \A i \in 1..n : s[i] \in S
      BY <1>1, <2>1, <3>1
    <3>3. Front(s) = SubSeq(s, 1, n)
      BY <1>1, <3>1
    <3>4. Len(SubSeq(s, 1, n)) = n /\ \A i \in 1..n : SubSeq(s, 1, n)[i] = s[i]
      BY <1>1, <3>2
    <3> QED BY <3>1, <3>3, <3>4
  <2>3. /\ Append(Front(s), Last(s)) \in Seq(S)
        /\ Len(Append(Front(s), Last(s))) = Len(s)
        /\ \A i \in 1..Len(s) : Append(Front(s), Last(s))[i] = s[i]
    BY <1>1, <1>2, <2>2, AppendProperties
  <2> QED BY <2>3, SeqEqual
<1> QED BY <1>2, <1>3, CountAppend

-----------------------------------------------------------------------------
(* What is left to do: the frames of the recursion. *)
NamedTask(op) == [op: {op}, name: Events, depth: Nat, known: BOOLEAN]
Task ==
    [op: {"run"}, cmd: Commands, depth: Nat]
    \cup NamedTask("event") \cup NamedTask("sagas") \cup NamedTask("end")
    \cup [op: {"policy"}, rule: PolicyType, depth: Nat]
    \cup [op: {"leg"}, does: Seq(Commands), depth: Nat, refused: BOOLEAN, heeds: BOOLEAN]
    \cup [op: {"drain"}, depth: Nat]

(* The events whose cross-domain policies are still to be matched. *)
Crossing == {t \in Task : t.op \in {"event", "sagas"} /\ t.name \in CrossOn}

Compensable == {c \in Commands : CompOf[c] # None}

(* The types of what the cascade keeps. *)
TypesFit ==
    /\ todo \in Seq(Task) /\ live \in BOOLEAN /\ state \in States
    /\ ledger \in Seq(Compensable) /\ standing \in [Commands -> Int]
    /\ logged \in Nat /\ cross \in Nat /\ calls \in Nat

(* The ledger holds one entry for each compensable delivery that still stands. *)
LedgerIsStanding == \A c \in Commands : standing[c] = Count(ledger, {c})

(* What was logged for the host is handed over or still on the stack. *)
HandoverPending == logged = cross + Count(todo, Crossing)

CascadeInv == TypesFit /\ LedgerIsStanding /\ HandoverPending

(* A sequence with nothing of A in it counts zero. *)
LEMMA CountNone ==
    ASSUME NEW s, NEW A, \A i \in DOMAIN s : s[i] \notin A
    PROVE  Count(s, A) = 0
<1>1. Places(s, A) = {}
  BY DEF Places
<1> QED BY <1>1, FS_EmptySet DEF Count

(* The frames have the types of frames, and two kinds of them carry an event *)
(* whose cross-domain policies are still to come.                            *)
LEMMA TaskTypes ==
    ASSUME NEW d \in Nat, NEW k \in BOOLEAN, NEW e \in Events, NEW c \in Commands,
           NEW p \in PolicyType, NEW does \in Seq(Commands), NEW r \in BOOLEAN
    PROVE  /\ RunTask(c, d) \in Task \ Crossing
           /\ EventTask(e, d, k) \in Task
           /\ EventTask(e, d, k) \in Crossing <=> e \in CrossOn
           /\ PolicyTask(p, d) \in Task \ Crossing
           /\ SagasTask(e, d, k) \in Task
           /\ SagasTask(e, d, k) \in Crossing <=> e \in CrossOn
           /\ EndTask(e, d, k) \in Task \ Crossing
           /\ LegTask(does, d, r, k) \in Task \ Crossing
           /\ DrainTask(d) \in Task \ Crossing
<1>1. RunTask(c, d) \in Task \ Crossing
  BY DEF RunTask, Task, Crossing
<1>2. EventTask(e, d, k) \in Task /\ (EventTask(e, d, k) \in Crossing <=> e \in CrossOn)
  BY DEF EventTask, Task, Crossing, NamedTask
<1>3. PolicyTask(p, d) \in Task \ Crossing
  BY DEF PolicyTask, Task, Crossing
<1>4. SagasTask(e, d, k) \in Task /\ (SagasTask(e, d, k) \in Crossing <=> e \in CrossOn)
  BY DEF SagasTask, Task, Crossing, NamedTask
<1>5. EndTask(e, d, k) \in Task \ Crossing
  BY DEF EndTask, Task, Crossing, NamedTask
<1>6. LegTask(does, d, r, k) \in Task \ Crossing
  BY DEF LegTask, Task, Crossing
<1>7. DrainTask(d) \in Task \ Crossing
  BY DEF DrainTask, Task, Crossing
<1> QED BY <1>1, <1>2, <1>3, <1>4, <1>5, <1>6, <1>7

(* What a frame holds, by its kind. *)
LEMMA TaskFields ==
    ASSUME NEW t \in Task
    PROVE  /\ t.depth \in Nat
           /\ t.op \in {"run", "event", "sagas", "end", "policy", "leg", "drain"}
           /\ t.op = "run" => t.cmd \in Commands
           /\ t.op \in {"event", "sagas", "end"} => t.name \in Events /\ t.known \in BOOLEAN
           /\ t.op = "policy" => t.rule \in PolicyType
           /\ t.op = "leg" => t.does \in Seq(Commands) /\ t.refused \in BOOLEAN /\ t.heeds \in BOOLEAN
           /\ t \in Crossing <=> t.op \in {"event", "sagas"} /\ t.name \in CrossOn
  BY DEF Task, Crossing, NamedTask

(* The events of a command are frames; the ones the host is to hear of are *)
(* exactly the ones CrossAnswers counts when the batch is logged.          *)
LEMMA EmittedCount ==
    ASSUME NEW c \in Commands, NEW d \in Nat, NEW k \in BOOLEAN
    PROVE  /\ Emitted(c, d, k) \in Seq(Task)
           /\ Count(Emitted(c, d, k), Crossing) = CrossAnswers(c)
           /\ CrossAnswers(c) \in Nat
<1>1. EmitsOf[c] \in Seq(Events)
  BY KernelAssumption
<1>2. PICK n \in Nat : DOMAIN EmitsOf[c] = 1..n /\ \A i \in 1..n : EmitsOf[c][i] \in Events
  BY <1>1
<1>3. \A i \in 1..n :
         /\ Emitted(c, d, k)[i] = EventTask(EmitsOf[c][i], d, k \/ EmitsOf[c][i] \in Carries)
         /\ Emitted(c, d, k)[i] \in Task
         /\ Emitted(c, d, k)[i] \in Crossing <=> EmitsOf[c][i] \in CrossOn
  <2> SUFFICES ASSUME NEW i \in 1..n
               PROVE  /\ Emitted(c, d, k)[i] = EventTask(EmitsOf[c][i], d, k \/ EmitsOf[c][i] \in Carries)
                      /\ Emitted(c, d, k)[i] \in Task
                      /\ Emitted(c, d, k)[i] \in Crossing <=> EmitsOf[c][i] \in CrossOn
    OBVIOUS
  <2>1. Emitted(c, d, k)[i] = EventTask(EmitsOf[c][i], d, k \/ EmitsOf[c][i] \in Carries)
    BY <1>2 DEF Emitted
  <2>2. PICK b \in BOOLEAN : b = (k \/ EmitsOf[c][i] \in Carries)
    OBVIOUS
  <2>3. EmitsOf[c][i] \in Events
    BY <1>2
  <2>4. EventTask(EmitsOf[c][i], d, b) \in Task
        /\ (EventTask(EmitsOf[c][i], d, b) \in Crossing <=> EmitsOf[c][i] \in CrossOn)
    BY <2>3 DEF EventTask, Task, Crossing, NamedTask
  <2>5. EventTask(EmitsOf[c][i], d, k \/ EmitsOf[c][i] \in Carries) = EventTask(EmitsOf[c][i], d, b)
    BY <2>2
  <2> QED BY <2>1, <2>4, <2>5
<1>4. DOMAIN Emitted(c, d, k) = 1..n
  BY <1>2 DEF Emitted
<1>5. Emitted(c, d, k) \in Seq(Task)
  <2>1. Emitted(c, d, k) = [i \in 1..n |-> Emitted(c, d, k)[i]]
    BY <1>2 DEF Emitted
  <2> QED BY <1>2, <1>3, <2>1
<1>6. Places(Emitted(c, d, k), Crossing) = {i \in DOMAIN EmitsOf[c] : EmitsOf[c][i] \in CrossOn}
  BY <1>2, <1>3, <1>4 DEF Places
<1>7. Count(Emitted(c, d, k), Crossing) \in Nat
  BY <1>5, CountType
<1> QED BY <1>5, <1>6, <1>7 DEF Count, CrossAnswers

-----------------------------------------------------------------------------
(* What every step does to the stack, and to what is counted for the host. *)
Balanced ==
    /\ todo' \in Seq(Task) /\ logged' \in Nat /\ cross' \in Nat /\ calls' \in Nat
    /\ HandoverPending'

(* What every step does to the conversation. *)
Mirrored ==
    /\ live' \in BOOLEAN /\ state' \in States
    /\ ledger' \in Seq(Compensable) /\ standing' \in [Commands -> Int]
    /\ LedgerIsStanding'

(* The frame at the top is taken off and u put in its place. *)
LEMMA Replaced ==
    ASSUME NEW s \in Seq(Task), s # << >>, NEW u \in Seq(Task)
    PROVE  /\ Head(s) \in Task /\ Tail(s) \in Seq(Task) /\ u \o Tail(s) \in Seq(Task)
           /\ Count(s, Crossing) \in Nat /\ Count(u, Crossing) \in Nat
           /\ Count(u \o Tail(s), Crossing) \in Nat
           /\ Count(s, Crossing) = Count(Tail(s), Crossing) + (IF Head(s) \in Crossing THEN 1 ELSE 0)
           /\ Count(u \o Tail(s), Crossing) =
                Count(u, Crossing) + Count(Tail(s), Crossing)
           /\ Count(Tail(s), Crossing) \in Nat
<1>1. /\ Head(s) \in Task /\ Tail(s) \in Seq(Task)
      /\ Count(s, Crossing) = Count(Tail(s), Crossing) + (IF Head(s) \in Crossing THEN 1 ELSE 0)
  BY CountHead
<1>2. u \o Tail(s) \in Seq(Task)
  BY <1>1
<1>3. Count(u \o Tail(s), Crossing) = Count(u, Crossing) + Count(Tail(s), Crossing)
  BY <1>1, CountConcat
<1>4. Count(Tail(s), Crossing) \in Nat
  BY <1>1, CountType
<1>5. Count(s, Crossing) \in Nat /\ Count(u, Crossing) \in Nat
  BY CountType
<1>6. Count(u \o Tail(s), Crossing) \in Nat
  BY <1>2, CountType
<1> QED BY <1>1, <1>2, <1>3, <1>4, <1>5, <1>6

(* One frame in place of the top one. *)
LEMMA SingleTask ==
    ASSUME NEW t \in Task \ Crossing
    PROVE  <<t>> \in Seq(Task) /\ Count(<<t>>, Crossing) = 0
  BY CountSmall

(* A step that puts u in place of the top frame, logs `more` events for the host *)
(* and hands `over` over, keeps the balance if u holds what the difference is.   *)
LEMMA BalancedStep ==
    ASSUME TypesFit, HandoverPending, todo # << >>,
           NEW u \in Seq(Task), todo' = u \o Tail(todo),
           NEW more \in Nat, logged' = logged + more,
           NEW over \in Nat, cross' = cross + over,
           over + Count(u, Crossing) = more + (IF Head(todo) \in Crossing THEN 1 ELSE 0),
           calls' = calls
    PROVE  Balanced
<1>1. /\ todo \in Seq(Task) /\ logged \in Nat /\ cross \in Nat /\ calls \in Nat
      /\ logged = cross + Count(todo, Crossing)
  BY DEF TypesFit, HandoverPending
<1>2. /\ Count(todo, Crossing) \in Nat /\ Count(u, Crossing) \in Nat
      /\ Count(Tail(todo), Crossing) \in Nat
      /\ todo' \in Seq(Task)
      /\ Count(todo', Crossing) = Count(u, Crossing) + Count(Tail(todo), Crossing)
      /\ Count(todo, Crossing) = Count(Tail(todo), Crossing) + (IF Head(todo) \in Crossing THEN 1 ELSE 0)
  BY <1>1, Replaced
<1>3. PICK h \in Nat : h = IF Head(todo) \in Crossing THEN 1 ELSE 0
  OBVIOUS
<1>4. logged' = cross' + Count(todo', Crossing)
  <2>1. PICK a \in Nat, b \in Nat, r \in Nat :
          a = Count(todo, Crossing) /\ b = Count(u, Crossing) /\ r = Count(Tail(todo), Crossing)
    BY <1>2
  <2>2. Count(todo', Crossing) = b + r /\ a = r + h /\ over + b = more + h
    BY <1>2, <1>3, <2>1
  <2>3. logged = cross + a
    BY <1>1, <2>1
  <2> QED BY <1>1, <2>2, <2>3
<1>5. HandoverPending'
  BY <1>4 DEF HandoverPending
<1>6. logged' \in Nat /\ cross' \in Nat
  BY <1>1
<1>7. calls' \in Nat
  BY <1>1
<1> QED BY <1>2, <1>5, <1>6, <1>7 DEF Balanced

(* A frame that is over is only taken off. *)
LEMMA BalancedPop ==
    ASSUME TypesFit, HandoverPending, todo # << >>, todo' = Tail(todo),
           Head(todo) \notin Crossing,
           logged' = logged, cross' = cross, calls' = calls
    PROVE  Balanced
<1>0. << >> \in Seq(Task)
  OBVIOUS
<1>1. << >> \in Seq(Task) /\ Count(<< >>, Crossing) = 0
  BY <1>0, CountSmall
<1>2. todo \in Seq(Task) /\ logged \in Nat /\ cross \in Nat
  BY DEF TypesFit
<1>3. todo' = << >> \o Tail(todo)
  BY <1>2, CountHead, ConcatEmptySeq
<1>4. logged' = logged + 0 /\ cross' = cross + 0 /\ 0 \in Nat
  BY <1>2
<1>5. 0 + Count(<< >>, Crossing) = 0 + (IF Head(todo) \in Crossing THEN 1 ELSE 0)
  BY <1>1
<1> QED BY <1>1, <1>3, <1>4, <1>5, BalancedStep

(* run: a dispatched command's events, a refused one's nothing. *)
LEMMA RunBalanced ==
    ASSUME TypesFit, HandoverPending, RunAccepted \/ RunRefused
    PROVE  Balanced
<1> DEFINE t == Head(todo)
<1>1. /\ todo # << >> /\ t.op = "run" /\ todo \in Seq(Task) /\ cross' = cross /\ calls' = calls
      /\ logged \in Nat /\ cross \in Nat
  BY DEF RunAccepted, RunRefused, Doing, TypesFit
<1>2. t \in Task
  BY <1>1, CountHead
<1>3. t.cmd \in Commands /\ t.depth \in Nat /\ t \notin Crossing
  BY <1>1, <1>2, TaskFields
<1>4. CASE RunAccepted
  <2>1. todo' = Emitted(t.cmd, t.depth, FALSE) \o Tail(todo) /\ logged' = logged + CrossAnswers(t.cmd)
    BY <1>4 DEF RunAccepted
  <2>2. /\ Emitted(t.cmd, t.depth, FALSE) \in Seq(Task)
        /\ Count(Emitted(t.cmd, t.depth, FALSE), Crossing) = CrossAnswers(t.cmd)
        /\ CrossAnswers(t.cmd) \in Nat
    BY <1>3, EmittedCount
  <2>3. cross' = cross + 0 /\ 0 + CrossAnswers(t.cmd) = CrossAnswers(t.cmd) + 0
    BY <1>1, <2>2
  <2> QED BY <1>1, <1>3, <2>1, <2>2, <2>3, BalancedStep
<1>5. CASE RunRefused
  BY <1>1, <1>3, <1>5, BalancedPop DEF RunRefused
<1> QED BY <1>4, <1>5

(* react: the sagas frame keeps what the event frame held for the host. *)
LEMMA ReactBalanced ==
    ASSUME TypesFit, HandoverPending, React
    PROVE  Balanced
<1> DEFINE t == Head(todo)
           answering == PoliciesOn[t.name]
           ps == [i \in DOMAIN answering |-> PolicyTask(answering[i], t.depth)]
           sa == SagasTask(t.name, t.depth, t.known)
           en == EndTask(t.name, t.depth, t.known)
<1>1. /\ todo # << >> /\ t.op = "event" /\ todo \in Seq(Task)
      /\ cross' = cross /\ calls' = calls /\ logged' = logged
      /\ logged \in Nat /\ cross \in Nat
      /\ todo' = ps \o <<sa, en>> \o Tail(todo)
  BY DEF React, Doing, TypesFit
<1>2. t \in Task
  BY <1>1, CountHead
<1>3. t.name \in Events /\ t.known \in BOOLEAN /\ t.depth \in Nat /\ (t \in Crossing <=> t.name \in CrossOn)
  BY <1>1, <1>2, TaskFields
<1>4. answering \in Seq(PolicyType)
  BY <1>3, KernelAssumption
<1>5. ps \in Seq(Task) /\ Count(ps, Crossing) = 0
  <2>1. PICK n \in Nat : DOMAIN answering = 1..n /\ \A i \in 1..n : answering[i] \in PolicyType
    BY <1>4
  <2>2. \A i \in 1..n : PolicyTask(answering[i], t.depth) \in Task \ Crossing
    BY <1>3, <2>1 DEF PolicyTask, Task, Crossing
  <2>3. ps = [i \in 1..n |-> PolicyTask(answering[i], t.depth)]
    BY <2>1
  <2>4. ps \in Seq(Task) /\ \A i \in DOMAIN ps : ps[i] \notin Crossing
    BY <2>1, <2>2, <2>3
  <2> QED BY <2>4, CountNone
<1>6. /\ sa \in Task /\ (sa \in Crossing <=> t.name \in CrossOn)
      /\ en \in Task \ Crossing
  BY <1>3 DEF SagasTask, EndTask, Task, Crossing, NamedTask
<1> HIDE DEF ps, sa, en, t
<1>7. /\ <<sa, en>> \in Seq(Task)
      /\ Count(<<sa, en>>, Crossing) = (IF sa \in Crossing THEN 1 ELSE 0) + (IF en \in Crossing THEN 1 ELSE 0)
  BY <1>6, CountPair
<1>8. Count(<<sa, en>>, Crossing) = IF t \in Crossing THEN 1 ELSE 0
  BY <1>3, <1>6, <1>7
<1>10. PICK u : u = ps \o <<sa, en>>
  OBVIOUS
<1>11. u \in Seq(Task) /\ Count(u, Crossing) = 0 + Count(<<sa, en>>, Crossing)
  <2>1. Count(ps \o <<sa, en>>, Crossing) = Count(ps, Crossing) + Count(<<sa, en>>, Crossing)
    BY <1>5, <1>7, CountConcat
  <2>2. ps \o <<sa, en>> \in Seq(Task)
    BY <1>5, <1>7
  <2> QED BY <1>5, <1>10, <2>1, <2>2
<1>12. todo' = u \o Tail(todo)
  BY <1>1, <1>10
<1>13. /\ logged' = logged + 0 /\ cross' = cross + 0
       /\ 0 + Count(u, Crossing) = 0 + (IF t \in Crossing THEN 1 ELSE 0)
  BY <1>1, <1>8, <1>11
<1> QED BY <1>1, <1>11, <1>12, <1>13, BalancedStep DEF t

(* react_policies: a policy re-enters run, once per row. *)
LEMMA PolicyBalanced ==
    ASSUME TypesFit, HandoverPending, FollowPolicy
    PROVE  Balanced
<1> DEFINE t == Head(todo)
           p == t.rule
           rt == RunTask(p.does, ReactionDepth(p.root, t.depth))
<1>1. /\ todo # << >> /\ t.op = "policy" /\ todo \in Seq(Task)
      /\ cross' = cross /\ calls' = calls /\ logged' = logged
      /\ logged \in Nat /\ cross \in Nat
  BY DEF FollowPolicy, Doing, TypesFit
<1>2. t \in Task
  BY <1>1, CountHead
<1>3. t.rule \in PolicyType /\ t.depth \in Nat /\ t \notin Crossing
  BY <1>1, <1>2, TaskFields
<1>4. PICK n \in 0..MaxRows \cup {0, 1} : todo' = [i \in 1..n |-> rt] \o Tail(todo)
  <2>1. MaxRows \in Nat
    BY KernelAssumption
  <2> QED BY <2>1 DEF FollowPolicy
<1>5. n \in Nat
  BY <1>4, KernelAssumption
<1>6. rt \in Task \ Crossing
  BY <1>3 DEF RunTask, ReactionDepth, Task, Crossing, PolicyType
<1> HIDE DEF rt, t
<1>7. PICK u : u = [i \in 1..n |-> rt]
  OBVIOUS
<1>8. u \in Seq(Task) /\ \A i \in DOMAIN u : u[i] \notin Crossing
  BY <1>5, <1>6, <1>7
<1>9. Count(u, Crossing) = 0
  BY <1>8, CountNone
<1>10. /\ logged' = logged + 0 /\ cross' = cross + 0
       /\ 0 + Count(u, Crossing) = 0 + (IF t \in Crossing THEN 1 ELSE 0)
  BY <1>1, <1>3, <1>9
<1>11. todo' = u \o Tail(todo)
  BY <1>4, <1>7
<1> QED BY <1>1, <1>8, <1>10, <1>11, BalancedStep DEF t

(* advance_saga: the event's cross-domain matches are handed over as its frame goes. *)
LEMMA AdvanceBalanced ==
    ASSUME TypesFit, HandoverPending, BeginAndAdvance
    PROVE  Balanced
<1> DEFINE t == Head(todo)
<1>1. /\ todo # << >> /\ t.op = "sagas" /\ todo \in Seq(Task)
      /\ calls' = calls /\ logged' = logged
      /\ cross' = cross + CrossMatched(t.name, t.depth)
      /\ logged \in Nat /\ cross \in Nat
  BY DEF BeginAndAdvance, Doing, TypesFit
<1>2. t \in Task
  BY <1>1, CountHead
<1>3. t.name \in Events /\ t.depth \in Nat /\ (t \in Crossing <=> t.name \in CrossOn)
  BY <1>1, <1>2, TaskFields
<1>4. CrossMatched(t.name, t.depth) \in Nat /\ CrossMatched(t.name, t.depth) = IF t \in Crossing THEN 1 ELSE 0
  BY <1>3 DEF CrossMatched
<1>5. \E u \in Seq(Task) : todo' = u \o Tail(todo) /\ Count(u, Crossing) = 0
  <2>1. CASE todo' = Tail(todo)
    <3>1. << >> \in Seq(Task)
      OBVIOUS
    <3>2. Tail(todo) = << >> \o Tail(todo)
      BY <1>1, CountHead, ConcatEmptySeq
    <3> QED BY <2>1, <3>1, <3>2, CountSmall
  <2>2. CASE \E h \in Handlers : todo' = <<LegTask(h.does, t.depth, FALSE, TRUE)>> \o Tail(todo)
    <3>1. PICK h \in Handlers : todo' = <<LegTask(h.does, t.depth, FALSE, TRUE)>> \o Tail(todo)
      BY <2>2
    <3>2. h.does \in Seq(Commands)
      BY KernelAssumption DEF HandlerType
    <3>3. PICK g : g = LegTask(h.does, t.depth, FALSE, TRUE)
      OBVIOUS
    <3>4. g \in Task \ Crossing
      BY <1>3, <3>2, <3>3 DEF LegTask, Task, Crossing
    <3>5. <<g>> \in Seq(Task) /\ Count(<<g>>, Crossing) = 0
      BY <3>4, SingleTask
    <3> QED BY <3>1, <3>3, <3>5
  <2>3. todo' = Tail(todo)
        \/ \E h \in Handlers : todo' = <<LegTask(h.does, t.depth, FALSE, TRUE)>> \o Tail(todo)
    BY DEF BeginAndAdvance, Legs
  <2> QED BY <2>1, <2>2, <2>3
<1> HIDE DEF t
<1>6. PICK u \in Seq(Task) : todo' = u \o Tail(todo) /\ Count(u, Crossing) = 0
  BY <1>5
<1>7. PICK over \in Nat : over = CrossMatched(t.name, t.depth)
  BY <1>4
<1>8. /\ logged' = logged + 0 /\ cross' = cross + over
      /\ over + Count(u, Crossing) = 0 + (IF t \in Crossing THEN 1 ELSE 0)
  BY <1>1, <1>4, <1>6, <1>7
<1>9. 0 \in Nat
  OBVIOUS
<1> QED BY <1>1, <1>6, <1>8, <1>9, BalancedStep DEF t

(* deliver_saga_dispatch: the dispatch's events go above the rest of its leg. *)
LEMMA DeliverBalanced ==
    ASSUME TypesFit, HandoverPending, Deliver
    PROVE  Balanced
<1> DEFINE t == Head(todo)
           c == Head(t.does)
           rest(r) == LegTask(Tail(t.does), t.depth, r, t.heeds)
<1>1. /\ todo # << >> /\ t.op = "leg" /\ t.does # << >> /\ todo \in Seq(Task)
      /\ calls' = calls /\ cross' = cross
      /\ logged \in Nat /\ cross \in Nat
  BY DEF Deliver, Doing, TypesFit
<1>2. t \in Task
  BY <1>1, CountHead
<1>3. /\ t.does \in Seq(Commands) /\ t.depth \in Nat /\ t.refused \in BOOLEAN /\ t.heeds \in BOOLEAN
      /\ t \notin Crossing
  BY <1>1, <1>2, TaskFields
<1>4. c \in Commands /\ Tail(t.does) \in Seq(Commands)
  BY <1>1, <1>3
<1>5. \A r \in BOOLEAN : rest(r) \in Task \ Crossing
  BY <1>3, <1>4 DEF LegTask, Task, Crossing
<1>6. \/ /\ logged' = logged + CrossAnswers(c)
         /\ todo' = Emitted(c, t.depth + 1, TRUE) \o (<<rest(t.refused)>> \o Tail(todo))
      \/ logged' = logged /\ \E r \in BOOLEAN : todo' = <<rest(r)>> \o Tail(todo)
  <2>1. \A a : (t.refused \/ a = "refused") \in BOOLEAN
    OBVIOUS
  <2> QED BY <1>3, <2>1 DEF Deliver
<1> HIDE DEF rest, c, t
<1>7. CASE /\ logged' = logged + CrossAnswers(c)
           /\ todo' = Emitted(c, t.depth + 1, TRUE) \o (<<rest(t.refused)>> \o Tail(todo))
  <2>1. t.depth + 1 \in Nat
    BY <1>3
  <2>2. PICK e \in Seq(Task) : /\ e = Emitted(c, t.depth + 1, TRUE)
                               /\ Count(e, Crossing) = CrossAnswers(c) /\ CrossAnswers(c) \in Nat
    BY <1>4, <2>1, EmittedCount
  <2>3. PICK g \in Task \ Crossing : g = rest(t.refused)
    BY <1>3, <1>5
  <2>4. <<g>> \in Seq(Task) /\ Count(<<g>>, Crossing) = 0
    BY SingleTask
  <2>5. Tail(todo) \in Seq(Task)
    BY <1>1, CountHead
  <2>6. e \o (<<g>> \o Tail(todo)) = (e \o <<g>>) \o Tail(todo)
    BY <2>4, <2>5, ConcatAssociative
  <2>0. e \o <<g>> \in Seq(Task)
    BY <2>4
  <2>7. PICK u \in Seq(Task) : u = e \o <<g>>
    BY <2>0
  <2>8. Count(u, Crossing) = Count(e, Crossing) + Count(<<g>>, Crossing)
    BY <2>4, <2>7, CountConcat
  <2>9. todo' = u \o Tail(todo)
    BY <1>7, <2>2, <2>3, <2>6, <2>7
  <2>10. PICK more \in Nat : more = CrossAnswers(c)
    BY <2>2
  <2>11. /\ logged' = logged + more /\ cross' = cross + 0
         /\ 0 + Count(u, Crossing) = more + (IF t \in Crossing THEN 1 ELSE 0)
    BY <1>1, <1>3, <1>7, <2>2, <2>4, <2>8, <2>10
  <2> QED BY <1>1, <2>9, <2>11, BalancedStep DEF t
<1>8. CASE logged' = logged /\ \E r \in BOOLEAN : todo' = <<rest(r)>> \o Tail(todo)
  <2>1. PICK g \in Task \ Crossing : todo' = <<g>> \o Tail(todo)
    BY <1>5, <1>8
  <2>2. <<g>> \in Seq(Task) /\ Count(<<g>>, Crossing) = 0
    BY SingleTask
  <2>3. /\ logged' = logged + 0 /\ cross' = cross + 0
        /\ 0 + Count(<<g>>, Crossing) = 0 + (IF t \in Crossing THEN 1 ELSE 0)
    BY <1>1, <1>3, <1>8, <2>2
  <2>4. PICK u \in Seq(Task) : u = <<g>>
    BY <2>2
  <2>5. todo' = u \o Tail(todo) /\ 0 \in Nat
        /\ 0 + Count(u, Crossing) = 0 + (IF t \in Crossing THEN 1 ELSE 0)
    BY <2>1, <2>3, <2>4
  <2> QED BY <1>1, <2>3, <2>5, BalancedStep DEF t
<1> QED BY <1>6, <1>7, <1>8

(* The end of a leg, and compensate: a drain and a compensating leg in its place. *)
LEMMA SettleBalanced ==
    ASSUME TypesFit, HandoverPending, Settle
    PROVE  Balanced
<1> DEFINE t == Head(todo)
<1>1. /\ todo # << >> /\ t.op = "leg" /\ todo \in Seq(Task)
      /\ calls' = calls /\ cross' = cross /\ logged' = logged
      /\ logged \in Nat /\ cross \in Nat
  BY DEF Settle, Doing, TypesFit
<1>2. t \in Task
  BY <1>1, CountHead
<1>3. t.depth \in Nat /\ t \notin Crossing
  BY <1>1, <1>2, TaskFields
<1>4. \/ todo' = Tail(todo)
      \/ \E h \in Handlers :
            todo' = <<DrainTask(t.depth), LegTask(h.does, t.depth, FALSE, FALSE)>> \o Tail(todo)
  BY DEF Settle, Legs
<1>5. CASE todo' = Tail(todo)
  BY <1>1, <1>3, <1>5, BalancedPop
<1>6. CASE \E h \in Handlers :
            todo' = <<DrainTask(t.depth), LegTask(h.does, t.depth, FALSE, FALSE)>> \o Tail(todo)
  <2>1. PICK h \in Handlers :
            todo' = <<DrainTask(t.depth), LegTask(h.does, t.depth, FALSE, FALSE)>> \o Tail(todo)
    BY <1>6
  <2>2. h.does \in Seq(Commands)
    BY KernelAssumption DEF HandlerType
  <2>3. PICK d, g : d = DrainTask(t.depth) /\ g = LegTask(h.does, t.depth, FALSE, FALSE)
    OBVIOUS
  <2>4. d \in Task \ Crossing /\ g \in Task \ Crossing
    BY <1>3, <2>2, <2>3 DEF DrainTask, LegTask, Task, Crossing
  <2>5. <<d, g>> \in Seq(Task) /\ Count(<<d, g>>, Crossing) = 0 + 0
    BY <2>4, CountPair
  <2>6. todo' = <<d, g>> \o Tail(todo)
    BY <2>1, <2>3
  <2>7. /\ logged' = logged + 0 /\ cross' = cross + 0
        /\ 0 + Count(<<d, g>>, Crossing) = 0 + (IF t \in Crossing THEN 1 ELSE 0)
    BY <1>1, <1>3, <2>5
  <2>8. PICK u \in Seq(Task) : u = <<d, g>>
    BY <2>5
  <2> QED BY <1>1, <2>6, <2>7, <2>8, BalancedStep
<1> QED BY <1>4, <1>5, <1>6

(* deliver_derived_compensation: a compensation's events go above the drain. *)
LEMMA UndoBalanced ==
    ASSUME TypesFit, HandoverPending, Undo
    PROVE  Balanced
<1> DEFINE t == Head(todo)
           c == CompOf[Last(ledger)]
<1>1. /\ todo # << >> /\ t.op = "drain" /\ todo \in Seq(Task) /\ ledger \in Seq(Compensable)
      /\ calls' = calls /\ cross' = cross /\ ledger # << >>
      /\ logged \in Nat /\ cross \in Nat /\ calls \in Nat
  BY DEF Undo, Draining, Doing, TypesFit
<1>2. t \in Task
  BY <1>1, CountHead
<1>3. t.depth \in Nat /\ t.depth + 1 \in Nat /\ t \notin Crossing
  <2>1. t.depth \in Nat /\ t \notin Crossing
    BY <1>1, <1>2, TaskFields
  <2> QED BY <2>1
<1>4. c \in Commands
  <2>1. Last(ledger) \in Compensable
    BY <1>1, CountFront
  <2> QED BY <2>1, KernelAssumption DEF Compensable
<1>5. \/ /\ logged' = logged + CrossAnswers(c)
         /\ todo' = Emitted(c, t.depth + 1, TRUE) \o todo
      \/ logged' = logged /\ todo' = todo
  BY DEF Undo, StillToDrain
<1> HIDE DEF c, t
<1>6. CASE /\ logged' = logged + CrossAnswers(c)
           /\ todo' = Emitted(c, t.depth + 1, TRUE) \o todo
  <2>1. PICK e \in Seq(Task) : /\ e = Emitted(c, t.depth + 1, TRUE)
                               /\ Count(e, Crossing) = CrossAnswers(c) /\ CrossAnswers(c) \in Nat
    BY <1>3, <1>4, EmittedCount
  <2>2. todo' = e \o todo
    BY <1>6, <2>1
  <2>3. Count(todo', Crossing) = Count(e, Crossing) + Count(todo, Crossing)
    BY <1>1, <2>2, CountConcat
  <2>4. PICK a \in Nat, b \in Nat : a = Count(todo, Crossing) /\ b = Count(e, Crossing)
    BY <1>1, CountType
  <2>5. logged = cross + a /\ logged' = logged + b /\ Count(todo', Crossing) = b + a
    BY <1>6, <2>1, <2>3, <2>4 DEF HandoverPending
  <2>6. logged' = cross' + Count(todo', Crossing) /\ logged' \in Nat
    BY <1>1, <2>5
  <2>7. todo' \in Seq(Task)
    BY <1>1, <2>2
  <2>8. HandoverPending'
    BY <2>6 DEF HandoverPending
  <2> QED BY <1>1, <2>6, <2>7, <2>8 DEF Balanced
<1>7. CASE logged' = logged /\ todo' = todo
  BY <1>1, <1>7 DEF Balanced, HandoverPending
<1> QED BY <1>5, <1>6, <1>7

(* The ends: an empty drain and end_saga are only taken off. *)
LEMMA EndBalanced ==
    ASSUME TypesFit, HandoverPending, Drained \/ EndSaga
    PROVE  Balanced
<1>1. /\ todo # << >> /\ Head(todo).op \in {"drain", "end"} /\ todo \in Seq(Task)
      /\ todo' = Tail(todo)
      /\ calls' = calls /\ cross' = cross /\ logged' = logged
  BY DEF Drained, EndSaga, Doing, TypesFit
<1>2. Head(todo) \in Task
  BY <1>1, CountHead
<1>3. Head(todo) \notin Crossing
  BY <1>1, <1>2, TaskFields
<1> QED BY <1>1, <1>3, BalancedPop

(* orchestrate: a new cascade starts counting anew. *)
LEMMA CallBalanced ==
    ASSUME TypesFit, HandoverPending, NEW c \in Entry, Call(c)
    PROVE  Balanced
<1>1. c \in Commands
  BY KernelAssumption
<1>2. /\ calls' = calls + 1 /\ logged' = 0 /\ cross' = 0 /\ todo' = <<RunTask(c, 0)>> /\ calls \in Nat
  BY DEF Call, TypesFit
<1>3. PICK g : g = RunTask(c, 0)
  OBVIOUS
<1>4. g \in Task \ Crossing
  BY <1>1, <1>3 DEF RunTask, Task, Crossing
<1>5. <<g>> \in Seq(Task) /\ Count(<<g>>, Crossing) = 0
  BY <1>4, SingleTask
<1>6. todo' \in Seq(Task) /\ Count(todo', Crossing) = 0
  BY <1>2, <1>3, <1>5
<1>7. HandoverPending'
  BY <1>2, <1>6 DEF HandoverPending
<1>8. calls' \in Nat /\ logged' \in Nat /\ cross' \in Nat
  BY <1>2
<1> QED BY <1>6, <1>7, <1>8 DEF Balanced

-----------------------------------------------------------------------------
(* What leaves the conversation alone leaves the ledger in step. *)
LEMMA MirroredQuiet ==
    ASSUME TypesFit, LedgerIsStanding,
           live' = live, state' \in States, ledger' = ledger, standing' = standing
    PROVE  Mirrored
  BY DEF TypesFit, LedgerIsStanding, Mirrored

(* An instance that is born or removed has an empty ledger and nothing standing. *)
LEMMA MirroredAnew ==
    ASSUME live' \in BOOLEAN, state' \in States, ledger' = << >>, standing' = Nothing
    PROVE  Mirrored
<1>1. ledger' \in Seq(Compensable) /\ standing' \in [Commands -> Int]
  BY DEF Nothing
<1>2. \A c \in Commands : standing'[c] = 0 /\ Count(ledger', {c}) = 0
  BY CountSmall DEF Nothing
<1>3. LedgerIsStanding'
  BY <1>2 DEF LedgerIsStanding
<1> QED BY <1>1, <1>3 DEF Mirrored

(* An accepted dispatch puts one entry on the ledger, another leaves it alone. *)
LEMMA DeliverMirrored ==
    ASSUME TypesFit, LedgerIsStanding, Deliver
    PROVE  Mirrored
<1> DEFINE t == Head(todo)
           c == Head(t.does)
<1>1. /\ live' = live /\ state' = state /\ live \in BOOLEAN /\ state \in States
      /\ ledger \in Seq(Compensable) /\ standing \in [Commands -> Int]
      /\ todo \in Seq(Task) /\ todo # << >> /\ t.op = "leg" /\ t.does # << >>
  BY DEF Deliver, Doing, TypesFit
<1>2. t \in Task
  BY <1>1, CountHead
<1>3. t.does \in Seq(Commands)
  BY <1>1, <1>2, TaskFields
<1>4. c \in Commands
  BY <1>1, <1>3
<1>5. \/ ledger' = ledger /\ standing' = standing
      \/ /\ Recorded(c) /\ ledger' = Append(ledger, c)
         /\ standing' = [standing EXCEPT ![c] = @ + 1]
  BY DEF Deliver, LedgerAfter
<1> HIDE DEF c, t
<1>6. CASE ledger' = ledger /\ standing' = standing
  BY <1>1, <1>6, MirroredQuiet
<1>7. CASE /\ Recorded(c) /\ ledger' = Append(ledger, c)
           /\ standing' = [standing EXCEPT ![c] = @ + 1]
  <2>1. c \in Compensable
    BY <1>4, <1>7 DEF Recorded, Compensable
  <2>2. ledger' \in Seq(Compensable)
    BY <1>1, <1>7, <2>1
  <2>3. standing' \in [Commands -> Int]
    BY <1>1, <1>4, <1>7
  <2>4. ASSUME NEW b \in Commands PROVE standing'[b] = Count(ledger', {b})
    <3>1. Count(Append(ledger, c), {b}) = Count(ledger, {b}) + (IF c \in {b} THEN 1 ELSE 0)
      BY <1>1, <2>1, CountAppend
    <3>2. PICK n \in Nat : n = Count(ledger, {b})
      BY <1>1, CountType
    <3>3. standing[b] = n /\ Count(ledger', {b}) = n + (IF c \in {b} THEN 1 ELSE 0)
      BY <1>7, <3>1, <3>2 DEF LedgerIsStanding
    <3>4. CASE b = c
      BY <1>1, <1>4, <1>7, <3>3, <3>4
    <3>5. CASE b # c
      BY <1>1, <1>4, <1>7, <3>3, <3>5
    <3> QED BY <3>4, <3>5
  <2>5. LedgerIsStanding'
    BY <2>4 DEF LedgerIsStanding
  <2> QED BY <1>1, <2>2, <2>3, <2>5 DEF Mirrored
<1> QED BY <1>5, <1>6, <1>7

(* A compensation takes its entry with it. *)
LEMMA UndoMirrored ==
    ASSUME TypesFit, LedgerIsStanding, Undo
    PROVE  Mirrored
<1> DEFINE l == Last(ledger)
<1>1. /\ live' = live /\ state' = state /\ live \in BOOLEAN /\ state \in States
      /\ ledger \in Seq(Compensable) /\ standing \in [Commands -> Int] /\ ledger # << >>
      /\ ledger' = Front(ledger) /\ standing' = [standing EXCEPT ![l] = @ - 1]
  BY DEF Undo, Draining, TakeEntry, TypesFit
<1>2. ledger' \in Seq(Compensable) /\ l \in Compensable
  BY <1>1, CountFront
<1>3. l \in Commands
  BY <1>2 DEF Compensable
<1> HIDE DEF l
<1>4. standing' \in [Commands -> Int]
  BY <1>1, <1>3
<1>5. ASSUME NEW b \in Commands PROVE standing'[b] = Count(ledger', {b})
  <2>1. Count(ledger, {b}) = Count(Front(ledger), {b}) + (IF Last(ledger) \in {b} THEN 1 ELSE 0)
    BY <1>1, CountFront
  <2>2. PICK n \in Nat : n = Count(ledger', {b})
    BY <1>2, CountType
  <2>3. standing[b] = n + (IF l \in {b} THEN 1 ELSE 0)
    BY <1>1, <2>1, <2>2 DEF LedgerIsStanding, l
  <2>4. CASE b = l
    BY <1>1, <1>3, <2>2, <2>3, <2>4
  <2>5. CASE b # l
    BY <1>1, <1>3, <2>2, <2>3, <2>5
  <2> QED BY <2>4, <2>5
<1>6. LedgerIsStanding'
  BY <1>5 DEF LedgerIsStanding
<1> QED BY <1>1, <1>2, <1>4, <1>6 DEF Mirrored

(* begin_saga starts a new ledger, and advance_saga leaves it alone. *)
LEMMA AdvanceMirrored ==
    ASSUME TypesFit, LedgerIsStanding, BeginAndAdvance
    PROVE  Mirrored
<1>1. /\ live \in BOOLEAN /\ state \in States /\ First \in States
      /\ \A h \in Handlers : h.to \in States
  BY KernelAssumption DEF TypesFit, HandlerType
<1>2. live' \in BOOLEAN
  BY DEF BeginAndAdvance
<1>3. state' \in States
  BY <1>1 DEF BeginAndAdvance, Legs
<1>4. \/ ledger' = << >> /\ standing' = Nothing
      \/ live' = live /\ ledger' = ledger /\ standing' = standing
  BY <1>1 DEF BeginAndAdvance
<1> QED BY <1>2, <1>3, <1>4, MirroredAnew, MirroredQuiet

(* compensate itself only moves the state. *)
LEMMA SettleMirrored ==
    ASSUME TypesFit, LedgerIsStanding, Settle
    PROVE  Mirrored
<1>1. state \in States /\ \A h \in Handlers : h.to \in States
  BY KernelAssumption DEF TypesFit, HandlerType
<1>2. state' \in States
  BY <1>1 DEF Settle, Legs
<1>3. live' = live /\ ledger' = ledger /\ standing' = standing
  BY DEF Settle
<1> QED BY <1>2, <1>3, MirroredQuiet

(* end_saga removes the instance with its ledger. *)
LEMMA EndMirrored ==
    ASSUME TypesFit, LedgerIsStanding, EndSaga
    PROVE  Mirrored
<1>1. CASE live' = FALSE /\ state' = First /\ ledger' = << >> /\ standing' = Nothing
  BY <1>1, MirroredAnew, KernelAssumption
<1>2. CASE UNCHANGED conversation
  BY <1>2, MirroredQuiet DEF conversation, TypesFit
<1> QED BY <1>1, <1>2 DEF EndSaga

-----------------------------------------------------------------------------
(* Every step keeps the invariant. *)
LEMMA CascadeStep ==
    ASSUME CascadeInv, [Next]_vars
    PROVE  CascadeInv'
<1>1. TypesFit /\ LedgerIsStanding /\ HandoverPending
  BY DEF CascadeInv
<1>2. Balanced /\ Mirrored => CascadeInv'
  BY DEF Balanced, Mirrored, CascadeInv, TypesFit
<1>3. UNCHANGED conversation => Mirrored
  BY <1>1, MirroredQuiet DEF conversation, TypesFit
<1>4. CASE RunAccepted \/ RunRefused
  BY <1>1, <1>2, <1>3, <1>4, RunBalanced DEF RunAccepted, RunRefused
<1>5. CASE React
  BY <1>1, <1>2, <1>3, <1>5, ReactBalanced DEF React
<1>6. CASE FollowPolicy
  BY <1>1, <1>2, <1>3, <1>6, PolicyBalanced DEF FollowPolicy
<1>7. CASE BeginAndAdvance
  BY <1>1, <1>2, <1>7, AdvanceBalanced, AdvanceMirrored
<1>8. CASE Deliver
  BY <1>1, <1>2, <1>8, DeliverBalanced, DeliverMirrored
<1>9. CASE Settle
  BY <1>1, <1>2, <1>9, SettleBalanced, SettleMirrored
<1>10. CASE Undo
  BY <1>1, <1>2, <1>10, UndoBalanced, UndoMirrored
<1>11. CASE Drained
  BY <1>1, <1>2, <1>3, <1>11, EndBalanced DEF Drained
<1>12. CASE EndSaga
  BY <1>1, <1>2, <1>12, EndBalanced, EndMirrored
<1>13. CASE \E c \in Entry : Call(c)
  BY <1>1, <1>2, <1>3, <1>13, CallBalanced DEF Call
<1>14. CASE UNCHANGED vars
  BY <1>1, <1>14 DEF vars, CascadeInv, TypesFit, LedgerIsStanding, HandoverPending
<1> QED BY <1>4, <1>5, <1>6, <1>7, <1>8, <1>9, <1>10, <1>11, <1>12, <1>13, <1>14 DEF Next, Step

(* It holds at first. *)
LEMMA CascadeStart == Init => CascadeInv
<1> SUFFICES ASSUME Init PROVE CascadeInv
  OBVIOUS
<1>1. \A A : Count(<< >>, A) = 0
  BY CountSmall
<1>2. TypesFit
  <2>1. << >> \in Seq(Task) /\ << >> \in Seq(Compensable)
    OBVIOUS
  <2>2. Nothing \in [Commands -> Int]
    BY DEF Nothing
  <2> QED BY <2>1, <2>2, KernelAssumption DEF Init, TypesFit
<1>3. LedgerIsStanding
  BY <1>1 DEF Init, LedgerIsStanding, Nothing
<1>4. HandoverPending
  BY <1>1 DEF Init, HandoverPending
<1> QED BY <1>2, <1>3, <1>4 DEF CascadeInv

(* The invariant holds throughout. *)
LEMMA CascadeHolds == Spec => []CascadeInv
  BY CascadeStart, CascadeStep, PTL DEF Spec

(* No compensation fires twice, nor for a dispatch that was refused: for every *)
(* process manager, whatever its legs dispatch and however refusals nest, the  *)
(* ledger compensate drains holds one entry per accepted compensable dispatch  *)
(* that has not been undone (deliver_saga_dispatch, compensate, end_saga).     *)
THEOREM CompensationsAreSingle == Spec => []CompensatedOnce
<1>1. CascadeInv => CompensatedOnce
  <2> SUFFICES ASSUME CascadeInv, NEW c \in Commands PROVE standing[c] >= 0
    BY DEF CompensatedOnce
  <2>1. Count(ledger, {c}) \in Nat
    BY CountType DEF CascadeInv, TypesFit
  <2>2. standing[c] = Count(ledger, {c})
    BY DEF CascadeInv, LedgerIsStanding
  <2> QED BY <2>1, <2>2
<1> QED BY <1>1, CascadeHolds, PTL

(* Every logged event a cross-domain policy answers is handed to the host once *)
(* by the time the cascade is over, whatever the ceiling, the policies, the    *)
(* fan-outs and the refusals around it (react_policies, run).                  *)
THEOREM HostHearsEveryEvent == Spec => []CrossHandedOver
<1>1. CascadeInv => CrossHandedOver
  <2> SUFFICES ASSUME CascadeInv, todo = << >> PROVE cross = logged
    BY DEF CrossHandedOver, AtRest
  <2>1. Count(todo, Crossing) = 0
    BY CountSmall
  <2>2. cross \in Nat /\ logged = cross + Count(todo, Crossing)
    BY DEF CascadeInv, TypesFit, HandoverPending
  <2> QED BY <2>1, <2>2
<1> QED BY <1>1, CascadeHolds, PTL
-----------------------------------------------------------------------------
(* The states a compensating leg leads to. *)
Reversed == {h.to : h \in {g \in Handlers : g.on = Refused}}

(* An event no policy answers and no leg, start or end is declared on, and a *)
(* command that emits only such events.                                      *)
QuietEvent(e) ==
    PoliciesOn[e] = << >> /\ e # StartsOn /\ e # EndsOn /\ \A h \in Handlers : h.on # e
QuietCommand(c) == \A i \in DOMAIN EmitsOf[c] : QuietEvent(EmitsOf[c][i])

(* What comes before a compensable dispatch sets nothing off. *)
CompensablesFirst(does) ==
    \A j \in DOMAIN does : does[j] \in Compensable =>
        \A i \in 1..(j - 1) : QuietCommand(does[i])

(* The process managers compensate's promise is kept for: only a refusal leads  *)
(* to a reversed state; what comes before a compensable dispatch in its leg     *)
(* sets nothing off; and a compensating leg dispatches nothing compensable.     *)
Reversible ==
    /\ \A h \in Handlers : h.on # Refused => h.to \notin Reversed
    /\ \A h \in Handlers : CompensablesFirst(h.does)
    /\ \A h \in Handlers : h.on = Refused => \A i \in DOMAIN h.does : h.does[i] \notin Compensable

(* A leg that has something compensable left to deliver. *)
Eager(t) == t.op = "leg" /\ \E i \in DOMAIN t.does : t.does[i] \in Compensable
QuietTask(t) == t.op \in {"event", "sagas", "end"} /\ QuietEvent(t.name)

NoneEager(s) == \A i \in DOMAIN s : ~Eager(s[i])
AllQuiet(s) == \A i \in DOMAIN s : QuietTask(s[i])
Layered(s) == \A i \in DOMAIN s : Eager(s[i]) => \A j \in 1..(i - 1) : QuietTask(s[j])
LegsFit(s) == \A i \in DOMAIN s : s[i].op = "leg" => CompensablesFirst(s[i].does)
HasDrain(s) == \E i \in DOMAIN s : s[i].op = "drain"

(* Nothing runs above a leg with a compensable dispatch left that could move  *)
(* the conversation, so that it is delivered in no reversed state; and in one *)
(* what stands on the ledger has a drain below it on the stack.               *)
ReversalInv ==
    /\ LegsFit(todo) /\ Layered(todo)
    /\ live /\ state \in Reversed => NoneEager(todo)
    /\ live /\ state \in Reversed => ledger = << >> \/ HasDrain(todo)

(* A sequence by its parts: what is above, what is below. *)
LEMMA TopAndRest ==
    ASSUME NEW s \in Seq(Task), s # << >>
    PROVE  \E n \in Nat : /\ n >= 1 /\ DOMAIN s = 1..n /\ s[1] = Head(s) /\ Head(s) \in Task
                          /\ Tail(s) \in Seq(Task) /\ DOMAIN Tail(s) = 1..(n - 1)
                          /\ \A i \in 1..(n - 1) : Tail(s)[i] = s[i + 1]
<1>1. PICK n \in Nat : n = Len(s)
  OBVIOUS
<1>2. n >= 1 /\ DOMAIN s = 1..n /\ s[1] = Head(s)
  BY <1>1
<1>3. Head(s) \in Task /\ Tail(s) \in Seq(Task)
  BY CountHead
<1>4. /\ Len(Tail(s)) = n - 1
      /\ \A i \in 1..Len(Tail(s)) : Tail(s)[i] = s[i + 1]
  BY <1>1, HeadTailProperties
<1>5. DOMAIN Tail(s) = 1..(n - 1)
  BY <1>3, <1>4
<1> QED BY <1>2, <1>3, <1>4, <1>5

(* What is known of a stack is known of what lies under its top; nothing but a *)
(* quiet frame lies over an eager leg.                                         *)
LEMMA UnderTop ==
    ASSUME NEW s \in Seq(Task), s # << >>, LegsFit(s), Layered(s)
    PROVE  /\ LegsFit(Tail(s)) /\ Layered(Tail(s))
           /\ Head(s).op = "leg" => CompensablesFirst(Head(s).does)
           /\ ~QuietTask(Head(s)) => NoneEager(Tail(s))
           /\ NoneEager(s) <=> ~Eager(Head(s)) /\ NoneEager(Tail(s))
           /\ HasDrain(s) <=> Head(s).op = "drain" \/ HasDrain(Tail(s))
<1>1. PICK n \in Nat : /\ n >= 1 /\ DOMAIN s = 1..n /\ s[1] = Head(s)
                       /\ DOMAIN Tail(s) = 1..(n - 1)
                       /\ \A i \in 1..(n - 1) : Tail(s)[i] = s[i + 1]
  BY TopAndRest
<1>2. 1 \in 1..n /\ \A i \in 1..(n - 1) : i + 1 \in 1..n /\ 1 \in 1..((i + 1) - 1)
  BY <1>1
<1>3. \A k \in 1..n : k = 1 \/ (k - 1 \in 1..(n - 1) /\ (k - 1) + 1 = k)
  BY <1>1
<1>4. \A k \in 1..n : s[k] = Head(s) \/ (k - 1 \in 1..(n - 1) /\ Tail(s)[k - 1] = s[k])
  BY <1>1, <1>3
<1>5. LegsFit(Tail(s)) /\ (Head(s).op = "leg" => CompensablesFirst(Head(s).does))
  BY <1>1, <1>2 DEF LegsFit
<1>6. Layered(Tail(s))
  <2> SUFFICES ASSUME NEW i \in 1..(n - 1), Eager(Tail(s)[i]), NEW j \in 1..(i - 1)
               PROVE  QuietTask(Tail(s)[j])
    BY <1>1 DEF Layered
  <2>1. i + 1 \in 1..n /\ j + 1 \in 1..((i + 1) - 1) /\ j \in 1..(n - 1)
    BY <1>1
  <2>2. QuietTask(s[j + 1])
    BY <1>1, <2>1 DEF Layered
  <2> QED BY <1>1, <2>1, <2>2
<1>7. ~QuietTask(Head(s)) => NoneEager(Tail(s))
  BY <1>1, <1>2 DEF Layered, NoneEager
<1>8. NoneEager(s) <=> ~Eager(Head(s)) /\ NoneEager(Tail(s))
  <2>1. NoneEager(s) => ~Eager(Head(s)) /\ NoneEager(Tail(s))
    BY <1>1, <1>2 DEF NoneEager
  <2>2. ~Eager(Head(s)) /\ NoneEager(Tail(s)) => NoneEager(s)
    BY <1>1, <1>4 DEF NoneEager
  <2> QED BY <2>1, <2>2
<1>9. HasDrain(s) <=> Head(s).op = "drain" \/ HasDrain(Tail(s))
  <2>1. HasDrain(s) => Head(s).op = "drain" \/ HasDrain(Tail(s))
    BY <1>1, <1>4 DEF HasDrain
  <2>2. Head(s).op = "drain" \/ HasDrain(Tail(s)) => HasDrain(s)
    BY <1>1, <1>2 DEF HasDrain
  <2> QED BY <2>1, <2>2
<1> QED BY <1>5, <1>6, <1>7, <1>8, <1>9

(* Frames put on top of a stack. *)
LEMMA OnTop ==
    ASSUME NEW u \in Seq(Task), NEW v \in Seq(Task)
    PROVE  /\ LegsFit(u) /\ LegsFit(v) => LegsFit(u \o v)
           /\ NoneEager(u) /\ NoneEager(v) => NoneEager(u \o v)
           /\ Layered(u) /\ NoneEager(v) => Layered(u \o v)
           /\ AllQuiet(u) /\ Layered(v) => Layered(u \o v)
           /\ HasDrain(u) \/ HasDrain(v) => HasDrain(u \o v)
           /\ AllQuiet(u) /\ AllQuiet(v) => AllQuiet(u \o v)
<1>1. PICK n \in Nat, m \in Nat : n = Len(u) /\ m = Len(v)
  OBVIOUS
<1>2. /\ DOMAIN u = 1..n /\ DOMAIN v = 1..m /\ DOMAIN (u \o v) = 1..(n + m)
      /\ \A i \in 1..n : (u \o v)[i] = u[i]
      /\ \A i \in (n + 1)..(n + m) : (u \o v)[i] = v[i - n]
  BY <1>1
<1>3. \A k \in 1..(n + m) : k \in 1..n \/ (k \in (n + 1)..(n + m) /\ k - n \in 1..m)
  OBVIOUS
<1>4. \A k \in 1..(n + m) : \/ k \in 1..n /\ (u \o v)[k] = u[k]
                            \/ k - n \in 1..m /\ (u \o v)[k] = v[k - n]
  BY <1>2, <1>3
<1>5. LegsFit(u) /\ LegsFit(v) => LegsFit(u \o v)
  BY <1>2, <1>4 DEF LegsFit
<1>6. NoneEager(u) /\ NoneEager(v) => NoneEager(u \o v)
  BY <1>2, <1>4 DEF NoneEager
<1>7. AllQuiet(u) /\ AllQuiet(v) => AllQuiet(u \o v)
  BY <1>2, <1>4 DEF AllQuiet
<1>8. HasDrain(u) \/ HasDrain(v) => HasDrain(u \o v)
  <2>1. \A i \in 1..n : i \in 1..(n + m)
    OBVIOUS
  <2>2. \A i \in 1..m : i + n \in 1..(n + m) /\ i + n \in (n + 1)..(n + m) /\ (i + n) - n = i
    OBVIOUS
  <2>3. HasDrain(u) => HasDrain(u \o v)
    BY <1>2, <2>1 DEF HasDrain
  <2>4. HasDrain(v) => HasDrain(u \o v)
    <3> SUFFICES ASSUME NEW i \in 1..m, v[i].op = "drain" PROVE HasDrain(u \o v)
      BY <1>2 DEF HasDrain
    <3>1. (u \o v)[i + n] = v[i]
      BY <1>2, <2>2
    <3> QED BY <1>2, <2>2, <3>1 DEF HasDrain
  <2> QED BY <2>3, <2>4
<1>9. Layered(u) /\ NoneEager(v) => Layered(u \o v)
  <2> SUFFICES ASSUME Layered(u), NoneEager(v),
                      NEW k \in 1..(n + m), Eager((u \o v)[k]), NEW j \in 1..(k - 1)
               PROVE  QuietTask((u \o v)[j])
    BY <1>2 DEF Layered
  <2>1. k \in 1..n /\ Eager(u[k])
    BY <1>2, <1>4 DEF NoneEager
  <2>2. j \in 1..n
    BY <2>1
  <2> QED BY <1>2, <2>1, <2>2 DEF Layered
<1>10. AllQuiet(u) /\ Layered(v) => Layered(u \o v)
  <2> SUFFICES ASSUME AllQuiet(u), Layered(v),
                      NEW k \in 1..(n + m), Eager((u \o v)[k]), NEW j \in 1..(k - 1)
               PROVE  QuietTask((u \o v)[j])
    BY <1>2 DEF Layered
  <2>1. CASE j \in 1..n
    BY <1>2, <2>1 DEF AllQuiet
  <2>2. CASE j \notin 1..n
    <3>1. k - n \in 1..m /\ j - n \in 1..((k - n) - 1) /\ j \in (n + 1)..(n + m)
          /\ k \in (n + 1)..(n + m)
      BY <2>2
    <3>2. Eager(v[k - n]) /\ (u \o v)[j] = v[j - n]
      BY <1>2, <3>1
    <3> QED BY <1>2, <3>1, <3>2 DEF Layered
  <2> QED BY <2>1, <2>2
<1> QED BY <1>5, <1>6, <1>7, <1>8, <1>9, <1>10

(* Short stacks. *)
LEMMA FewFrames ==
    ASSUME NEW g \in Task
    PROVE  /\ << >> \in Seq(Task) /\ LegsFit(<< >>) /\ NoneEager(<< >>) /\ AllQuiet(<< >>)
           /\ <<g>> \in Seq(Task) /\ Layered(<<g>>)
           /\ LegsFit(<<g>>) <=> (g.op = "leg" => CompensablesFirst(g.does))
           /\ NoneEager(<<g>>) <=> ~Eager(g)
           /\ AllQuiet(<<g>>) <=> QuietTask(g)
           /\ HasDrain(<<g>>) <=> g.op = "drain"
<1>1. DOMAIN << >> = {} /\ << >> \in Seq(Task)
  OBVIOUS
<1>2. <<g>> \in Seq(Task) /\ DOMAIN <<g>> = {1} /\ <<g>>[1] = g
  OBVIOUS
<1>3. Layered(<<g>>)
  <2>1. 1..(1 - 1) = {}
    OBVIOUS
  <2> QED BY <1>2, <2>1 DEF Layered
<1>4. LegsFit(<< >>) /\ NoneEager(<< >>) /\ AllQuiet(<< >>)
  BY <1>1 DEF LegsFit, NoneEager, AllQuiet
<1> QED BY <1>1, <1>2, <1>3, <1>4 DEF LegsFit, NoneEager, AllQuiet, HasDrain

(* A stack with no eager leg is layered. *)
LEMMA NoneIsLayered ==
    ASSUME NEW s, NoneEager(s) PROVE Layered(s)
  BY DEF NoneEager, Layered

(* A command's events are frames without legs, quiet for a quiet command. *)
LEMMA EmittedFrames ==
    ASSUME NEW c \in Commands, NEW d \in Nat, NEW k \in BOOLEAN
    PROVE  /\ Emitted(c, d, k) \in Seq(Task)
           /\ LegsFit(Emitted(c, d, k)) /\ NoneEager(Emitted(c, d, k))
           /\ QuietCommand(c) => AllQuiet(Emitted(c, d, k))
<1>1. Emitted(c, d, k) \in Seq(Task)
  BY EmittedCount
<1>2. DOMAIN Emitted(c, d, k) = DOMAIN EmitsOf[c]
      /\ \A i \in DOMAIN EmitsOf[c] : Emitted(c, d, k)[i].op = "event"
                                      /\ Emitted(c, d, k)[i].name = EmitsOf[c][i]
  BY DEF Emitted, EventTask
<1>3. LegsFit(Emitted(c, d, k)) /\ NoneEager(Emitted(c, d, k))
  BY <1>2 DEF LegsFit, NoneEager, Eager
<1>4. QuietCommand(c) => AllQuiet(Emitted(c, d, k))
  BY <1>2 DEF QuietCommand, AllQuiet, QuietTask
<1> QED BY <1>1, <1>3, <1>4

(* What is left of a leg after its first dispatch: if that is compensable still, *)
(* the first dispatch set nothing off.                                           *)
LEMMA RestOfLeg ==
    ASSUME NEW does \in Seq(Commands), does # << >>, CompensablesFirst(does)
    PROVE  /\ CompensablesFirst(Tail(does))
           /\ (\E i \in DOMAIN Tail(does) : Tail(does)[i] \in Compensable)
                => QuietCommand(Head(does)) /\ \E i \in DOMAIN does : does[i] \in Compensable
           /\ Head(does) \in Compensable => \E i \in DOMAIN does : does[i] \in Compensable
<1>1. PICK n \in Nat : n = Len(does)
  OBVIOUS
<1>2. n >= 1 /\ DOMAIN does = 1..n /\ does[1] = Head(does) /\ 1 \in 1..n
  BY <1>1
<1>3. /\ Len(Tail(does)) = n - 1 /\ Tail(does) \in Seq(Commands)
      /\ \A i \in 1..Len(Tail(does)) : Tail(does)[i] = does[i + 1]
  BY <1>1, HeadTailProperties
<1>4. DOMAIN Tail(does) = 1..(n - 1) /\ \A i \in 1..(n - 1) : Tail(does)[i] = does[i + 1]
  BY <1>3
<1>5. CompensablesFirst(Tail(does))
  <2> SUFFICES ASSUME NEW j \in 1..(n - 1), Tail(does)[j] \in Compensable, NEW i \in 1..(j - 1)
               PROVE  QuietCommand(Tail(does)[i])
    BY <1>4 DEF CompensablesFirst
  <2>1. j + 1 \in 1..n /\ i + 1 \in 1..((j + 1) - 1) /\ i \in 1..(n - 1)
    BY <1>2
  <2>2. QuietCommand(does[i + 1])
    BY <1>2, <1>4, <2>1 DEF CompensablesFirst
  <2> QED BY <1>4, <2>1, <2>2
<1>6. ASSUME NEW i \in 1..(n - 1), Tail(does)[i] \in Compensable
      PROVE  QuietCommand(Head(does)) /\ \E k \in DOMAIN does : does[k] \in Compensable
  <2>1. i + 1 \in 1..n /\ 1 \in 1..((i + 1) - 1) /\ does[i + 1] \in Compensable
    BY <1>2, <1>4, <1>6
  <2> QED BY <1>2, <2>1 DEF CompensablesFirst
<1> QED BY <1>2, <1>4, <1>5, <1>6

(* A step that leaves the conversation alone and puts frames that deliver       *)
(* nothing compensable in place of the top one, quiet ones for a quiet one.     *)
LEMMA ReversalQuiet ==
    ASSUME TypesFit, ReversalInv, todo # << >>, Head(todo).op # "drain",
           NEW u \in Seq(Task), todo' = u \o Tail(todo), LegsFit(u), NoneEager(u),
           QuietTask(Head(todo)) => AllQuiet(u),
           live' = live, state' = state, ledger' = ledger
    PROVE  ReversalInv'
<1>1. todo \in Seq(Task)
  BY DEF TypesFit
<1>2. PICK r \in Seq(Task) : r = Tail(todo)
  BY <1>1, CountHead
<1>3. /\ LegsFit(r) /\ Layered(r)
      /\ ~QuietTask(Head(todo)) => NoneEager(r)
      /\ NoneEager(todo) => NoneEager(r)
      /\ HasDrain(todo) => HasDrain(r)
  BY <1>1, <1>2, UnderTop DEF ReversalInv
<1>4. PICK w : w = u \o r
  OBVIOUS
<1>5. LegsFit(w) /\ Layered(w)
  BY <1>3, <1>4, OnTop, NoneIsLayered
<1>6. (NoneEager(todo) => NoneEager(w)) /\ (HasDrain(todo) => HasDrain(w))
  BY <1>3, <1>4, OnTop
<1>7. todo' = w
  BY <1>2, <1>4
<1> QED BY <1>5, <1>6, <1>7 DEF ReversalInv

(* A frame that is over, and leaves the conversation alone. *)
LEMMA ReversalPop ==
    ASSUME TypesFit, ReversalInv, todo # << >>, Head(todo).op # "drain", todo' = Tail(todo),
           live' = live, state' = state, ledger' = ledger
    PROVE  ReversalInv'
<1>1. todo \in Seq(Task)
  BY DEF TypesFit
<1>2. Head(todo) \in Task /\ Tail(todo) \in Seq(Task)
  BY <1>1, CountHead
<1>3. << >> \in Seq(Task) /\ LegsFit(<< >>) /\ NoneEager(<< >>) /\ AllQuiet(<< >>)
  BY <1>2, FewFrames
<1>4. todo' = << >> \o Tail(todo)
  BY <1>2, ConcatEmptySeq
<1> QED BY <1>3, <1>4, ReversalQuiet

(* A step taken by a frame that is not quiet finds no eager leg under it. *)
LEMMA ReversalOver ==
    ASSUME TypesFit, ReversalInv, todo # << >>, ~QuietTask(Head(todo)),
           NEW u \in Seq(Task), todo' = u \o Tail(todo), LegsFit(u), Layered(u),
           live' /\ state' \in Reversed => NoneEager(u),
           live' /\ state' \in Reversed => ledger' = << >> \/ HasDrain(u) \/ HasDrain(Tail(todo))
    PROVE  ReversalInv'
<1>1. todo \in Seq(Task)
  BY DEF TypesFit
<1>2. PICK r \in Seq(Task) : r = Tail(todo)
  BY <1>1, CountHead
<1>3. LegsFit(r) /\ NoneEager(r)
  BY <1>1, <1>2, UnderTop DEF ReversalInv
<1>4. PICK w : w = u \o r
  OBVIOUS
<1>5. LegsFit(w) /\ Layered(w) /\ (NoneEager(u) => NoneEager(w))
      /\ (HasDrain(u) \/ HasDrain(r) => HasDrain(w))
  BY <1>3, <1>4, OnTop
<1>6. todo' = w
  BY <1>2, <1>4
<1> QED BY <1>2, <1>5, <1>6 DEF ReversalInv

(* run: a command's events in its place. *)
LEMMA RunReversal ==
    ASSUME TypesFit, ReversalInv, RunAccepted \/ RunRefused
    PROVE  ReversalInv'
<1> DEFINE t == Head(todo)
<1>1. /\ todo # << >> /\ t.op = "run" /\ todo \in Seq(Task)
      /\ live' = live /\ state' = state /\ ledger' = ledger
  BY DEF RunAccepted, RunRefused, Doing, TypesFit, conversation
<1>2. t \in Task
  BY <1>1, CountHead
<1>3. t.cmd \in Commands /\ t.depth \in Nat
  BY <1>1, <1>2, TaskFields
<1>4. CASE RunAccepted
  <2>1. PICK e : e = Emitted(t.cmd, t.depth, FALSE)
    OBVIOUS
  <2>2. e \in Seq(Task) /\ LegsFit(e) /\ NoneEager(e)
    BY <1>3, <2>1, EmittedFrames
  <2>3. todo' = e \o Tail(todo)
    BY <1>4, <2>1 DEF RunAccepted
  <2>4. ~QuietTask(t)
    BY <1>1 DEF QuietTask
  <2> QED BY <1>1, <2>2, <2>3, <2>4, ReversalQuiet
<1>5. CASE RunRefused
  BY <1>1, <1>5, ReversalPop DEF RunRefused
<1> QED BY <1>4, <1>5

(* An event, its policies and its sagas. *)
LEMMA ReactReversal ==
    ASSUME TypesFit, ReversalInv, React
    PROVE  ReversalInv'
<1> DEFINE t == Head(todo)
           answering == PoliciesOn[t.name]
           ps == [i \in DOMAIN answering |-> PolicyTask(answering[i], t.depth)]
           sa == SagasTask(t.name, t.depth, t.known)
           en == EndTask(t.name, t.depth, t.known)
<1>1. /\ todo # << >> /\ t.op = "event" /\ todo \in Seq(Task)
      /\ live' = live /\ state' = state /\ ledger' = ledger
      /\ todo' = ps \o <<sa, en>> \o Tail(todo)
  BY DEF React, Doing, TypesFit, conversation
<1>2. t \in Task
  BY <1>1, CountHead
<1>3. t.name \in Events /\ t.known \in BOOLEAN /\ t.depth \in Nat
  BY <1>1, <1>2, TaskFields
<1>4. answering \in Seq(PolicyType)
  BY <1>3, KernelAssumption
<1>5. /\ ps \in Seq(Task) /\ LegsFit(ps) /\ NoneEager(ps)
      /\ QuietTask(t) => AllQuiet(ps)
  <2>1. PICK n \in Nat : n = Len(answering) /\ DOMAIN answering = 1..n
                         /\ \A i \in 1..n : answering[i] \in PolicyType
    BY <1>4
  <2>2. \A i \in 1..n : PolicyTask(answering[i], t.depth) \in Task /\ PolicyTask(answering[i], t.depth).op = "policy"
    BY <1>3, <2>1 DEF PolicyTask, Task
  <2>3. ps = [i \in 1..n |-> PolicyTask(answering[i], t.depth)]
    BY <2>1
  <2>4. ps \in Seq(Task) /\ \A i \in DOMAIN ps : ps[i].op = "policy"
    BY <2>1, <2>2, <2>3
  <2>5. LegsFit(ps) /\ NoneEager(ps)
    BY <2>4 DEF LegsFit, NoneEager, Eager
  <2>6. QuietTask(t) => DOMAIN ps = {}
    <3> SUFFICES ASSUME QuietTask(t) PROVE DOMAIN ps = {}
      OBVIOUS
    <3>1. answering = << >>
      BY DEF QuietTask, QuietEvent
    <3>2. DOMAIN answering = {}
      BY <3>1
    <3> QED BY <3>2
  <2>7. QuietTask(t) => AllQuiet(ps)
    BY <2>6 DEF AllQuiet
  <2> QED BY <2>4, <2>5, <2>7
<1>6. /\ sa \in Task /\ en \in Task /\ sa.op = "sagas" /\ en.op = "end"
      /\ sa.name = t.name /\ en.name = t.name
  BY <1>3 DEF SagasTask, EndTask, Task, NamedTask
<1> HIDE DEF ps, sa, en, t
<1>7. PICK p : p = <<sa, en>>
  OBVIOUS
<1>8. /\ p \in Seq(Task) /\ LegsFit(p) /\ NoneEager(p) /\ (QuietTask(t) => AllQuiet(p))
  <2>1. p \in Seq(Task) /\ DOMAIN p = {1, 2} /\ p[1] = sa /\ p[2] = en
    BY <1>6, <1>7
  <2>2. LegsFit(p) /\ NoneEager(p)
    BY <1>6, <2>1 DEF LegsFit, NoneEager, Eager
  <2>3. QuietTask(t) => AllQuiet(p)
    BY <1>6, <2>1 DEF AllQuiet, QuietTask
  <2> QED BY <2>1, <2>2, <2>3
<1>9. PICK u : u = ps \o p
  OBVIOUS
<1>10. u \in Seq(Task)
  BY <1>5, <1>8, <1>9
<1>11. LegsFit(u) /\ NoneEager(u) /\ (QuietTask(t) => AllQuiet(u))
  BY <1>5, <1>8, <1>9, OnTop
<1>12. todo' = u \o Tail(todo)
  BY <1>1, <1>7, <1>9
<1> QED BY <1>1, <1>10, <1>11, <1>12, ReversalQuiet DEF t

(* A policy's commands. *)
LEMMA PolicyReversal ==
    ASSUME TypesFit, ReversalInv, FollowPolicy
    PROVE  ReversalInv'
<1> DEFINE t == Head(todo)
           p == t.rule
           rt == RunTask(p.does, ReactionDepth(p.root, t.depth))
<1>1. /\ todo # << >> /\ t.op = "policy" /\ todo \in Seq(Task)
      /\ live' = live /\ state' = state /\ ledger' = ledger
  BY DEF FollowPolicy, Doing, TypesFit, conversation
<1>2. t \in Task
  BY <1>1, CountHead
<1>3. t.rule \in PolicyType /\ t.depth \in Nat
  BY <1>1, <1>2, TaskFields
<1>4. PICK n \in 0..MaxRows \cup {0, 1} : todo' = [i \in 1..n |-> rt] \o Tail(todo)
  <2>1. MaxRows \in Nat
    BY KernelAssumption
  <2> QED BY <2>1 DEF FollowPolicy
<1>5. n \in Nat
  BY <1>4, KernelAssumption
<1>6. rt \in Task /\ rt.op = "run"
  BY <1>3 DEF RunTask, ReactionDepth, Task, PolicyType
<1> HIDE DEF rt, t
<1>7. PICK u : u = [i \in 1..n |-> rt]
  OBVIOUS
<1>8. u \in Seq(Task) /\ \A i \in DOMAIN u : u[i].op = "run"
  BY <1>5, <1>6, <1>7
<1>9. LegsFit(u) /\ NoneEager(u)
  BY <1>8 DEF LegsFit, NoneEager, Eager
<1>10. ~QuietTask(t)
  BY <1>1 DEF QuietTask
<1>11. todo' = u \o Tail(todo)
  BY <1>4, <1>7
<1> QED BY <1>1, <1>8, <1>9, <1>10, <1>11, ReversalQuiet DEF t

(* advance_saga: a leg goes on the stack as the conversation moves, to no *)
(* reversed state; a new instance has nothing on its ledger.              *)
LEMMA AdvanceReversal ==
    ASSUME TypesFit, Reversible, ReversalInv, BeginAndAdvance
    PROVE  ReversalInv'
<1> DEFINE t == Head(todo)
           born == t.known /\ t.name = StartsOn /\ ~live
           from == IF born THEN First ELSE state
<1>1. /\ todo # << >> /\ t.op = "sagas" /\ todo \in Seq(Task) /\ live \in BOOLEAN
      /\ live' = (live \/ born) /\ ledger' = IF born THEN << >> ELSE ledger
  BY DEF BeginAndAdvance, Doing, TypesFit
<1>2. t \in Task /\ Tail(todo) \in Seq(Task)
  BY <1>1, CountHead
<1>3. t.name \in Events /\ t.known \in BOOLEAN /\ t.depth \in Nat
  BY <1>1, <1>2, TaskFields
<1>4. \/ state' = from /\ todo' = Tail(todo)
      \/ \E h \in Handlers : /\ h.on = t.name /\ state' = h.to
                             /\ todo' = <<LegTask(h.does, t.depth, FALSE, TRUE)>> \o Tail(todo)
  BY DEF BeginAndAdvance, Legs
<1>5. CASE state' = from /\ todo' = Tail(todo)
  <2>1. CASE ~born
    BY <1>1, <1>5, <2>1, ReversalPop
  <2>2. CASE born
    <3>1. ~QuietTask(t)
      BY <2>2 DEF QuietTask, QuietEvent
    <3>2. << >> \in Seq(Task) /\ LegsFit(<< >>) /\ NoneEager(<< >>) /\ Layered(<< >>)
      BY <1>2, FewFrames, NoneIsLayered
    <3>3. todo' = << >> \o Tail(todo)
      BY <1>2, <1>5, ConcatEmptySeq
    <3> QED BY <1>1, <2>2, <3>1, <3>2, <3>3, ReversalOver
  <2> QED BY <2>1, <2>2
<1>6. CASE \E h \in Handlers : /\ h.on = t.name /\ state' = h.to
                               /\ todo' = <<LegTask(h.does, t.depth, FALSE, TRUE)>> \o Tail(todo)
  <2>1. PICK h \in Handlers : /\ h.on = t.name /\ state' = h.to
                              /\ todo' = <<LegTask(h.does, t.depth, FALSE, TRUE)>> \o Tail(todo)
    BY <1>6
  <2>2. h.does \in Seq(Commands) /\ h.on # Refused
    BY <1>3, <2>1, KernelAssumption DEF HandlerType
  <2>3. PICK g : g = LegTask(h.does, t.depth, FALSE, TRUE)
    OBVIOUS
  <2>4. g \in Task /\ g.does = h.does /\ g.op = "leg"
    BY <1>3, <2>2, <2>3 DEF LegTask, Task
  <2>5. CompensablesFirst(h.does) /\ h.to \notin Reversed
    BY <2>2 DEF Reversible
  <2>6. <<g>> \in Seq(Task) /\ LegsFit(<<g>>) /\ Layered(<<g>>)
    BY <2>4, <2>5, FewFrames
  <2>7. ~QuietTask(t)
    BY <2>1 DEF QuietTask, QuietEvent
  <2>8. state' \notin Reversed
    BY <2>1, <2>5
  <2>9. PICK u \in Seq(Task) : u = <<g>>
    BY <2>6
  <2>10. todo' = u \o Tail(todo)
    BY <2>1, <2>3, <2>9
  <2> QED BY <1>1, <2>6, <2>7, <2>8, <2>9, <2>10, ReversalOver
<1> QED BY <1>4, <1>5, <1>6

(* deliver_saga_dispatch: a compensable dispatch is delivered in no reversed    *)
(* state, and as long as its leg has another left, its events set nothing off.  *)
LEMMA DeliverReversal ==
    ASSUME TypesFit, Reversible, ReversalInv, Deliver
    PROVE  ReversalInv'
<1> DEFINE t == Head(todo)
           c == Head(t.does)
           rest(r) == LegTask(Tail(t.does), t.depth, r, t.heeds)
<1>1. /\ todo # << >> /\ t.op = "leg" /\ t.does # << >> /\ todo \in Seq(Task)
      /\ live' = live /\ state' = state
      /\ ledger' # ledger => Recorded(c)
  BY DEF Deliver, Doing, TypesFit, LedgerAfter
<1>2. t \in Task /\ Tail(todo) \in Seq(Task)
  BY <1>1, CountHead
<1>3. /\ t.does \in Seq(Commands) /\ t.depth \in Nat /\ t.refused \in BOOLEAN /\ t.heeds \in BOOLEAN
  BY <1>1, <1>2, TaskFields
<1>4. c \in Commands /\ Tail(t.does) \in Seq(Commands)
  BY <1>1, <1>3
<1>5. NoneEager(todo) => ~Eager(t)
  BY <1>1, UnderTop DEF ReversalInv
<1>6. /\ CompensablesFirst(Tail(t.does))
      /\ (\E i \in DOMAIN Tail(t.does) : Tail(t.does)[i] \in Compensable) => QuietCommand(c) /\ Eager(t)
      /\ c \in Compensable => Eager(t)
  <2>1. CompensablesFirst(t.does)
    BY <1>1, UnderTop DEF ReversalInv
  <2> QED BY <1>1, <1>3, <2>1, RestOfLeg DEF Eager
<1>7. ~QuietTask(t)
  BY <1>1 DEF QuietTask
<1>8. \A r \in BOOLEAN : /\ rest(r) \in Task /\ rest(r).op = "leg" /\ rest(r).does = Tail(t.does)
                         /\ Eager(rest(r)) => QuietCommand(c) /\ Eager(t)
  <2> SUFFICES ASSUME NEW r \in BOOLEAN
               PROVE  /\ rest(r) \in Task /\ rest(r).op = "leg" /\ rest(r).does = Tail(t.does)
                      /\ Eager(rest(r)) => QuietCommand(c) /\ Eager(t)
    OBVIOUS
  <2>1. rest(r) \in Task
    BY <1>3, <1>4 DEF LegTask, Task
  <2>2. rest(r).op = "leg" /\ rest(r).does = Tail(t.does)
    BY DEF LegTask
  <2> QED BY <1>6, <2>1, <2>2 DEF Eager
<1>9. \/ \E r \in BOOLEAN : todo' = Emitted(c, t.depth + 1, TRUE) \o (<<rest(r)>> \o Tail(todo))
      \/ \E r \in BOOLEAN : todo' = <<rest(r)>> \o Tail(todo)
  <2>1. \A a : (t.refused \/ a = "refused") \in BOOLEAN
    OBVIOUS
  <2> QED BY <1>3, <2>1 DEF Deliver
<1>10. Eager(t) => ~(live /\ state \in Reversed)
  BY <1>5 DEF ReversalInv
<1>11. ledger' # ledger => Eager(t)
  BY <1>1, <1>4, <1>6 DEF Recorded, Compensable
<1>12. live' /\ state' \in Reversed => ledger' = << >> \/ HasDrain(Tail(todo))
  <2> SUFFICES ASSUME live', state' \in Reversed PROVE ledger' = << >> \/ HasDrain(Tail(todo))
    OBVIOUS
  <2>1. live /\ state \in Reversed
    BY <1>1
  <2>2. ledger' = ledger
    BY <1>10, <1>11, <2>1
  <2>3. ledger = << >> \/ HasDrain(todo)
    BY <2>1 DEF ReversalInv
  <2>4. HasDrain(todo) => HasDrain(Tail(todo))
    BY <1>1, UnderTop DEF ReversalInv
  <2> QED BY <2>2, <2>3, <2>4
<1> HIDE DEF rest, c, t
<1>13. ASSUME NEW r \in BOOLEAN, todo' = <<rest(r)>> \o Tail(todo)
       PROVE  ReversalInv'
  <2>1. PICK g \in Task : g = rest(r)
    BY <1>8
  <2>2. g.op = "leg" /\ g.does = Tail(t.does) /\ (Eager(g) => Eager(t))
    BY <1>8, <2>1
  <2>3. /\ <<g>> \in Seq(Task) /\ LegsFit(<<g>>) /\ Layered(<<g>>)
        /\ NoneEager(<<g>>) <=> ~Eager(g)
    BY <1>6, <2>2, FewFrames
  <2>4. PICK u \in Seq(Task) : u = <<g>>
    BY <2>3
  <2>5. live' /\ state' \in Reversed => NoneEager(u)
    BY <1>1, <1>10, <2>2, <2>3, <2>4
  <2>6. todo' = u \o Tail(todo)
    BY <1>13, <2>1, <2>4
  <2> QED BY <1>1, <1>7, <1>12, <2>3, <2>4, <2>5, <2>6, ReversalOver DEF t
<1>14. ASSUME NEW r \in BOOLEAN, todo' = Emitted(c, t.depth + 1, TRUE) \o (<<rest(r)>> \o Tail(todo))
       PROVE  ReversalInv'
  <2>1. PICK g \in Task : g = rest(r)
    BY <1>8
  <2>2. g.op = "leg" /\ g.does = Tail(t.does) /\ (Eager(g) => Eager(t) /\ QuietCommand(c))
    BY <1>8, <2>1
  <2>3. /\ <<g>> \in Seq(Task) /\ LegsFit(<<g>>) /\ Layered(<<g>>)
        /\ NoneEager(<<g>>) <=> ~Eager(g)
    BY <1>6, <2>2, FewFrames
  <2>4. PICK d \in Nat : d = t.depth + 1
    BY <1>3
  <2>5. PICK e : e = Emitted(c, d, TRUE)
    OBVIOUS
  <2>6. e \in Seq(Task) /\ LegsFit(e) /\ NoneEager(e) /\ (QuietCommand(c) => AllQuiet(e))
    BY <1>4, <2>5, EmittedFrames
  <2>7. PICK u : u = e \o <<g>>
    OBVIOUS
  <2>8. u \in Seq(Task)
    BY <2>3, <2>6, <2>7
  <2>9. LegsFit(u) /\ (~Eager(g) => NoneEager(u))
    BY <2>3, <2>6, <2>7, OnTop
  <2>10. Layered(u)
    <3>1. CASE Eager(g)
      BY <2>2, <2>3, <2>6, <2>7, <3>1, OnTop
    <3>2. CASE ~Eager(g)
      BY <2>9, <3>2, NoneIsLayered
    <3> QED BY <3>1, <3>2
  <2>11. live' /\ state' \in Reversed => NoneEager(u)
    BY <1>1, <1>10, <2>2, <2>9
  <2>12. e \o (<<g>> \o Tail(todo)) = (e \o <<g>>) \o Tail(todo)
    BY <1>2, <2>3, <2>6, ConcatAssociative
  <2>13. todo' = u \o Tail(todo)
    BY <1>14, <2>1, <2>4, <2>5, <2>7, <2>12
  <2> QED BY <1>1, <1>7, <1>12, <2>8, <2>9, <2>10, <2>11, <2>13, ReversalOver DEF t
<1> QED BY <1>9, <1>13, <1>14

(* compensate: the drain goes on the stack as the conversation is reversed. *)
LEMMA SettleReversal ==
    ASSUME TypesFit, Reversible, ReversalInv, Settle
    PROVE  ReversalInv'
<1> DEFINE t == Head(todo)
<1>1. /\ todo # << >> /\ t.op = "leg" /\ todo \in Seq(Task)
      /\ live' = live /\ ledger' = ledger
  BY DEF Settle, Doing, TypesFit
<1>2. t \in Task
  BY <1>1, CountHead
<1>3. t.depth \in Nat
  BY <1>1, <1>2, TaskFields
<1>4. \/ todo' = Tail(todo) /\ state' = state
      \/ \E h \in Handlers : /\ h.on = Refused
            /\ todo' = <<DrainTask(t.depth), LegTask(h.does, t.depth, FALSE, FALSE)>> \o Tail(todo)
  BY DEF Settle, Legs
<1>5. CASE todo' = Tail(todo) /\ state' = state
  BY <1>1, <1>5, ReversalPop
<1>6. CASE \E h \in Handlers : /\ h.on = Refused
            /\ todo' = <<DrainTask(t.depth), LegTask(h.does, t.depth, FALSE, FALSE)>> \o Tail(todo)
  <2>1. PICK h \in Handlers : /\ h.on = Refused
            /\ todo' = <<DrainTask(t.depth), LegTask(h.does, t.depth, FALSE, FALSE)>> \o Tail(todo)
    BY <1>6
  <2>2. h.does \in Seq(Commands)
    BY KernelAssumption DEF HandlerType
  <2>3. PICK d, g : d = DrainTask(t.depth) /\ g = LegTask(h.does, t.depth, FALSE, FALSE)
    OBVIOUS
  <2>4. d \in Task /\ g \in Task /\ d.op = "drain" /\ g.op = "leg" /\ g.does = h.does
    BY <1>3, <2>2, <2>3 DEF DrainTask, LegTask, Task
  <2>5. PICK u : u = <<d, g>>
    OBVIOUS
  <2>6. u \in Seq(Task) /\ DOMAIN u = {1, 2} /\ u[1] = d /\ u[2] = g
    BY <2>4, <2>5
  <2>7. ~Eager(d) /\ ~Eager(g) /\ CompensablesFirst(g.does)
    BY <2>1, <2>4 DEF Eager, Reversible
  <2>8. LegsFit(u) /\ NoneEager(u) /\ HasDrain(u)
    BY <2>4, <2>6, <2>7 DEF LegsFit, NoneEager, HasDrain
  <2>9. Layered(u)
    BY <2>8, NoneIsLayered
  <2>10. ~QuietTask(t)
    BY <1>1 DEF QuietTask
  <2>11. todo' = u \o Tail(todo)
    BY <2>1, <2>3, <2>5
  <2> QED BY <1>1, <2>6, <2>8, <2>9, <2>10, <2>11, ReversalOver
<1> QED BY <1>4, <1>5, <1>6

(* A compensation's events go above the drain, which stays. *)
LEMMA UndoReversal ==
    ASSUME TypesFit, ReversalInv, Undo
    PROVE  ReversalInv'
<1> DEFINE t == Head(todo)
           c == CompOf[Last(ledger)]
<1>1. /\ todo # << >> /\ t.op = "drain" /\ todo \in Seq(Task) /\ ledger \in Seq(Compensable)
      /\ ledger # << >>
  BY DEF Undo, Draining, Doing, TypesFit
<1>2. t \in Task
  BY <1>1, CountHead
<1>3. t.depth \in Nat
  BY <1>1, <1>2, TaskFields
<1>4. c \in Commands
  <2>1. Last(ledger) \in Compensable
    BY <1>1, CountFront
  <2> QED BY <2>1, KernelAssumption DEF Compensable
<1>5. todo' = Emitted(c, t.depth + 1, TRUE) \o todo \/ todo' = todo
  BY DEF Undo, StillToDrain
<1>6. ~QuietTask(t) /\ ~Eager(t)
  BY <1>1 DEF QuietTask, Eager
<1>7. LegsFit(todo) /\ NoneEager(todo) /\ HasDrain(todo)
  BY <1>1, <1>6, UnderTop DEF ReversalInv
<1> HIDE DEF c, t
<1>8. LegsFit(todo') /\ NoneEager(todo') /\ HasDrain(todo')
  <2>1. PICK d \in Nat : d = t.depth + 1
    BY <1>3
  <2>2. PICK e : e = Emitted(c, d, TRUE)
    OBVIOUS
  <2>3. e \in Seq(Task) /\ LegsFit(e) /\ NoneEager(e)
    BY <1>4, <2>2, EmittedFrames
  <2>4. LegsFit(e \o todo) /\ NoneEager(e \o todo) /\ HasDrain(e \o todo)
    BY <1>1, <1>7, <2>3, OnTop
  <2> QED BY <1>5, <1>7, <2>1, <2>2, <2>4
<1>9. Layered(todo')
  BY <1>8, NoneIsLayered
<1> QED BY <1>8, <1>9 DEF ReversalInv

(* A drain is over only once the ledger is empty, or the instance gone. *)
LEMMA DrainedReversal ==
    ASSUME TypesFit, ReversalInv, Drained
    PROVE  ReversalInv'
<1>1. /\ todo # << >> /\ Head(todo).op = "drain" /\ todo \in Seq(Task) /\ todo' = Tail(todo)
      /\ live' = live /\ state' = state /\ ledger' = ledger
      /\ ~live \/ ledger = << >>
  BY DEF Drained, Draining, Doing, TypesFit, conversation
<1>2. ~QuietTask(Head(todo))
  BY <1>1 DEF QuietTask
<1>3. Head(todo) \in Task /\ Tail(todo) \in Seq(Task)
  BY <1>1, CountHead
<1>4. << >> \in Seq(Task) /\ LegsFit(<< >>) /\ NoneEager(<< >>) /\ Layered(<< >>)
  BY <1>3, FewFrames, NoneIsLayered
<1>5. todo' = << >> \o Tail(todo)
  BY <1>1, <1>3, ConcatEmptySeq
<1> QED BY <1>1, <1>2, <1>4, <1>5, ReversalOver

(* end_saga: no instance, nothing to undo. *)
LEMMA EndReversal ==
    ASSUME TypesFit, ReversalInv, EndSaga
    PROVE  ReversalInv'
<1>1. /\ todo # << >> /\ Head(todo).op = "end" /\ todo \in Seq(Task) /\ todo' = Tail(todo)
      /\ \/ Head(todo).name = EndsOn /\ live' = FALSE
         \/ live' = live /\ state' = state /\ ledger' = ledger
  BY DEF EndSaga, Doing, TypesFit, conversation
<1>2. CASE live' = live /\ state' = state /\ ledger' = ledger
  BY <1>1, <1>2, ReversalPop
<1>3. CASE Head(todo).name = EndsOn /\ live' = FALSE
  <2>1. ~QuietTask(Head(todo))
    BY <1>3 DEF QuietTask, QuietEvent
  <2>2. Head(todo) \in Task /\ Tail(todo) \in Seq(Task)
    BY <1>1, CountHead
  <2>3. << >> \in Seq(Task) /\ LegsFit(<< >>) /\ NoneEager(<< >>) /\ Layered(<< >>)
    BY <2>2, FewFrames, NoneIsLayered
  <2>4. todo' = << >> \o Tail(todo)
    BY <1>1, <2>2, ConcatEmptySeq
  <2> QED BY <1>1, <1>3, <2>1, <2>3, <2>4, ReversalOver
<1> QED BY <1>1, <1>2, <1>3

(* orchestrate: a cascade starts where the one before it ended. *)
LEMMA CallReversal ==
    ASSUME TypesFit, ReversalInv, NEW c \in Entry, Call(c)
    PROVE  ReversalInv'
<1>1. /\ todo = << >> /\ todo' = <<RunTask(c, 0)>>
      /\ live' = live /\ state' = state /\ ledger' = ledger
  BY DEF Call, conversation
<1>2. c \in Commands
  BY KernelAssumption
<1>3. PICK g : g = RunTask(c, 0)
  OBVIOUS
<1>4. g \in Task /\ g.op = "run"
  BY <1>2, <1>3 DEF RunTask, Task
<1>5. ~Eager(g)
  BY <1>4 DEF Eager
<1>6. LegsFit(<<g>>) /\ NoneEager(<<g>>) /\ Layered(<<g>>)
  BY <1>4, <1>5, FewFrames
<1>7. ~HasDrain(todo)
  BY <1>1 DEF HasDrain
<1>8. LegsFit(todo') /\ NoneEager(todo') /\ Layered(todo')
  BY <1>1, <1>3, <1>6
<1> QED BY <1>1, <1>7, <1>8 DEF ReversalInv

(* Every step keeps the reversal's invariant. *)
LEMMA ReversalStep ==
    ASSUME Reversible, CascadeInv, ReversalInv, [Next]_vars
    PROVE  ReversalInv'
<1>1. TypesFit
  BY DEF CascadeInv
<1>2. CASE RunAccepted \/ RunRefused
  BY <1>1, <1>2, RunReversal
<1>3. CASE React
  BY <1>1, <1>3, ReactReversal
<1>4. CASE FollowPolicy
  BY <1>1, <1>4, PolicyReversal
<1>5. CASE BeginAndAdvance
  BY <1>1, <1>5, AdvanceReversal
<1>6. CASE Deliver
  BY <1>1, <1>6, DeliverReversal
<1>7. CASE Settle
  BY <1>1, <1>7, SettleReversal
<1>8. CASE Undo
  BY <1>1, <1>8, UndoReversal
<1>9. CASE Drained
  BY <1>1, <1>9, DrainedReversal
<1>10. CASE EndSaga
  BY <1>1, <1>10, EndReversal
<1>11. CASE \E c \in Entry : Call(c)
  BY <1>1, <1>11, CallReversal
<1>12. CASE UNCHANGED vars
  BY <1>12 DEF vars, ReversalInv
<1> QED BY <1>2, <1>3, <1>4, <1>5, <1>6, <1>7, <1>8, <1>9, <1>10, <1>11, <1>12 DEF Next, Step

(* compensate's promise: for every process manager in which only refusals lead *)
(* to a reversed state, what precedes a compensable dispatch in its leg sets   *)
(* nothing off and no compensating leg dispatches anything compensable, a      *)
(* conversation that a cascade leaves in a reversed state has every            *)
(* compensable dispatch it made undone or reported compensation_failed,        *)
(* however deep the refusal was nested and wherever the ceiling cut in         *)
(* (deliver_saga_dispatch, compensate, deliver_derived_compensation).          *)
THEOREM ReversalsAreComplete ==
    ASSUME Reversible PROVE Spec => []ReversedUndone
<1>1. Init => ReversalInv
  BY DEF Init, ReversalInv, LegsFit, Layered, NoneEager
<1>2. CascadeInv /\ ReversalInv /\ [Next]_vars => ReversalInv'
  BY ReversalStep
<1>3. CascadeInv /\ ReversalInv => ReversedUndone
  <2> SUFFICES ASSUME CascadeInv, ReversalInv, todo = << >>, live, state \in Reversed
               PROVE  standing = Nothing
    BY DEF ReversedUndone, AtRest, Reversed
  <2>1. ~HasDrain(todo)
    BY DEF HasDrain
  <2>2. ledger = << >>
    BY <2>1 DEF ReversalInv
  <2>3. \A c \in Commands : standing[c] = 0
    BY <2>2, CountSmall DEF CascadeInv, LedgerIsStanding
  <2>4. standing \in [Commands -> Int]
    BY DEF CascadeInv, TypesFit
  <2> QED BY <2>3, <2>4 DEF Nothing
<1> QED BY <1>1, <1>2, <1>3, CascadeHolds, PTL DEF Spec
=============================================================================
