---------------------------- MODULE SagaProofs -----------------------------
(***************************************************************************)
(* Proofs about Saga, for any process manager, any number of caller's      *)
(* commands, deaths and boots, and, where a theorem does not say           *)
(* otherwise, any number of threads.                                       *)
(***************************************************************************)
EXTENDS Saga, TLAPS

Steps == {"claim", "begin", "take", "end", "start", "record", "send", "sent", "settle",
          "unwind", "save", "drain", "compensate", "compensated", "rows", "sagas",
          "restore", "store"}
Triggers == Events \cup {None, Refused}
Held == States \cup {None}
MarkerType == [on: Events \cup {None}, from: States, ev: Nat, settled: Nat, attempting: BOOLEAN]
Compensations == {CompOf[c] : c \in Commands} \ {None}
EntryType == [cmd: Compensations, of: Triggers \X Nat \X Nat]
RowType == [there: BOOLEAN, state: Held, faulted: Held, ledger: Seq(EntryType), marker: MarkerType]
InstanceType == [state: Held, faulted: Held, ledger: Seq(EntryType), stalled: MarkerType]
CallType ==
    [k: {"adv", "leg", "boot", "resume"}, at: Steps, on: Triggers, ev: Nat, h: HandlerType,
     inst: Nat, i: Nat, tries: Nat, rec: BOOLEAN, entry: EntryType \cup {NoEntry},
     todo: SUBSET Nat, copy: RowType, then: Steps]

(* What a call refers to is there: m instances and n events. *)
Aimed(f) ==
    f.at \in {"record", "send", "sent"} \/ (f.at = "save" /\ f.then \in {"record", "send", "sent"})
Repaying(f) == f.at \in {"compensate", "compensated"}
Fits(f, m, n) ==
    /\ f.k = "adv" => f.ev \in 1..n
    /\ f.k = "leg" => /\ f.inst \in 1..m /\ f.ev \in 1..n /\ f.i >= 1
                      /\ Aimed(f) => f.i <= Len(f.h.does)
                      /\ ~Repaying(f) \/ f.entry \in EntryType
                      /\ f.at = "save" => f.then \notin {"compensate", "compensated"}
    /\ f.k = "boot" => f.todo \subseteq 1..n
    /\ f.k = "resume" => f.inst \in 1..m
    /\ f.copy.marker = NoMarker

MarkerFits(m, n) == m = NoMarker \/ m.ev \in 1..n

(* The types of the variables the proofs speak of. *)
Types ==
    /\ stack \in [Threads -> Seq(CallType)]
    /\ obj \in Seq(InstanceType) /\ cur \in 0..Len(obj)
    /\ disk \in RowType
    /\ occ \in Seq(Events) /\ owed \subseteq 1..Len(occ)
    /\ up \in BOOLEAN

(* Calls and markers name events and instances that are there. *)
References ==
    /\ \A t \in Threads : \A j \in DOMAIN stack[t] : Fits(stack[t][j], Len(obj), Len(occ))
    /\ MarkerFits(disk.marker, Len(occ))
    /\ \A j \in DOMAIN obj : MarkerFits(obj[j].stalled, Len(occ))

TypeInv == Types /\ References

(* A process that is down runs nothing. *)
Down == ~up => \A t \in Threads : stack[t] = << >>

----------------------------------------------------------------------------
(* Calls before and after a step. *)

Known(f) == \E u \in Threads : \E j \in DOMAIN stack[u] : stack[u][j] = f

(* The calls after the step are earlier ones or among F. *)
Calls(F) ==
    /\ stack' \in [Threads -> Seq(CallType)]
    /\ \A u \in Threads : \A j \in DOMAIN stack'[u] : stack'[u][j] \in F \/ Known(stack'[u][j])

(* Replacing the innermost call adds that call only. *)
LEMMA SetTopCalls ==
    ASSUME stack \in [Threads -> Seq(CallType)], NEW t \in Threads, stack[t] # << >>,
           NEW f \in CallType, SetTop(t, f)
    PROVE  Calls({f})
<1>1. PICK s \in Seq(CallType) : s = stack[t]
  OBVIOUS
<1>2. PICK r : r = [s EXCEPT ![Len(s)] = f]
  OBVIOUS
<1>3. r \in Seq(CallType) /\ \A j \in DOMAIN r : r[j] = f \/ (j \in DOMAIN s /\ r[j] = s[j])
  BY <1>1, <1>2
<1>4. stack' = [stack EXCEPT ![t] = r]
  BY <1>1, <1>2 DEF SetTop
<1> QED BY <1>1, <1>3, <1>4 DEF Calls, Known

(* A call from the innermost one adds the caller's new step and the callee. *)
LEMMA PushCalls ==
    ASSUME stack \in [Threads -> Seq(CallType)], NEW t \in Threads, stack[t] # << >>,
           NEW f \in CallType, NEW g \in CallType, SetTopAndPush(t, f, g)
    PROVE  Calls({f, g})
<1>1. PICK s \in Seq(CallType) : s = stack[t]
  OBVIOUS
<1>2. PICK r : r = [s EXCEPT ![Len(s)] = f]
  OBVIOUS
<1>3. r \in Seq(CallType) /\ \A j \in DOMAIN r : r[j] = f \/ (j \in DOMAIN s /\ r[j] = s[j])
  BY <1>1, <1>2
<1>4. PICK q : q = Append(r, g)
  OBVIOUS
<1>5. q \in Seq(CallType) /\ \A j \in DOMAIN q : q[j] = g \/ (j \in DOMAIN r /\ q[j] = r[j])
  BY <1>3, <1>4
<1>6. stack' = [stack EXCEPT ![t] = q]
  BY <1>1, <1>2, <1>4 DEF SetTopAndPush
<1> QED BY <1>1, <1>3, <1>5, <1>6 DEF Calls, Known

(* A return adds no call. *)
LEMMA PopCalls ==
    ASSUME stack \in [Threads -> Seq(CallType)], NEW t \in Threads, stack[t] # << >>, Pop(t)
    PROVE  Calls({})
<1>1. PICK s \in Seq(CallType) : s = stack[t]
  OBVIOUS
<1>2. PICK r : r = SubSeq(s, 1, Len(s) - 1)
  OBVIOUS
<1>3. r \in Seq(CallType) /\ \A j \in DOMAIN r : j \in DOMAIN s /\ r[j] = s[j]
  BY <1>1, <1>2
<1>4. stack' = [stack EXCEPT ![t] = r]
  BY <1>1, <1>2 DEF Pop
<1> QED BY <1>1, <1>3, <1>4 DEF Calls, Known

(* A raise that leaves every call from the n-th on adds no call. *)
LEMMA LeaveCalls ==
    ASSUME stack \in [Threads -> Seq(CallType)], NEW t \in Threads, NEW n \in Relays(t),
           stack' = [stack EXCEPT ![t] = SubSeq(@, 1, n - 1)]
    PROVE  Calls({})
<1>1. PICK s \in Seq(CallType) : s = stack[t]
  OBVIOUS
<1>2. n \in 1..Len(s)
  BY <1>1 DEF Relays, Depth
<1>3. PICK r : r = SubSeq(s, 1, n - 1)
  OBVIOUS
<1>4. r \in Seq(CallType) /\ \A j \in DOMAIN r : j \in DOMAIN s /\ r[j] = s[j]
  BY <1>1, <1>2, <1>3
<1>5. stack' = [stack EXCEPT ![t] = r]
  BY <1>1, <1>3
<1> QED BY <1>1, <1>4, <1>5 DEF Calls, Known

(* The innermost call is one. *)
LEMMA TopKnown ==
    ASSUME TypeInv, NEW t \in Threads, stack[t] # << >>
    PROVE  Top(t) \in CallType /\ Known(Top(t)) /\ Fits(Top(t), Len(obj), Len(occ))
<1>1. stack[t] \in Seq(CallType)
  BY DEF TypeInv, Types
<1>2. Len(stack[t]) \in DOMAIN stack[t]
  BY <1>1
<1> QED BY <1>1, <1>2 DEF Top, Depth, Known, TypeInv, References

----------------------------------------------------------------------------
(* What the helpers build. *)
LEMMA MarkerTypes ==
    ASSUME TypeInv, NEW f \in CallType, f.ev \in 1..Len(occ), NEW n \in Nat, NEW b \in BOOLEAN
    PROVE  MarkerOf(f, n, b) \in MarkerType /\ MarkerFits(MarkerOf(f, n, b), Len(occ))
<1>1. occ[f.ev] \in Events
  BY DEF TypeInv, Types
<1>2. f.h.from \in States
  BY DEF CallType, HandlerType
<1> QED BY <1>1, <1>2 DEF MarkerOf, MarkerType, MarkerFits, CallType

(* The empty marker, row and handler are well typed. *)
LEMMA NothingTypes == NoMarker \in MarkerType /\ NoRow \in RowType /\ NoHandler \in HandlerType
BY SagaAssumption DEF NoMarker, MarkerType, NoRow, RowType, NoHandler, HandlerType, Held

(* A checkpoint of an instance is a well-typed row with the marker given. *)
LEMMA RowTypes ==
    ASSUME NEW o \in InstanceType, NEW m \in MarkerType
    PROVE  RowOf(o, m) \in RowType /\ RowOf(o, m).marker = m
BY DEF RowOf, RowType, InstanceType

(* An instance rehydrated from well-typed parts is well typed. *)
LEMMA InstanceTypes ==
    ASSUME NEW s \in Held, NEW f \in Held, NEW l \in Seq(EntryType), NEW m \in MarkerType
    PROVE  Instance(s, f, l, m) \in InstanceType
BY DEF Instance, InstanceType

(* Leg#take keeps an instance well typed and its stalled marker. *)
LEMMA MovedTypes ==
    ASSUME NEW o \in InstanceType, NEW h \in Handlers
    PROVE  Moved(o, h) \in InstanceType /\ Moved(o, h).stalled = o.stalled
BY SagaAssumption DEF Moved, InstanceType, HandlerType, Held

(* Popping the ledger keeps an instance well typed and its stalled marker. *)
LEMMA PoppedTypes ==
    ASSUME NEW o \in InstanceType
    PROVE  Popped(o) \in InstanceType /\ Popped(o).stalled = o.stalled
<1>1. PICK l \in Seq(EntryType) : l = o.ledger
  BY DEF InstanceType
<1>2. PICK q : q = SubSeq(l, 1, Len(l) - 1)
  OBVIOUS
<1>3. l # << >> => q \in Seq(EntryType)
  BY <1>1, <1>2
<1> QED BY <1>1, <1>2, <1>3 DEF Popped, InstanceType

(* A fresh call is well typed. *)
LEMMA CallTypes ==
    ASSUME NEW k \in {"adv", "leg", "boot", "resume"}, NEW at \in Steps, NEW on \in Triggers, NEW ev \in Nat,
           NEW h \in HandlerType, NEW inst \in Nat, NEW i \in Nat
    PROVE  Call(k, at, on, ev, h, inst, i) \in CallType
BY NothingTypes DEF Call, CallType

(* An advance on an event that was emitted fits. *)
LEMMA AdvTypes ==
    ASSUME NEW ev \in Nat
    PROVE  /\ Adv(ev) \in CallType
           /\ \A m, n \in Nat : ev \in 1..n => Fits(Adv(ev), m, n)
<1>1. Adv(ev) \in CallType
  BY CallTypes, NothingTypes DEF Adv, Steps, Triggers
<1> QED BY <1>1 DEF Adv, Call, Fits, NoRow

(* A leg of a declared handler on a known event and instance fits. *)
LEMMA LegTypes ==
    ASSUME NEW on \in Triggers, NEW ev \in Nat, NEW h \in Handlers, NEW inst \in Nat, NEW i \in Nat
    PROVE  /\ Leg(on, ev, h, inst, i) \in CallType
           /\ Leg(on, ev, h, inst, i).ev = ev /\ Leg(on, ev, h, inst, i).h = h
           /\ \A m, n \in Nat : ev \in 1..n /\ inst \in 1..m => Fits(Leg(on, ev, h, inst, i), m, n)
<1>1. h \in HandlerType
  BY SagaAssumption
<1>2. Leg(on, ev, h, inst, i) \in CallType
  BY <1>1, CallTypes DEF Leg, Steps
<1>3. PICK at \in {"drain", "start"} : at = IF on = Refused /\ i = 0 THEN "drain" ELSE "start"
  OBVIOUS
<1>4. Leg(on, ev, h, inst, i) = Call("leg", at, on, ev, h, inst, IF i = 0 THEN 1 ELSE i)
  BY <1>3 DEF Leg
<1>5. PICK f : f = Leg(on, ev, h, inst, i)
  OBVIOUS
<1>6. /\ f.k = "leg" /\ f.inst = inst /\ f.ev = ev /\ f.h = h /\ f.i >= 1 /\ f.at = at
      /\ f.copy.marker = NoMarker
  BY <1>4, <1>5 DEF Call, NoRow
<1>7. ~Aimed(f) /\ ~Repaying(f) /\ f.at # "save"
  BY <1>3, <1>6 DEF Aimed, Repaying
<1> QED BY <1>2, <1>5, <1>6, <1>7 DEF Fits

(* A boot that redrives emitted events fits. *)
LEMMA BootTypes ==
    ASSUME NEW n \in Nat, NEW R \in SUBSET (1..n)
    PROVE  BootCall(R) \in CallType /\ \A m \in Nat : Fits(BootCall(R), m, n)
<1>1. Call("boot", "rows", None, 0, NoHandler, 0, 0) \in CallType
  BY CallTypes, NothingTypes DEF Steps, Triggers
<1>2. PICK f : f = BootCall(R)
  OBVIOUS
<1>3. f \in CallType
  BY <1>1, <1>2 DEF BootCall, CallType
<1>4. f.k = "boot" /\ f.todo = R /\ f.copy.marker = NoMarker
  BY <1>2 DEF BootCall, Call, NoRow
<1> QED BY <1>2, <1>3, <1>4 DEF Fits

(* References that are there stay there, as long as no instance or event goes. *)
LEMMA ReferencesKept ==
    ASSUME TypeInv, NEW F, Calls(F), obj' \in Seq(InstanceType), occ' \in Seq(Events),
           Len(obj') >= Len(obj), Len(occ') >= Len(occ),
           \A f \in F : Fits(f, Len(obj'), Len(occ')),
           MarkerFits(disk'.marker, Len(occ')),
           \A j \in DOMAIN obj' : MarkerFits(obj'[j].stalled, Len(occ'))
    PROVE  References'
<1>1. /\ Len(obj) \in Nat /\ Len(occ) \in Nat /\ Len(obj') \in Nat /\ Len(occ') \in Nat
  BY DEF TypeInv, Types
<1>2. \A f : Fits(f, Len(obj), Len(occ)) => Fits(f, Len(obj'), Len(occ'))
  BY <1>1 DEF Fits
<1>3. \A f : Known(f) => Fits(f, Len(obj'), Len(occ'))
  BY <1>2 DEF Known, TypeInv, References
<1> QED BY <1>3 DEF References, Calls

----------------------------------------------------------------------------
(* The calls each step leaves. *)
LEMMA ClaimCalls ==
    ASSUME TypeInv, NEW t \in Threads, ClaimEvent(t)
    PROVE  Calls({Goto(t, "begin")})
<1>1. stack[t] # << >>
  BY DEF ClaimEvent, At
<1>2. Goto(t, "begin") \in CallType
  BY <1>1, TopKnown DEF Goto, CallType, Steps
<1>3. Calls({Goto(t, "begin")}) \/ Calls({})
  BY <1>1, <1>2, SetTopCalls, PopCalls DEF ClaimEvent, TypeInv, Types
<1> QED BY <1>3 DEF Calls

(* instantiate_saga? moves the advance on and adds no other call. *)
LEMMA BeginCalls ==
    ASSUME TypeInv, NEW t \in Threads, BeginSaga(t)
    PROVE  Calls({Goto(t, "take")})
<1>1. stack[t] # << >>
  BY DEF BeginSaga, At
<1>2. Goto(t, "take") \in CallType
  BY <1>1, TopKnown DEF Goto, CallType, Steps
<1> QED BY <1>1, <1>2, SetTopCalls DEF BeginSaga, TypeInv, Types

(* A leg is taken by the instance in ev's state. *)
TakesLeg(t, h) ==
    LET ev == Top(t).ev  leg == Leg(h.on, ev, h, cur, 0) IN
    /\ cur \in DOMAIN obj /\ h \in Handlers /\ h.on = occ[ev] /\ h.from = obj[cur].state
    /\ obj' = [obj EXCEPT ![cur] = Moved(@, h)]
    /\ disk' = RowOf(obj'[cur], MarkerOf(leg, 0, FALSE))
    /\ taken' = taken \cup {[on |-> h.on, ev |-> ev, h |-> h]}
    /\ leg \in CallType /\ Calls({Goto(t, "end"), leg})

(* leg_taken? either finds no leg, or takes one declared for the state and event. *)
LEMMA AdvanceCalls ==
    ASSUME TypeInv, NEW t \in Threads, AdvanceSaga(t)
    PROVE  \/ Calls({Goto(t, "end")}) /\ UNCHANGED <<obj, disk, taken>>
           \/ \E h \in Handlers : TakesLeg(t, h)
<1>1. stack[t] # << >>
  BY DEF AdvanceSaga, At
<1>2. Goto(t, "end") \in CallType /\ Top(t).ev \in Nat
  BY <1>1, TopKnown DEF Goto, CallType, Steps
<1>3. CASE SetTop(t, Goto(t, "end")) /\ UNCHANGED <<obj, disk, taken>>
  BY <1>1, <1>2, <1>3, SetTopCalls DEF TypeInv, Types
<1>4. ASSUME NEW h \in IF cur = 0 THEN {} ELSE HandlerFor(occ[Top(t).ev], obj[cur].state),
             obj' = [obj EXCEPT ![cur] = Moved(@, h)],
             disk' = RowOf(obj'[cur], MarkerOf(Leg(h.on, Top(t).ev, h, cur, 0), 0, FALSE)),
             taken' = taken \cup {[on |-> h.on, ev |-> Top(t).ev, h |-> h]},
             SetTopAndPush(t, Goto(t, "end"), Leg(h.on, Top(t).ev, h, cur, 0))
      PROVE  TakesLeg(t, h) /\ h \in Handlers
  <2>1. cur # 0 /\ h \in Handlers /\ h.on = occ[Top(t).ev] /\ h.from = obj[cur].state
    BY <1>4 DEF HandlerFor
  <2>2. cur \in DOMAIN obj /\ cur \in Nat
    BY <2>1 DEF TypeInv, Types
  <2>3. h.on \in Triggers
    BY <2>1, SagaAssumption DEF HandlerType, Triggers
  <2>4. Leg(h.on, Top(t).ev, h, cur, 0) \in CallType
    BY <1>2, <2>1, <2>2, <2>3, LegTypes
  <2>5. Calls({Goto(t, "end"), Leg(h.on, Top(t).ev, h, cur, 0)})
    BY <1>1, <1>2, <1>4, <2>4, PushCalls DEF TypeInv, Types
  <2> QED BY <1>4, <2>1, <2>2, <2>4, <2>5 DEF TakesLeg
<1> QED BY <1>3, <1>4 DEF AdvanceSaga

(* forget_saga? returns from the advance. *)
LEMMA EndCalls ==
    ASSUME TypeInv, NEW t \in Threads, EndSaga(t)
    PROVE  Calls({})
BY PopCalls DEF EndSaga, At, TypeInv, Types

(* record_progress before a dispatch sends it on, or unwinds at the depth ceiling. *)
LEMMA StartCalls ==
    ASSUME TypeInv, NEW t \in Threads, StartDispatch(t)
    PROVE  Calls({Goto(t, "unwind"), Goto(t, "record")})
<1>1. stack[t] # << >>
  BY DEF StartDispatch, At
<1>2. Goto(t, "unwind") \in CallType /\ Goto(t, "record") \in CallType
  BY <1>1, TopKnown DEF Goto, CallType, Steps
<1>3. Calls({Goto(t, "unwind")}) \/ Calls({Goto(t, "record")})
  BY <1>1, <1>2, SetTopCalls DEF StartDispatch, TypeInv, Types
<1> QED BY <1>3 DEF Calls

(* A raise in the arguments leaves calls, and adds none. *)
LEMMA RaisedCalls ==
    ASSUME TypeInv, NEW t \in Threads, StartRaised(t)
    PROVE  Calls({})
BY LeaveCalls DEF StartRaised, TypeInv, Types

(* A checkpoint of a copy goes on to the step it was made for. *)
LEMMA SaveCalls ==
    ASSUME TypeInv, NEW t \in Threads, SaveCopy(t)
    PROVE  Calls({[Top(t) EXCEPT !.at = Top(t).then, !.copy = NoRow, !.then = "start"]})
<1>1. stack[t] # << >>
  BY DEF SaveCopy, At
<1>2. [Top(t) EXCEPT !.at = Top(t).then, !.copy = NoRow, !.then = "start"] \in CallType
  <2>1. PICK f \in CallType, n \in Steps : f = Top(t) /\ n = Top(t).then
    BY <1>1, TopKnown DEF CallType
  <2>2. [f EXCEPT !.at = n, !.copy = NoRow, !.then = "start"] \in CallType
    BY NothingTypes DEF CallType, Steps
  <2> QED BY <2>1, <2>2
<1> QED BY <1>1, <1>2, SetTopCalls DEF SaveCopy, TypeInv, Types

(* A call about to write a copy of its instance. *)
Saving(o, f, next) == [f EXCEPT !.at = "save", !.copy = RowOf(o, NoMarker), !.then = next]

(* A call about to write a copy is well typed. *)
LEMMA SavingTypes ==
    ASSUME NEW o \in InstanceType, NEW f \in CallType, NEW next \in Steps
    PROVE  Saving(o, f, next) \in CallType
BY NothingTypes, RowTypes DEF Saving, CallType, Steps

(* Making a copy adds only the call that will write it. *)
LEMMA CopyCalls ==
    ASSUME TypeInv, NEW t \in Threads, stack[t] # << >>, NEW o \in InstanceType,
           NEW f \in CallType, NEW next \in Steps, CopyThen(t, o, f, next)
    PROVE  Calls({Saving(o, f, next)})
<1>1. SetTop(t, Saving(o, f, next))
  BY DEF CopyThen, Saving
<1> QED BY <1>1, SavingTypes, SetTopCalls DEF TypeInv, Types

(* A compensation is put on the ledger of f's instance, and copied. *)
EntryOf(f) == [cmd |-> CompOf[CommandAt(f)], of |-> <<f.on, f.ev, f.i>>]
Recorded(o, e) == [o EXCEPT !.ledger = Append(@, e)]
Records(t) ==
    LET f == Top(t) IN
    /\ CompOf[CommandAt(f)] # None /\ f.inst \in DOMAIN obj
    /\ Recorded(obj[f.inst], EntryOf(f)) \in InstanceType
    /\ obj' = [obj EXCEPT ![f.inst] = Recorded(obj[f.inst], EntryOf(f))]
    /\ Calls({Saving(obj'[f.inst], [f EXCEPT !.rec = TRUE], "send")})

(* record_compensation goes straight to the send, or adds a ledger entry. *)
LEMMA RecordCalls ==
    ASSUME TypeInv, NEW t \in Threads, RecordCompensation(t)
    PROVE  \/ Calls({Goto(t, "send")}) /\ UNCHANGED obj
           \/ Records(t)
<1> DEFINE f == Top(t)
<1>1. /\ stack[t] # << >> /\ f.k = "leg" /\ f.at = "record"
      /\ \/ SetTop(t, Goto(t, "send")) /\ UNCHANGED obj
         \/ /\ CompOf[CommandAt(f)] # None
            /\ obj' = [obj EXCEPT ![f.inst].ledger = Append(@, EntryOf(f))]
            /\ CopyThen(t, obj'[f.inst], [f EXCEPT !.rec = TRUE], "send")
  BY DEF RecordCompensation, At, EntryOf
<1>2. Goto(t, "send") \in CallType /\ f \in CallType /\ [f EXCEPT !.rec = TRUE] \in CallType
  BY <1>1, TopKnown DEF Goto, CallType, Steps
<1>3. Fits(f, Len(obj), Len(occ))
  BY <1>1, TopKnown
<1>4. f.inst \in DOMAIN obj /\ f.i \in DOMAIN f.h.does /\ obj \in Seq(InstanceType)
  <2>1. f.inst \in 1..Len(obj) /\ f.i >= 1 /\ f.i <= Len(f.h.does)
    BY <1>1, <1>3 DEF Fits, Aimed
  <2>2. f.h.does \in Seq(Commands) /\ f.i \in Nat
    BY <1>2 DEF CallType, HandlerType
  <2>3. obj \in Seq(InstanceType)
    BY DEF TypeInv, Types
  <2> HIDE DEF f
  <2> QED BY <2>1, <2>2, <2>3
<1>5. CommandAt(f) \in Commands
  BY <1>2, <1>4 DEF CommandAt, CallType, HandlerType
<1>6. CompOf[CommandAt(f)] # None => EntryOf(f) \in EntryType
  <2>1. CompOf[CommandAt(f)] # None => CompOf[CommandAt(f)] \in Compensations
    BY <1>5 DEF Compensations
  <2> QED BY <1>2, <2>1 DEF EntryOf, EntryType, CallType
<1>7. CASE SetTop(t, Goto(t, "send")) /\ UNCHANGED obj
  BY <1>1, <1>2, <1>7, SetTopCalls DEF TypeInv, Types
<1>8. CASE /\ CompOf[CommandAt(f)] # None
           /\ obj' = [obj EXCEPT ![f.inst].ledger = Append(@, EntryOf(f))]
           /\ CopyThen(t, obj'[f.inst], [f EXCEPT !.rec = TRUE], "send")
  <2>1. PICK e \in EntryType : e = EntryOf(f)
    BY <1>6, <1>8
  <2>2. PICK o \in InstanceType : o = obj[f.inst]
    BY <1>4
  <2>3. Recorded(o, e) \in InstanceType
    BY DEF Recorded, InstanceType
  <2>4. obj' = [obj EXCEPT ![f.inst] = Recorded(obj[f.inst], e)] /\ obj'[f.inst] = Recorded(o, e)
    BY <1>4, <1>8, <2>1, <2>2 DEF Recorded
  <2>5. Calls({Saving(obj'[f.inst], [f EXCEPT !.rec = TRUE], "send")})
    BY <1>1, <1>2, <1>8, <2>3, <2>4, CopyCalls DEF Steps
  <2> QED BY <1>4, <1>8, <2>1, <2>2, <2>3, <2>4, <2>5 DEF Records
<1> QED BY <1>1, <1>7, <1>8

(* The newest entry comes off the ledger of g's instance, and the rest is copied. *)
Unrecords(t, g, next) ==
    /\ g.inst \in DOMAIN obj
    /\ obj' = [obj EXCEPT ![g.inst] = Popped(obj[g.inst])]
    /\ Calls({Saving(obj'[g.inst], [g EXCEPT !.rec = FALSE], next)})

(* A failed dispatch goes on, or takes an entry off the ledger first. *)
LEMMA FailCalls ==
    ASSUME TypeInv, NEW t \in Threads, stack[t] # << >>, NEW g \in CallType, g.inst \in DOMAIN obj,
           NEW next \in Steps, FailDispatch(t, g, next)
    PROVE  \/ ~g.rec /\ Calls({[g EXCEPT !.at = next]}) /\ UNCHANGED obj
           \/ g.rec /\ Unrecords(t, g, next)
<1>1. [g EXCEPT !.at = next] \in CallType /\ [g EXCEPT !.rec = FALSE] \in CallType
  BY DEF CallType
<1>2. CASE ~g.rec
  BY <1>1, <1>2, SetTopCalls DEF FailDispatch, TypeInv, Types
<1>3. CASE g.rec
  <2>1. obj \in Seq(InstanceType)
    BY DEF TypeInv, Types
  <2>2. obj' = [obj EXCEPT ![g.inst] = Popped(obj[g.inst])]
    BY <1>3 DEF FailDispatch
  <2>3. obj'[g.inst] \in InstanceType
    BY <2>1, <2>2, PoppedTypes
  <2>4. CopyThen(t, obj'[g.inst], [g EXCEPT !.rec = FALSE], next)
    BY <1>3 DEF FailDispatch
  <2>5. Calls({Saving(obj'[g.inst], [g EXCEPT !.rec = FALSE], next)})
    BY <1>1, <2>3, <2>4, CopyCalls
  <2> QED BY <1>3, <2>2, <2>5 DEF Unrecords
<1> QED BY <1>2, <1>3 DEF CallType

(* A running leg's instance and event. *)
LEMMA LegTop ==
    ASSUME TypeInv, NEW t \in Threads, stack[t] # << >>, Top(t).k = "leg"
    PROVE  /\ Top(t) \in CallType /\ Top(t).inst \in DOMAIN obj /\ Top(t).inst \in Nat
           /\ obj \in Seq(InstanceType) /\ obj[Top(t).inst] \in InstanceType
           /\ Top(t).ev \in 1..Len(occ) /\ Top(t).ev \in Nat /\ Top(t).i \in Nat /\ Top(t).i >= 1
<1>1. Top(t) \in CallType /\ Fits(Top(t), Len(obj), Len(occ))
  BY TopKnown
<1>2. Top(t).inst \in 1..Len(obj) /\ Top(t).ev \in 1..Len(occ) /\ Top(t).i >= 1
  BY <1>1 DEF Fits
<1>3. obj \in Seq(InstanceType)
  BY DEF TypeInv, Types
<1>4. Top(t).inst \in Nat /\ Top(t).ev \in Nat /\ Top(t).i \in Nat
  BY <1>1 DEF CallType
<1> QED BY <1>1, <1>2, <1>3, <1>4

(* A leg at its send names a declared command. *)
LEMMA SendCommand ==
    ASSUME TypeInv, NEW t \in Threads, At(t, "leg", "send")
    PROVE  /\ stack[t] # << >> /\ Top(t).i \in DOMAIN Top(t).h.does
           /\ CommandAt(Top(t)) \in Commands
<1>1. stack[t] # << >> /\ Top(t).k = "leg" /\ Top(t).at = "send"
  BY DEF At
<1>2. Top(t) \in CallType /\ Fits(Top(t), Len(obj), Len(occ))
  BY <1>1, TopKnown
<1>3. Top(t).i >= 1 /\ Top(t).i <= Len(Top(t).h.does)
  BY <1>1, <1>2 DEF Fits, Aimed
<1>4. Top(t).h.does \in Seq(Commands) /\ Top(t).i \in Nat
  BY <1>2 DEF CallType, HandlerType
<1>5. Top(t).i \in DOMAIN Top(t).h.does
  BY <1>3, <1>4
<1> QED BY <1>1, <1>4, <1>5 DEF CommandAt

(* A commit adds its event, if the command has one, and owes its row. *)
Emitted(e) == occ' = Append(occ, e) /\ owed' = owed \cup {NextOcc}
Committed == UNCHANGED <<occ, owed>> \/ \E e \in Events : Emitted(e)

(* A command's commit adds an event of the system. *)
LEMMA EmitsCommitted == ASSUME NEW c \in Commands, Emits(c) PROVE Committed
BY SagaAssumption DEF Emits, Committed, Emitted

(* A command that commits adds its event and the call that reacts to it. *)
Reacts(done, reacting) ==
    \/ Calls({done}) /\ UNCHANGED <<occ, owed>>
    \/ Calls({reacting, Adv(NextOcc)}) /\ \E e \in Events : Emitted(e)

(* A commit goes on, or calls the advance on the event it emitted. *)
LEMMA EmitCalls ==
    ASSUME TypeInv, NEW t \in Threads, stack[t] # << >>, NEW c \in Commands,
           NEW done \in CallType, NEW reacting \in CallType, Emits(c),
           ReactTo(t, c, done, reacting)
    PROVE  Reacts(done, reacting)
<1>1. stack \in [Threads -> Seq(CallType)]
  BY DEF TypeInv, Types
<1>3. CASE EmitsOf[c] = None
  BY <1>1, <1>3, SetTopCalls DEF Reacts, Emits, ReactTo
<1>4. CASE EmitsOf[c] # None
  <2>1. EmitsOf[c] \in Events
    BY <1>4, SagaAssumption
  <2>2. Emitted(EmitsOf[c])
    BY <1>4 DEF Emits, Emitted
  <2>3. NextOcc \in Nat
    BY DEF NextOcc, TypeInv, Types
  <2>4. Calls({reacting, Adv(NextOcc)})
    BY <1>1, <1>4, <2>3, AdvTypes, PushCalls DEF ReactTo
  <2> QED BY <2>1, <2>2, <2>4 DEF Reacts
<1> QED BY <1>3, <1>4

(* A delivered dispatch emits its event, if it has one, and reacts to it. *)
LEMMA DeliveredCalls ==
    ASSUME TypeInv, NEW t \in Threads, SendDelivered(t)
    PROVE  /\ Goto(t, "settle") \in CallType /\ Goto(t, "sent") \in CallType
           /\ Reacts(Goto(t, "settle"), Goto(t, "sent"))
<1>1. stack[t] # << >> /\ CommandAt(Top(t)) \in Commands
  BY SendCommand DEF SendDelivered
<1>2. Goto(t, "settle") \in CallType /\ Goto(t, "sent") \in CallType
  BY <1>1, TopKnown DEF Goto, CallType, Steps
<1> QED BY <1>1, <1>2, EmitCalls DEF SendDelivered, Commits

(* A dispatch answered as applied settles. *)
LEMMA SkippedCalls ==
    ASSUME TypeInv, NEW t \in Threads, SendSkipped(t)
    PROVE  Calls({Goto(t, "settle")})
<1>1. stack[t] # << >>
  BY DEF SendSkipped, At
<1>2. Goto(t, "settle") \in CallType
  BY <1>1, TopKnown DEF Goto, CallType, Steps
<1> QED BY <1>1, <1>2, SetTopCalls DEF SendSkipped, TypeInv, Types

(* A dispatch that failed goes on at one of next. *)
Tried(t, n) == [Top(t) EXCEPT !.tries = n]
Fails(t, n, next) ==
    \/ ~Top(t).rec /\ Calls({[Tried(t, n) EXCEPT !.at = next]}) /\ UNCHANGED obj
    \/ Top(t).rec /\ Unrecords(t, Tried(t, n), next)

(* A refused or raising dispatch, or one whose answer is lost, is tried again *)
(* or unwound.                                                                *)
LEMMA FailedCalls ==
    ASSUME TypeInv, NEW t \in Threads, SendRefused(t) \/ SendRaised(t) \/ SendLost(t)
    PROVE  \E n \in Nat, next \in {"record", "unwind"} : Fails(t, n, next)
<1>1. stack[t] # << >> /\ Top(t).k = "leg"
  BY DEF SendRefused, SendRaised, SendLost, At
<1>2. Top(t) \in CallType /\ Top(t).inst \in DOMAIN obj
  BY <1>1, LegTop
<1>3. /\ Top(t).tries \in Nat /\ Top(t).tries + 1 \in Nat
      /\ \A n \in Nat : Tried(t, n) \in CallType /\ Tried(t, n).inst = Top(t).inst
                        /\ Tried(t, n).rec = Top(t).rec
  BY <1>2 DEF Tried, CallType
<1>4. Tried(t, Top(t).tries) = Top(t)
  BY <1>2 DEF Tried, CallType
<1>5. CASE SendRefused(t)
  <2>1. FailDispatch(t, Tried(t, Top(t).tries), "unwind")
    BY <1>4, <1>5 DEF SendRefused
  <2> QED BY <1>1, <1>2, <1>3, <2>1, FailCalls DEF Fails, Steps
<1>6. CASE SendRaised(t) \/ SendLost(t)
  <2>1. PICK next \in {"record", "unwind"} : FailDispatch(t, Tried(t, Top(t).tries + 1), next)
    BY <1>6 DEF SendRaised, SendLost, TryAgain, Tried
  <2> QED BY <1>1, <1>2, <1>3, <2>1, FailCalls DEF Fails, Steps
<1> QED BY <1>5, <1>6

(* The compensating leg is taken by f's instance. *)
Reverses(t, h) ==
    LET f == Top(t)  leg == Leg(Refused, f.ev, h, f.inst, 0) IN
    /\ f.inst \in DOMAIN obj /\ h \in Handlers /\ h.on = Refused /\ h.from = obj[f.inst].state
    /\ obj' = [obj EXCEPT ![f.inst] = Moved(@, h)]
    /\ disk' = RowOf(obj'[f.inst], MarkerOf(leg, 0, FALSE))
    /\ taken' = taken \cup {[on |-> Refused, ev |-> f.ev, h |-> h]}
    /\ leg \in CallType /\ Calls({Goto(t, "settle"), leg})

(* unwind settles, or takes the leg declared for the refusal. *)
LEMMA UnwindCalls ==
    ASSUME TypeInv, NEW t \in Threads, Unwind(t)
    PROVE  \/ Calls({Goto(t, "settle")}) /\ UNCHANGED <<obj, disk, taken>>
           \/ \E h \in Handlers : Reverses(t, h)
<1>1. stack[t] # << >> /\ Top(t).k = "leg"
  BY DEF Unwind, At
<1>2. Goto(t, "settle") \in CallType /\ Top(t).ev \in Nat /\ Top(t).inst \in Nat
      /\ Top(t).inst \in DOMAIN obj
  <2>1. Top(t) \in CallType
    BY <1>1, LegTop
  <2> QED BY <1>1, <2>1, LegTop DEF Goto, CallType, Steps
<1>3. CASE SetTop(t, Goto(t, "settle")) /\ UNCHANGED <<obj, disk, taken>>
  BY <1>1, <1>2, <1>3, SetTopCalls DEF TypeInv, Types
<1>4. ASSUME NEW h \in HandlerFor(Refused, obj[Top(t).inst].state),
             obj' = [obj EXCEPT ![Top(t).inst] = Moved(@, h)],
             disk' = RowOf(obj'[Top(t).inst],
                           MarkerOf(Leg(Refused, Top(t).ev, h, Top(t).inst, 0), 0, FALSE)),
             taken' = taken \cup {[on |-> Refused, ev |-> Top(t).ev, h |-> h]},
             SetTopAndPush(t, Goto(t, "settle"), Leg(Refused, Top(t).ev, h, Top(t).inst, 0))
      PROVE  Reverses(t, h) /\ h \in Handlers
  <2>1. h \in Handlers /\ h.on = Refused /\ h.from = obj[Top(t).inst].state
    BY <1>4 DEF HandlerFor
  <2>4. Leg(Refused, Top(t).ev, h, Top(t).inst, 0) \in CallType
    BY <1>2, <2>1, LegTypes DEF Triggers
  <2>5. Calls({Goto(t, "settle"), Leg(Refused, Top(t).ev, h, Top(t).inst, 0)})
    BY <1>1, <1>2, <1>4, <2>4, PushCalls DEF TypeInv, Types
  <2> QED BY <1>2, <1>4, <2>1, <2>4, <2>5 DEF Reverses
<1> QED BY <1>3, <1>4 DEF Unwind

SettledCall(t) == [Goto(t, "start") EXCEPT !.i = @ + 1, !.tries = 0, !.rec = FALSE]

(* record_progress after a dispatch goes on to the next one. *)
LEMMA SettleCalls ==
    ASSUME TypeInv, NEW t \in Threads, SettleDispatch(t)
    PROVE  Calls({SettledCall(t)})
<1>1. stack[t] # << >>
  BY DEF SettleDispatch, At
<1>2. Top(t) \in CallType /\ Top(t).i + 1 \in Nat
  BY <1>1, TopKnown DEF CallType
<1>3. SettledCall(t) = [Top(t) EXCEPT !.at = "start", !.i = Top(t).i + 1, !.tries = 0, !.rec = FALSE]
  BY <1>2 DEF SettledCall, Goto, CallType
<1>4. SettledCall(t) \in CallType
  <2>1. PICK f \in CallType, n \in Nat : f = Top(t) /\ n = Top(t).i + 1
    BY <1>2
  <2>2. [f EXCEPT !.at = "start", !.i = n] \in CallType
    BY DEF CallType, Steps
  <2>3. \A g \in CallType : [g EXCEPT !.tries = 0, !.rec = FALSE] \in CallType
    BY DEF CallType
  <2>4. SettledCall(t) = [[f EXCEPT !.at = "start", !.i = n] EXCEPT !.tries = 0, !.rec = FALSE]
    BY <1>3, <2>1 DEF CallType
  <2> QED BY <2>2, <2>3, <2>4
<1> QED BY <1>1, <1>4, SetTopCalls DEF SettleDispatch, SettledCall, TypeInv, Types

(* A settled leg returns. *)
LEMMA FinishCalls ==
    ASSUME TypeInv, NEW t \in Threads, FinishLeg(t)
    PROVE  Calls({})
BY PopCalls DEF FinishLeg, At, TypeInv, Types

(* The call that goes on to the next entry, and the one that delivers one. *)
LEMMA EntryCalls ==
    ASSUME NEW f \in CallType, NEW e \in EntryType \cup {NoEntry}, NEW n \in Nat
    PROVE  /\ NextEntry(f) \in CallType
           /\ [f EXCEPT !.at = "compensate", !.entry = e, !.tries = n] \in CallType
BY DEF NextEntry, CallType, Steps

(* An emptied ledger is copied, to be written. *)
LEMMA DrainedCalls ==
    ASSUME TypeInv, NEW t \in Threads, DrainDone(t)
    PROVE  /\ stack[t] # << >> /\ Top(t).k = "leg" /\ NextEntry(Top(t)) \in CallType
           /\ Calls({Saving(obj[Top(t).inst], NextEntry(Top(t)), "start")})
<1>1. stack[t] # << >> /\ Top(t).k = "leg"
  BY DEF DrainDone, Draining, At
<1>2. NextEntry(Top(t)) \in CallType /\ obj[Top(t).inst] \in InstanceType
  BY <1>1, LegTop, EntryCalls
<1> QED BY <1>1, <1>2, CopyCalls DEF DrainDone, Steps

(* The newest entry comes off the ledger in memory, to be delivered. *)
Pops(t) ==
    LET f == Top(t)  e == Newest(obj[f.inst]) IN
    /\ f.inst \in DOMAIN obj /\ obj[f.inst].ledger # << >> /\ e \in EntryType
    /\ obj' = [obj EXCEPT ![f.inst] = Popped(obj[f.inst])]
    /\ [f EXCEPT !.at = "compensate", !.entry = e, !.tries = 0] \in CallType
    /\ Calls({[f EXCEPT !.at = "compensate", !.entry = e, !.tries = 0]})

(* A drain takes the newest entry of a ledger that has one. *)
LEMMA DrainPops ==
    ASSUME TypeInv, NEW t \in Threads, Drain(t)
    PROVE  stack[t] # << >> /\ Top(t).k = "leg" /\ Pops(t)
<1>1. stack[t] # << >> /\ Top(t).k = "leg"
  BY DEF Drain, Draining, At
<1>2. Top(t).inst \in DOMAIN obj /\ obj[Top(t).inst] \in InstanceType /\ Top(t) \in CallType
  BY <1>1, LegTop
<1>3. PICK l \in Seq(EntryType) : l = obj[Top(t).inst].ledger
  BY <1>2 DEF InstanceType
<1>4. l # << >>
  BY <1>3 DEF Drain
<1>5. PICK e \in EntryType : e = Newest(obj[Top(t).inst])
  BY <1>3, <1>4 DEF Newest
<1>6. [Top(t) EXCEPT !.at = "compensate", !.entry = e, !.tries = 0] \in CallType
  BY <1>2, EntryCalls
<1>7. SetTop(t, [Top(t) EXCEPT !.at = "compensate", !.entry = e, !.tries = 0])
  BY <1>5 DEF Drain
<1>8. Calls({[Top(t) EXCEPT !.at = "compensate", !.entry = e, !.tries = 0]})
  BY <1>1, <1>6, <1>7, SetTopCalls DEF TypeInv, Types
<1> QED BY <1>1, <1>2, <1>3, <1>4, <1>5, <1>6, <1>8 DEF Drain, Pops

(* A leg that delivers a compensation holds its entry. *)
LEMMA Repays ==
    ASSUME TypeInv, NEW t \in Threads, stack[t] # << >>, Top(t).k = "leg", Repaying(Top(t))
    PROVE  /\ Top(t) \in CallType /\ Top(t).entry \in EntryType
           /\ Top(t).entry.cmd \in Commands
           /\ NextEntry(Top(t)) \in CallType /\ Goto(t, "compensated") \in CallType
<1>1. Top(t) \in CallType /\ Fits(Top(t), Len(obj), Len(occ))
  BY TopKnown
<1>2. Top(t).entry \in EntryType
  BY <1>1 DEF Fits
<1>3. Top(t).entry.cmd \in Commands
  BY <1>2, SagaAssumption DEF EntryType, Compensations
<1> QED BY <1>1, <1>2, <1>3 DEF NextEntry, Goto, CallType, Steps

(* A delivered compensation emits its event, if it has one, and reacts to it. *)
LEMMA CompensateCalls ==
    ASSUME TypeInv, NEW t \in Threads, Compensate(t)
    PROVE  Reacts(NextEntry(Top(t)), Goto(t, "compensated"))
<1>1. stack[t] # << >> /\ Top(t).k = "leg" /\ Repaying(Top(t))
  BY DEF Compensate, At, Repaying
<1> QED BY <1>1, Repays, EmitCalls DEF Compensate, Undo

(* A failed compensation is tried again, or left. *)
Again(t) == [Top(t) EXCEPT !.at = "compensate", !.tries = @ + 1]

(* It goes on with the same entry, or with the next. *)
LEMMA UncompensatedCalls ==
    ASSUME TypeInv, NEW t \in Threads,
           CompensationFails(t) \/ CompensationRaised(t) \/ CompensateLost(t)
    PROVE  /\ stack[t] # << >> /\ Top(t).k = "leg" /\ Repaying(Top(t))
           /\ NextEntry(Top(t)) \in CallType /\ Again(t) \in CallType
           /\ Calls({NextEntry(Top(t)), Again(t)})
<1>1. stack[t] # << >> /\ Top(t).k = "leg" /\ Repaying(Top(t))
  BY DEF CompensationFails, CompensationRaised, CompensateLost, At, Repaying
<1>2. NextEntry(Top(t)) \in CallType /\ Again(t) \in CallType
  <2>1. PICK f \in CallType : f = Top(t)
    BY <1>1, Repays
  <2>2. PICK n \in Nat : n = f.tries + 1
    BY DEF CallType
  <2>3. [f EXCEPT !.at = "compensate", !.tries = n] \in CallType
    BY DEF CallType, Steps
  <2> QED BY <1>1, <2>1, <2>2, <2>3, Repays DEF Again
<1>3. SetTop(t, NextEntry(Top(t))) \/ SetTop(t, Again(t))
  BY DEF CompensationFails, CompensationRaised, CompensateLost, CompensateAgain, Again
<1>4. Calls({NextEntry(Top(t))}) \/ Calls({Again(t)})
  BY <1>1, <1>2, <1>3, SetTopCalls DEF TypeInv, Types
<1> QED BY <1>1, <1>2, <1>4 DEF Calls

(* redrive_outbox! goes on to the sagas, or advances on one owed event. *)
LEMMA RowCalls ==
    ASSUME TypeInv, NEW t \in Threads, BootRow(t)
    PROVE  \/ Top(t).todo = {} /\ Calls({Goto(t, "sagas")})
           \/ \E ev \in Top(t).todo :
                 ev \in 1..Len(occ) /\ Calls({[Top(t) EXCEPT !.todo = @ \ {ev}], Adv(ev)})
<1>1. stack[t] # << >> /\ Top(t).k = "boot"
  BY DEF BootRow, At
<1>2. Top(t) \in CallType /\ Fits(Top(t), Len(obj), Len(occ))
  BY <1>1, TopKnown
<1>3. Goto(t, "sagas") \in CallType
  BY <1>2 DEF Goto, CallType, Steps
<1>4. ASSUME NEW ev \in Top(t).todo
      PROVE  /\ ev \in 1..Len(occ) /\ Adv(ev) \in CallType
             /\ [Top(t) EXCEPT !.todo = @ \ {ev}] \in CallType
  <2>1. ev \in 1..Len(occ) /\ ev \in Nat
    BY <1>1, <1>2 DEF Fits, CallType
  <2> QED BY <1>2, <2>1, AdvTypes DEF CallType
<1> QED BY <1>1, <1>3, <1>4, SetTopCalls, PushCalls DEF BootRow, TypeInv, Types

(* A cut leg goes on, at the dispatch after the last settled. *)
Resumes(t, h) ==
    LET m == obj[cur].stalled  f == Leg(m.on, m.ev, h, cur, m.settled + 1) IN
    /\ h \in Handlers /\ h.on = m.on /\ h.from = m.from /\ h.to = obj[cur].state
    /\ f \in CallType /\ Calls({f})
    /\ ~(m.attempting /\ m.settled < Len(h.does) /\ ~Redeliverable(h.does[m.settled + 1]))
    /\ UNCHANGED <<disk, reported>>
Reports(t) ==
    LET m == obj[cur].stalled IN
    /\ Calls({}) /\ reported' = reported \cup {m.ev}
    /\ \/ UNCHANGED disk
       \/ \E h \in Handlers :
             /\ h.on = m.on /\ h.from = m.from /\ h.to = obj[cur].state
             /\ Leg(m.on, m.ev, h, cur, m.settled + 1) \in CallType
             /\ disk' = RowOf(obj'[cur], MarkerOf(Leg(m.on, m.ev, h, cur, m.settled + 1),
                                                  m.settled, TRUE))

(* redrive_sagas! returns, reports the cut leg, or resumes it. *)
LEMMA RedriveCalls ==
    ASSUME TypeInv, NEW t \in Threads, RedriveSaga(t)
    PROVE  \/ /\ cur = 0 \/ obj[cur].stalled = NoMarker
              /\ Calls({}) /\ UNCHANGED <<obj, disk, reported>>
           \/ /\ cur \in DOMAIN obj /\ obj[cur].stalled # NoMarker
              /\ obj[cur].stalled.ev \in 1..Len(occ)
              /\ obj' = [obj EXCEPT ![cur].stalled = NoMarker]
              /\ Reports(t) \/ \E h \in Handlers : Resumes(t, h)
<1>1. stack[t] # << >>
  BY DEF RedriveSaga, At
<1>2. CASE cur = 0 \/ obj[cur].stalled = NoMarker
  BY <1>1, <1>2, PopCalls DEF RedriveSaga, TypeInv, Types
<1>3. CASE ~(cur = 0 \/ obj[cur].stalled = NoMarker)
  <2> DEFINE m == obj[cur].stalled
             F(h) == Leg(m.on, m.ev, h, cur, m.settled + 1)
             Bad(h) == m.attempting /\ m.settled < Len(h.does) /\ ~Redeliverable(h.does[m.settled + 1])
  <2>1. cur \in DOMAIN obj /\ cur \in Nat /\ obj[cur] \in InstanceType
    BY <1>3 DEF TypeInv, Types
  <2>2. m \in MarkerType /\ m.ev \in 1..Len(occ)
    BY <1>3, <2>1 DEF InstanceType, TypeInv, References, MarkerFits
  <2>3. m.on \in Triggers /\ m.ev \in Nat /\ m.settled + 1 \in Nat
    BY <2>2 DEF MarkerType, Triggers
  <2>4. obj' = [obj EXCEPT ![cur].stalled = NoMarker]
    BY <1>3 DEF RedriveSaga
  <2>5. \/ /\ reported' = reported \cup {m.ev}
           /\ Pop(t) /\ UNCHANGED disk
        \/ \E h \in StalledLeg(obj[cur], m) :
              IF Bad(h)
              THEN /\ reported' = reported \cup {m.ev}
                   /\ disk' = RowOf(obj'[cur], MarkerOf(F(h), m.settled, TRUE))
                   /\ Pop(t)
              ELSE SetTop(t, F(h)) /\ UNCHANGED <<disk, reported>>
    BY <1>3 DEF RedriveSaga
  <2>6. \A h \in StalledLeg(obj[cur], m) :
           /\ h \in Handlers /\ h.on = m.on /\ h.from = m.from /\ h.to = obj[cur].state
    BY DEF StalledLeg, HandlerFor
  <2>7. \A h \in Handlers : F(h) \in CallType
    BY <2>1, <2>3, LegTypes
  <2>8. Pop(t) => Calls({})
    BY <1>1, PopCalls DEF TypeInv, Types
  <2>9. ASSUME NEW h \in Handlers, SetTop(t, F(h)) PROVE Calls({F(h)})
    BY <1>1, <2>7, <2>9, SetTopCalls DEF TypeInv, Types
  <2>10. Reports(t) \/ \E h \in Handlers : Resumes(t, h)
    <3>1. CASE reported' = reported \cup {m.ev} /\ Pop(t) /\ UNCHANGED disk
      BY <2>8, <3>1 DEF Reports
    <3>2. ASSUME NEW h \in StalledLeg(obj[cur], m), Bad(h),
                 reported' = reported \cup {m.ev},
                 disk' = RowOf(obj'[cur], MarkerOf(F(h), m.settled, TRUE)), Pop(t)
          PROVE  Reports(t)
      BY <2>6, <2>7, <2>8, <3>2 DEF Reports
    <3>3. ASSUME NEW h \in StalledLeg(obj[cur], m), ~Bad(h), SetTop(t, F(h)),
                 UNCHANGED <<disk, reported>>
          PROVE  Resumes(t, h) /\ h \in Handlers
      BY <2>6, <2>7, <2>9, <3>3 DEF Resumes
    <3> QED BY <2>5, <3>1, <3>2, <3>3
  <2> QED BY <1>3, <2>1, <2>2, <2>4, <2>10
<1> QED BY <1>2, <1>3

(* A caller's commit calls the advance on its event. *)
LEMMA EnterCalls ==
    ASSUME TypeInv, NEW t \in Threads, NEW e \in Entry, Enter(t, e)
    PROVE  Calls({Adv(NextOcc)}) /\ e \in Events
<1>1. NextOcc \in Nat
  BY DEF NextOcc, TypeInv, Types
<1>2. PICK q : q = <<Adv(NextOcc)>>
  OBVIOUS
<1>3. q \in Seq(CallType) /\ \A j \in DOMAIN q : q[j] = Adv(NextOcc)
  BY <1>1, <1>2, AdvTypes
<1> QED BY <1>2, <1>3, SagaAssumption DEF Enter, Calls, Known, TypeInv, Types

(* A person's call, about to restore the instance it found. *)
ResumeCall == Call("resume", "restore", None, 0, NoHandler, cur, 0)

(* resume is one call, of the live instance. *)
LEMMA ResumeCalls ==
    ASSUME TypeInv, NEW t \in Threads, Resume(t)
    PROVE  /\ cur \in DOMAIN obj /\ cur \in 1..Len(obj) /\ ResumeCall \in CallType
           /\ Calls({ResumeCall})
<1>1. cur \in DOMAIN obj /\ cur \in 1..Len(obj) /\ cur \in Nat
  BY DEF Resume, TypeInv, Types
<1>2. ResumeCall \in CallType
  BY <1>1, CallTypes, NothingTypes DEF ResumeCall, Steps, Triggers
<1>3. PICK q : q = <<ResumeCall>>
  OBVIOUS
<1>4. q \in Seq(CallType) /\ \A j \in DOMAIN q : q[j] = ResumeCall
  BY <1>2, <1>3
<1> QED BY <1>1, <1>2, <1>3, <1>4 DEF Resume, ResumeCall, Calls, Known, TypeInv, Types

(* The instance is back in its stage, and a copy of it in the call. *)
Restoring(t) == [Top(t) EXCEPT !.at = "store", !.copy = RowOf(Restored(obj[Top(t).inst]), NoMarker)]
Restores(t) ==
    LET f == Top(t) IN
    /\ f.inst \in DOMAIN obj /\ Restored(obj[f.inst]) \in InstanceType
    /\ Restored(obj[f.inst]).stalled = obj[f.inst].stalled
    /\ obj' = [obj EXCEPT ![f.inst] = Restored(obj[f.inst])]
    /\ Restoring(t) \in CallType /\ Calls({Restoring(t)})

(* restore_faulted_stage changes the instance the call holds. *)
LEMMA RestoreCalls ==
    ASSUME TypeInv, NEW t \in Threads, ResumeRestore(t)
    PROVE  stack[t] # << >> /\ Restores(t)
<1>1. stack[t] # << >> /\ Top(t).k = "resume"
  BY DEF ResumeRestore, At
<1>2. Top(t) \in CallType /\ Fits(Top(t), Len(obj), Len(occ)) /\ obj \in Seq(InstanceType)
  BY <1>1, TopKnown DEF TypeInv, Types
<1>3. Top(t).inst \in DOMAIN obj /\ obj[Top(t).inst] \in InstanceType
  BY <1>1, <1>2 DEF Fits
<1>4. PICK o \in InstanceType : o = Restored(obj[Top(t).inst]) /\ o.stalled = obj[Top(t).inst].stalled
  <2>1. PICK p \in InstanceType : p = obj[Top(t).inst]
    BY <1>3
  <2>2. Restored(p) \in InstanceType /\ Restored(p).stalled = p.stalled
    BY DEF Restored, InstanceType, Held
  <2> QED BY <2>1, <2>2
<1>5. obj' = [obj EXCEPT ![Top(t).inst] = o] /\ obj'[Top(t).inst] = o
  BY <1>2, <1>3, <1>4 DEF ResumeRestore
<1>6. Restoring(t) \in CallType
  BY <1>2, <1>4, RowTypes, NothingTypes DEF Restoring, CallType, Steps
<1>7. Calls({Restoring(t)})
  BY <1>1, <1>4, <1>5, <1>6, SetTopCalls DEF ResumeRestore, Restoring, TypeInv, Types
<1> QED BY <1>1, <1>3, <1>4, <1>5, <1>6, <1>7 DEF Restores

(* A boot has one call, the redrive of what is owed. *)
LEMMA BootCalls ==
    ASSUME TypeInv, NEW t \in Threads, Boot(t)
    PROVE  Calls({BootCall(owed)}) /\ BootCall(owed) \in CallType
<1>1. BootCall(owed) \in CallType
  BY BootTypes DEF TypeInv, Types
<1>2. PICK q : q = <<BootCall(owed)>>
  OBVIOUS
<1>3. q \in Seq(CallType) /\ \A j \in DOMAIN q : q[j] = BootCall(owed)
  BY <1>1, <1>2
<1> QED BY <1>1, <1>2, <1>3 DEF Boot, Calls, Known, TypeInv, Types

(* A death leaves no call. *)
LEMMA GoneCalls ==
    ASSUME Gone
    PROVE  Calls({}) /\ \A t \in Threads : stack'[t] = << >>
BY DEF Gone, Calls

----------------------------------------------------------------------------
(* The types are kept. *)
LEMMA FitsEvolved ==
    ASSUME NEW f \in CallType, NEW g \in CallType, NEW m \in Nat, NEW n \in Nat, Fits(f, m, n),
           g.k = f.k, g.inst = f.inst, g.ev = f.ev, g.h = f.h, g.todo \subseteq f.todo,
           g.i >= f.i, g.copy.marker = NoMarker,
           g.k = "leg" /\ Aimed(g) => g.i <= Len(g.h.does),
           ~Repaying(g) \/ g.entry \in EntryType, g.at # "save"
    PROVE  Fits(g, m, n)
<1>1. f.i \in Nat /\ g.i \in Nat
  BY DEF CallType
<1>2. f.k = "leg" => g.i >= 1
  BY <1>1 DEF Fits
<1> QED BY <1>2 DEF Fits

(* The innermost call at a step that names no dispatch. *)
LEMMA FitsGoto ==
    ASSUME TypeInv, NEW t \in Threads, stack[t] # << >>,
           NEW at \in Steps \ {"record", "send", "sent", "save", "compensate", "compensated"}
    PROVE  Fits(Goto(t, at), Len(obj), Len(occ))
<1>1. Top(t) \in CallType /\ Fits(Top(t), Len(obj), Len(occ)) /\ Len(obj) \in Nat /\ Len(occ) \in Nat
  BY TopKnown DEF TypeInv, Types
<1>a. PICK f \in CallType : f = Top(t)
  BY <1>1
<1>2. PICK g : g = [f EXCEPT !.at = at]
  OBVIOUS
<1>3. /\ g \in CallType /\ g.at = at /\ g.k = f.k /\ g.inst = f.inst /\ g.ev = f.ev /\ g.h = f.h
      /\ g.todo = f.todo /\ g.i = f.i /\ g.i \in Nat /\ g.copy = f.copy
  BY <1>2 DEF CallType
<1>4. ~Aimed(g) /\ ~Repaying(g)
  BY <1>3 DEF Aimed, Repaying
<1>5. Fits(g, Len(obj), Len(occ))
  BY <1>1, <1>a, <1>2, <1>3, <1>4, FitsEvolved DEF Fits
<1> QED BY <1>a, <1>2, <1>5 DEF Goto

(* One more event, and its row. *)
LEMMA OneMore ==
    ASSUME NEW n \in Nat, NEW R, R \subseteq 1..n
    PROVE  /\ n + 1 \in Nat /\ n + 1 \in 1..(n + 1) /\ n + 1 >= n
           /\ R \cup {n + 1} \subseteq 1..(n + 1)
OBVIOUS

(* What of TypeInv is left to show of a step, from the calls it adds. *)
LEMMA TypesFrom ==
    ASSUME TypeInv, NEW F, Calls(F), \A f \in F : Fits(f, Len(obj'), Len(occ')),
           obj' \in Seq(InstanceType), Len(obj') >= Len(obj), cur' \in 0..Len(obj'),
           \A j \in DOMAIN obj' : MarkerFits(obj'[j].stalled, Len(occ')),
           disk' \in RowType, MarkerFits(disk'.marker, Len(occ')),
           occ' \in Seq(Events), Len(occ') >= Len(occ), owed' \subseteq 1..Len(occ'),
           up' \in BOOLEAN
    PROVE  TypeInv'
<1>1. References'
  BY ReferencesKept
<1>2. Types'
  BY DEF Types, Calls
<1> QED BY <1>1, <1>2 DEF TypeInv

(* A marker that names an emitted event still does when more are emitted. *)
LEMMA MarkersLast ==
    ASSUME NEW m, NEW n \in Nat, NEW k \in Nat, k >= n, MarkerFits(m, n)
    PROVE  MarkerFits(m, k)
BY DEF MarkerFits

(* Only the instances change, or nothing. *)
LEMMA ObjFits ==
    ASSUME TypeInv, NEW j \in DOMAIN obj, NEW o \in InstanceType,
           o.stalled \in {obj[j].stalled, NoMarker}, obj' = [obj EXCEPT ![j] = o]
    PROVE  /\ obj' \in Seq(InstanceType) /\ Len(obj') = Len(obj) /\ obj'[j] = o
           /\ \A i \in DOMAIN obj' : MarkerFits(obj'[i].stalled, Len(occ))
<1>1. obj \in Seq(InstanceType) /\ \A i \in DOMAIN obj : MarkerFits(obj[i].stalled, Len(occ))
  BY DEF TypeInv, Types, References
<1>2. MarkerFits(o.stalled, Len(occ))
  BY <1>1 DEF MarkerFits
<1> QED BY <1>1, <1>2

(* A write guarded by the live instance leaves a well-typed row. *)
LEMMA DiskWritten ==
    ASSUME TypeInv, NEW f \in CallType, f.inst \in DOMAIN obj, NEW m \in MarkerType,
           MarkerFits(m, Len(occ)), WriteIfLive(f, m)
    PROVE  disk' \in RowType /\ MarkerFits(disk'.marker, Len(occ))
<1>1. obj[f.inst] \in InstanceType
  BY DEF TypeInv, Types
<1> QED BY <1>1, RowTypes DEF WriteIfLive, TypeInv, Types, References

(* Nothing changes but the calls and owed rows. *)
LEMMA QuietTypes ==
    ASSUME TypeInv, NEW F, Calls(F), \A f \in F : Fits(f, Len(obj), Len(occ)),
           UNCHANGED <<cur, obj, occ, up>>, owed' \subseteq owed,
           disk' \in RowType, MarkerFits(disk'.marker, Len(occ))
    PROVE  TypeInv'
<1>1. /\ obj' \in Seq(InstanceType) /\ Len(obj') >= Len(obj) /\ cur' \in 0..Len(obj')
      /\ occ' \in Seq(Events) /\ Len(occ') >= Len(occ) /\ owed' \subseteq 1..Len(occ')
      /\ up' \in BOOLEAN
  BY DEF TypeInv, Types
<1>2. \A j \in DOMAIN obj' : MarkerFits(obj'[j].stalled, Len(occ'))
  BY DEF TypeInv, References
<1> QED BY <1>1, <1>2, TypesFrom

(* TypeInv is kept by claiming an event's row. *)
LEMMA ClaimTypes ==
    ASSUME TypeInv, NEW t \in Threads, ClaimEvent(t) PROVE TypeInv'
<1>1. Calls({Goto(t, "begin")}) /\ stack[t] # << >>
  BY ClaimCalls DEF ClaimEvent, At
<1>2. Fits(Goto(t, "begin"), Len(obj), Len(occ))
  BY <1>1, FitsGoto DEF Steps
<1>3. disk \in RowType /\ MarkerFits(disk.marker, Len(occ))
  BY DEF TypeInv, Types, References
<1> QED BY <1>1, <1>2, <1>3, QuietTypes DEF ClaimEvent

(* TypeInv is kept by instantiate_saga?. *)
LEMMA BeginTypes ==
    ASSUME TypeInv, NEW t \in Threads, BeginSaga(t) PROVE TypeInv'
<1>1. Calls({Goto(t, "take")}) /\ stack[t] # << >>
  BY BeginCalls DEF BeginSaga, At
<1>2. Fits(Goto(t, "take"), Len(obj), Len(occ)) /\ Goto(t, "take").k = "adv"
  BY <1>1, FitsGoto, TopKnown DEF Steps, Goto, CallType, BeginSaga, At
<1>3. disk \in RowType /\ MarkerFits(disk.marker, Len(occ)) /\ Len(obj) \in Nat /\ Len(occ) \in Nat
  BY DEF TypeInv, Types, References
<1>4. CASE UNCHANGED <<cur, obj, disk>>
  BY <1>1, <1>2, <1>3, <1>4, QuietTypes DEF BeginSaga
<1>5. CASE /\ cur' = Len(obj) + 1
           /\ obj' = Append(obj, Instance(First, None, << >>, NoMarker))
           /\ disk' = RowOf(obj'[cur'], NoMarker)
  <2>1. PICK o \in InstanceType : o = Instance(First, None, << >>, NoMarker) /\ o.stalled = NoMarker
    <3>1. First \in Held /\ None \in Held /\ << >> \in Seq(EntryType)
      BY SagaAssumption DEF Held
    <3> QED BY <3>1, NothingTypes, InstanceTypes DEF Instance
  <2>2. /\ obj' \in Seq(InstanceType) /\ Len(obj') = Len(obj) + 1 /\ obj'[cur'] = o
        /\ \A j \in DOMAIN obj' : obj'[j] = o \/ (j \in DOMAIN obj /\ obj'[j] = obj[j])
    BY <1>5, <2>1 DEF TypeInv, Types
  <2>3. disk' \in RowType /\ MarkerFits(disk'.marker, Len(occ))
    BY <1>5, <2>1, <2>2, RowTypes, NothingTypes DEF MarkerFits
  <2>4. \A j \in DOMAIN obj' : MarkerFits(obj'[j].stalled, Len(occ))
    BY <2>1, <2>2 DEF TypeInv, References, MarkerFits
  <2>5. Fits(Goto(t, "take"), Len(obj'), Len(occ))
    BY <1>2, <1>3, <2>2 DEF Fits
  <2>6. UNCHANGED <<occ, owed, up>>
    BY DEF BeginSaga
  <2>7. cur' \in 0..Len(obj') /\ Len(obj') >= Len(obj)
    BY <1>3, <1>5, <2>2
  <2> QED BY <1>1, <1>3, <2>2, <2>3, <2>4, <2>5, <2>6, <2>7, TypesFrom DEF TypeInv, Types
<1> QED BY <1>4, <1>5 DEF BeginSaga

(* A leg that is taken: the instance moves and is written with a marker. *)
LEMMA TakenTypes ==
    ASSUME TypeInv, NEW j \in DOMAIN obj, j \in Nat, NEW h \in Handlers, NEW on \in Triggers,
           NEW ev \in 1..Len(occ), NEW f, Fits(f, Len(obj), Len(occ)),
           Calls({f, Leg(on, ev, h, j, 0)}),
           obj' = [obj EXCEPT ![j] = Moved(@, h)],
           disk' = RowOf(obj'[j], MarkerOf(Leg(on, ev, h, j, 0), 0, FALSE)),
           UNCHANGED <<cur, owed, occ, up>>
    PROVE  TypeInv'
<1>1. obj[j] \in InstanceType /\ Len(obj) \in Nat /\ Len(occ) \in Nat /\ ev \in Nat /\ j \in 1..Len(obj)
  BY DEF TypeInv, Types
<1>2. Moved(obj[j], h) \in InstanceType /\ Moved(obj[j], h).stalled = obj[j].stalled
  BY <1>1, MovedTypes
<1>3. /\ obj' \in Seq(InstanceType) /\ Len(obj') = Len(obj) /\ obj'[j] \in InstanceType
      /\ \A i \in DOMAIN obj' : MarkerFits(obj'[i].stalled, Len(occ))
  BY <1>2, ObjFits
<1>4. PICK leg \in CallType : /\ leg = Leg(on, ev, h, j, 0) /\ leg.ev = ev
                              /\ Fits(leg, Len(obj), Len(occ))
  BY <1>1, LegTypes
<1>5. MarkerOf(leg, 0, FALSE) \in MarkerType /\ MarkerFits(MarkerOf(leg, 0, FALSE), Len(occ))
  BY <1>4, MarkerTypes
<1>6. disk' \in RowType /\ MarkerFits(disk'.marker, Len(occ))
  BY <1>3, <1>4, <1>5, RowTypes
<1>7. /\ cur' \in 0..Len(obj') /\ Len(obj') >= Len(obj) /\ occ' \in Seq(Events)
      /\ Len(occ') >= Len(occ) /\ owed' \subseteq 1..Len(occ') /\ up' \in BOOLEAN
  BY <1>3 DEF TypeInv, Types
<1> QED BY <1>3, <1>4, <1>6, <1>7, TypesFrom

(* TypeInv is kept by taking a leg. *)
LEMMA AdvanceTypes ==
    ASSUME TypeInv, NEW t \in Threads, AdvanceSaga(t) PROVE TypeInv'
<1>1. stack[t] # << >> /\ Top(t).k = "adv" /\ UNCHANGED <<cur, owed, occ, up>>
  BY DEF AdvanceSaga, At
<1>2. Fits(Goto(t, "end"), Len(obj), Len(occ))
  BY <1>1, FitsGoto DEF Steps
<1>3. CASE Calls({Goto(t, "end")}) /\ UNCHANGED <<obj, disk, taken>>
  BY <1>1, <1>2, <1>3, QuietTypes DEF TypeInv, Types, References
<1>4. ASSUME NEW h \in Handlers, TakesLeg(t, h) PROVE TypeInv'
  <2>1. h.on \in Triggers
    BY SagaAssumption DEF HandlerType, Triggers
  <2>2. Top(t).ev \in 1..Len(occ)
    BY <1>1, TopKnown DEF Fits
  <2>3. cur \in Nat /\ cur \in DOMAIN obj
    BY <1>4 DEF TakesLeg, TypeInv, Types
  <2> QED BY <1>1, <1>2, <1>4, <2>1, <2>2, <2>3, TakenTypes DEF TakesLeg
<1> QED BY <1>3, <1>4, AdvanceCalls

(* TypeInv is kept by unwinding. *)
LEMMA UnwindTypes ==
    ASSUME TypeInv, NEW t \in Threads, Unwind(t) PROVE TypeInv'
<1>1. stack[t] # << >> /\ Top(t).k = "leg" /\ UNCHANGED <<cur, owed, occ, up>>
  BY DEF Unwind, At
<1>2. Fits(Goto(t, "settle"), Len(obj), Len(occ))
  BY <1>1, FitsGoto DEF Steps
<1>3. CASE Calls({Goto(t, "settle")}) /\ UNCHANGED <<obj, disk, taken>>
  BY <1>1, <1>2, <1>3, QuietTypes DEF TypeInv, Types, References
<1>4. ASSUME NEW h \in Handlers, Reverses(t, h) PROVE TypeInv'
  <2>1. Top(t).ev \in 1..Len(occ) /\ Top(t).inst \in DOMAIN obj /\ Top(t).inst \in Nat
    BY <1>1, LegTop
  <2>2. Refused \in Triggers
    BY DEF Triggers
  <2> QED BY <1>1, <1>2, <1>4, <2>1, <2>2, TakenTypes DEF Reverses
<1> QED BY <1>3, <1>4, UnwindCalls

(* TypeInv is kept by forget_saga?. *)
LEMMA EndTypes ==
    ASSUME TypeInv, NEW t \in Threads, EndSaga(t) PROVE TypeInv'
<1>1. Calls({}) /\ UNCHANGED <<obj, owed, occ, up>>
  BY EndCalls DEF EndSaga
<1>2. disk' \in RowType /\ MarkerFits(disk'.marker, Len(occ)) /\ cur' \in {cur, 0}
  <2>1. disk' \in {disk, NoRow} /\ cur' \in {cur, 0}
    BY DEF EndSaga
  <2>2. MarkerFits(NoRow.marker, Len(occ))
    BY DEF MarkerFits, NoRow
  <2> QED BY <2>1, <2>2, NothingTypes DEF TypeInv, Types, References
<1>3. /\ obj' \in Seq(InstanceType) /\ cur' \in 0..Len(obj') /\ Len(obj') >= Len(obj)
      /\ occ' \in Seq(Events) /\ Len(occ') >= Len(occ) /\ owed' \subseteq 1..Len(occ')
      /\ up' \in BOOLEAN
  BY <1>1, <1>2 DEF TypeInv, Types
<1>4. \A j \in DOMAIN obj' : MarkerFits(obj'[j].stalled, Len(occ'))
  BY <1>1 DEF TypeInv, References
<1> QED BY <1>1, <1>2, <1>3, <1>4, TypesFrom

(* TypeInv is kept by a person's resume. *)
LEMMA ResumeTypes ==
    ASSUME TypeInv, NEW t \in Threads, Resume(t) PROVE TypeInv'
<1>1. Calls({ResumeCall}) /\ cur \in 1..Len(obj)
  BY ResumeCalls
<1>2. Fits(ResumeCall, Len(obj), Len(occ))
  BY <1>1 DEF ResumeCall, Call, Fits, NoRow
<1> QED BY <1>1, <1>2, QuietTypes DEF Resume, TypeInv, Types, References

(* TypeInv is kept by storing what a person restored. *)
LEMMA StoreTypes ==
    ASSUME TypeInv, NEW t \in Threads, ResumeStore(t) PROVE TypeInv'
<1>1. /\ stack[t] # << >> /\ disk' = Top(t).copy /\ Pop(t)
      /\ UNCHANGED <<cur, obj, owed, occ, up>>
  BY DEF ResumeStore, At
<1>2. Top(t) \in CallType /\ Fits(Top(t), Len(obj), Len(occ))
  BY <1>1, TopKnown
<1>3. disk' \in RowType /\ MarkerFits(disk'.marker, Len(occ))
  BY <1>1, <1>2 DEF CallType, Fits, MarkerFits
<1>4. Calls({})
  BY <1>1, PopCalls DEF TypeInv, Types
<1> QED BY <1>1, <1>3, <1>4, QuietTypes

(* A step of a leg that writes a marker for it, or none. *)
LEMMA MarkingTypes ==
    ASSUME TypeInv, NEW t \in Threads, stack[t] # << >>, Top(t).k = "leg", NEW F, Calls(F),
           \A f \in F : Fits(f, Len(obj), Len(occ)), NEW n \in Nat, NEW b \in BOOLEAN,
           WriteIfLive(Top(t), MarkerOf(Top(t), n, b)) \/ WriteIfLive(Top(t), NoMarker),
           UNCHANGED <<cur, obj, owed, occ, up>>
    PROVE  TypeInv'
<1>1. Top(t) \in CallType /\ Top(t).inst \in DOMAIN obj /\ Top(t).ev \in 1..Len(occ)
  BY LegTop
<1>2. MarkerOf(Top(t), n, b) \in MarkerType /\ MarkerFits(MarkerOf(Top(t), n, b), Len(occ))
  BY <1>1, MarkerTypes
<1>3. NoMarker \in MarkerType /\ MarkerFits(NoMarker, Len(occ))
  BY NothingTypes DEF MarkerFits
<1>4. disk' \in RowType /\ MarkerFits(disk'.marker, Len(occ))
  BY <1>1, <1>2, <1>3, DiskWritten
<1> QED BY <1>4, QuietTypes

(* TypeInv is kept by record_progress before a dispatch. *)
LEMMA StartTypes ==
    ASSUME TypeInv, NEW t \in Threads, StartDispatch(t) PROVE TypeInv'
<1>1. /\ stack[t] # << >> /\ Top(t).k = "leg" /\ Top(t).i <= Len(Top(t).h.does)
      /\ WriteIfLive(Top(t), MarkerOf(Top(t), Top(t).i - 1, TRUE))
      /\ UNCHANGED <<cur, obj, owed, occ, up>>
  BY DEF StartDispatch, At
<1>2. Top(t).i - 1 \in Nat
  BY <1>1, LegTop
<1>3. Calls({Goto(t, "unwind"), Goto(t, "record")})
  BY StartCalls
<1>4. Fits(Goto(t, "unwind"), Len(obj), Len(occ))
  BY <1>1, FitsGoto DEF Steps
<1>5. Fits(Goto(t, "record"), Len(obj), Len(occ))
  <2>1. Top(t) \in CallType /\ Fits(Top(t), Len(obj), Len(occ))
    BY <1>1, TopKnown
  <2> QED BY <1>1, <2>1 DEF Goto, CallType, Fits, Aimed, Repaying
<1> QED BY <1>1, <1>2, <1>3, <1>4, <1>5, MarkingTypes

(* TypeInv is kept by a raise in a dispatch's arguments. *)
LEMMA RaisedTypes ==
    ASSUME TypeInv, NEW t \in Threads, StartRaised(t) PROVE TypeInv'
<1>1. /\ stack[t] # << >> /\ Top(t).k = "leg"
      /\ WriteIfLive(Top(t), MarkerOf(Top(t), Top(t).i - 1, TRUE))
      /\ UNCHANGED <<cur, obj, owed, occ, up>> /\ Calls({})
  BY RaisedCalls DEF StartRaised, At
<1>2. Top(t).i - 1 \in Nat
  BY <1>1, LegTop
<1> QED BY <1>1, <1>2, MarkingTypes

(* TypeInv is kept by record_progress after a dispatch. *)
LEMMA SettleTypes ==
    ASSUME TypeInv, NEW t \in Threads, SettleDispatch(t) PROVE TypeInv'
<1>1. /\ stack[t] # << >> /\ Top(t).k = "leg"
      /\ WriteIfLive(Top(t), MarkerOf(Top(t), Top(t).i, FALSE))
      /\ UNCHANGED <<cur, obj, owed, occ, up>>
  BY DEF SettleDispatch, At
<1>2. Top(t) \in CallType /\ Fits(Top(t), Len(obj), Len(occ)) /\ Top(t).i \in Nat /\ Top(t).i >= 1
  BY <1>1, TopKnown, LegTop
<1>3. Fits(SettledCall(t), Len(obj), Len(occ))
  <2>1. PICK g : g = SettledCall(t)
    OBVIOUS
  <2>2. /\ g.k = "leg" /\ g.inst = Top(t).inst /\ g.ev = Top(t).ev /\ g.at = "start"
        /\ g.i = Top(t).i + 1 /\ g.copy = Top(t).copy
    BY <1>1, <1>2, <2>1 DEF SettledCall, Goto, CallType
  <2>3. ~Aimed(g) /\ g.i >= 1 /\ ~Repaying(g)
    BY <1>2, <2>2 DEF Aimed, Repaying
  <2>4. Fits(g, Len(obj), Len(occ))
    BY <1>1, <1>2, <2>2, <2>3 DEF Fits
  <2> QED BY <2>1, <2>4
<1>4. Calls({SettledCall(t)})
  BY SettleCalls
<1> QED BY <1>1, <1>2, <1>3, <1>4, MarkingTypes

(* TypeInv is kept by clear_pending_marker. *)
LEMMA FinishTypes ==
    ASSUME TypeInv, NEW t \in Threads, FinishLeg(t) PROVE TypeInv'
<1>1. /\ stack[t] # << >> /\ Top(t).k = "leg" /\ WriteIfLive(Top(t), NoMarker)
      /\ UNCHANGED <<cur, obj, owed, occ, up>> /\ Calls({})
  BY FinishCalls DEF FinishLeg, At
<1> QED BY <1>1, MarkingTypes

(* TypeInv is kept by writing a copy. *)
LEMMA SaveTypes ==
    ASSUME TypeInv, NEW t \in Threads, SaveCopy(t) PROVE TypeInv'
<1>1. /\ stack[t] # << >> /\ Top(t).k = "leg" /\ Top(t).at = "save" /\ disk' = Top(t).copy
      /\ UNCHANGED <<cur, obj, owed, occ, up>>
  BY DEF SaveCopy, At
<1>2. Top(t) \in CallType /\ Fits(Top(t), Len(obj), Len(occ)) /\ Len(obj) \in Nat /\ Len(occ) \in Nat
  BY <1>1, TopKnown DEF TypeInv, Types
<1>3. disk' \in RowType /\ MarkerFits(disk'.marker, Len(occ))
  BY <1>1, <1>2 DEF CallType, Fits, MarkerFits
<1>a. PICK f \in CallType : f = Top(t)
  BY <1>2
<1>4. PICK g : g = [f EXCEPT !.at = f.then, !.copy = NoRow, !.then = "start"]
  OBVIOUS
<1>5. /\ g.k = "leg" /\ g.inst = f.inst /\ g.ev = f.ev /\ g.h = f.h /\ g.i = f.i
      /\ g.at = f.then /\ g.then = "start" /\ g.copy.marker = NoMarker
  BY <1>1, <1>a, <1>4 DEF CallType, NoRow
<1>6. (Aimed(g) => Aimed(f)) /\ ~Repaying(g)
  BY <1>1, <1>2, <1>a, <1>4, <1>5 DEF Aimed, Repaying, Fits
<1>7. Fits(g, Len(obj), Len(occ))
  BY <1>1, <1>2, <1>a, <1>4, <1>5, <1>6 DEF Fits
<1>8. Calls({g})
  BY <1>a, <1>4, SaveCalls
<1> QED BY <1>1, <1>3, <1>7, <1>8, QuietTypes

(* Saving a copy of an instance keeps the types. *)
LEMMA FitsSaving ==
    ASSUME NEW f \in CallType, NEW o \in InstanceType, NEW next \in Steps, NEW m, NEW n,
           Fits(f, m, n), f.k = "leg", Aimed(f) \/ next \notin {"record", "send", "sent"},
           next \notin {"compensate", "compensated"}
    PROVE  Fits(Saving(o, f, next), m, n)
<1>1. PICK g : g = Saving(o, f, next)
  OBVIOUS
<1>2. /\ g.k = "leg" /\ g.inst = f.inst /\ g.ev = f.ev /\ g.h = f.h /\ g.i = f.i
      /\ g.at = "save" /\ g.then = next /\ g.copy = RowOf(o, NoMarker)
  BY <1>1 DEF Saving, CallType
<1>3. g.copy.marker = NoMarker
  BY <1>2, RowTypes, NothingTypes
<1>4. (Aimed(g) => Aimed(f)) /\ ~Repaying(g)
  BY <1>2 DEF Aimed, Repaying
<1>5. Fits(g, m, n)
  BY <1>2, <1>3, <1>4 DEF Fits
<1> QED BY <1>1, <1>5

(* A commit's event is one more, and its row is owed. *)
LEMMA CommittedTypes ==
    ASSUME TypeInv, Committed
    PROVE  /\ occ' \in Seq(Events) /\ Len(occ') \in Nat /\ Len(occ') >= Len(occ)
           /\ owed' \subseteq 1..Len(occ')
           /\ \A f, m : Fits(f, m, Len(occ)) => Fits(f, m, Len(occ'))
           /\ \A m : MarkerFits(m, Len(occ)) => MarkerFits(m, Len(occ'))
<1>1. occ \in Seq(Events) /\ owed \subseteq 1..Len(occ) /\ Len(occ) \in Nat
  BY DEF TypeInv, Types
<1>2. CASE UNCHANGED <<occ, owed>>
  BY <1>1, <1>2
<1>3. ASSUME NEW e \in Events, Emitted(e)
      PROVE  /\ occ' \in Seq(Events) /\ Len(occ') \in Nat /\ Len(occ') >= Len(occ)
             /\ owed' \subseteq 1..Len(occ')
  <2>1. occ' \in Seq(Events) /\ Len(occ') = Len(occ) + 1 /\ NextOcc = Len(occ) + 1
    BY <1>1, <1>3 DEF NextOcc, Emitted
  <2> QED BY <1>1, <1>3, <2>1, OneMore DEF Emitted
<1>4. /\ occ' \in Seq(Events) /\ Len(occ') \in Nat /\ Len(occ') >= Len(occ)
      /\ owed' \subseteq 1..Len(occ')
  BY <1>1, <1>2, <1>3 DEF Committed
<1>5. \A f, m : Fits(f, m, Len(occ)) => Fits(f, m, Len(occ'))
  BY <1>1, <1>4 DEF Fits
<1> QED BY <1>1, <1>4, <1>5, MarkersLast

(* A commit that leaves the row and the registry alone keeps the types. *)
LEMMA CommitKeeps ==
    ASSUME TypeInv, Committed, NEW F, Calls(F), \A f \in F : Fits(f, Len(obj), Len(occ')),
           UNCHANGED <<cur, disk, up>>,
           obj' \in Seq(InstanceType), Len(obj') = Len(obj),
           \A i \in DOMAIN obj' : MarkerFits(obj'[i].stalled, Len(occ))
    PROVE  TypeInv'
<1>1. /\ occ' \in Seq(Events) /\ Len(occ') >= Len(occ) /\ owed' \subseteq 1..Len(occ')
      /\ \A m : MarkerFits(m, Len(occ)) => MarkerFits(m, Len(occ'))
  BY CommittedTypes
<1>2. /\ cur' \in 0..Len(obj') /\ Len(obj') >= Len(obj) /\ up' \in BOOLEAN
      /\ disk' \in RowType /\ MarkerFits(disk'.marker, Len(occ))
  BY DEF TypeInv, Types, References
<1>3. /\ MarkerFits(disk'.marker, Len(occ'))
      /\ \A i \in DOMAIN obj' : MarkerFits(obj'[i].stalled, Len(occ'))
  BY <1>1, <1>2
<1> QED BY <1>1, <1>2, <1>3, TypesFrom

(* A step that changes one instance and saves a copy of it. *)
LEMMA SavingKeeps ==
    ASSUME TypeInv, NEW j \in DOMAIN obj, NEW o \in InstanceType, o.stalled = obj[j].stalled,
           obj' = [obj EXCEPT ![j] = o], NEW F, Calls(F), Committed,
           \A f \in F : Fits(f, Len(obj), Len(occ)), UNCHANGED <<cur, disk, up>>
    PROVE  TypeInv'
<1>1. /\ obj' \in Seq(InstanceType) /\ Len(obj') = Len(obj)
      /\ \A i \in DOMAIN obj' : MarkerFits(obj'[i].stalled, Len(occ))
  BY ObjFits
<1>2. \A f \in F : Fits(f, Len(obj), Len(occ'))
  BY CommittedTypes
<1> QED BY <1>1, <1>2, CommitKeeps

(* TypeInv is kept by record_compensation. *)
LEMMA RecordTypes ==
    ASSUME TypeInv, NEW t \in Threads, RecordCompensation(t) PROVE TypeInv'
<1>1. /\ stack[t] # << >> /\ Top(t).k = "leg" /\ Top(t).at = "record"
      /\ UNCHANGED <<cur, disk, owed, occ, up>>
  BY DEF RecordCompensation, At
<1>2. Top(t) \in CallType /\ Fits(Top(t), Len(obj), Len(occ)) /\ Aimed(Top(t))
  BY <1>1, TopKnown DEF Aimed
<1>3. Fits(Goto(t, "send"), Len(obj), Len(occ))
  BY <1>1, <1>2 DEF Goto, CallType, Fits, Aimed, Repaying
<1>4. CASE Calls({Goto(t, "send")}) /\ UNCHANGED obj
  BY <1>1, <1>3, <1>4, QuietTypes DEF TypeInv, Types, References
<1>5. CASE Records(t)
  <2>1. PICK g \in CallType : g = [Top(t) EXCEPT !.rec = TRUE]
    BY <1>2 DEF CallType
  <2>2. Fits(g, Len(obj), Len(occ)) /\ g.k = "leg" /\ Aimed(g)
    BY <1>1, <1>2, <2>1 DEF CallType, Fits, Aimed, Repaying
  <2>3. PICK o \in InstanceType : o = Recorded(obj[Top(t).inst], EntryOf(Top(t)))
    BY <1>5 DEF Records
  <2>4. o.stalled = obj[Top(t).inst].stalled
    BY <1>1, <2>3, LegTop DEF Recorded, InstanceType
  <2>5. obj' = [obj EXCEPT ![Top(t).inst] = o] /\ obj'[Top(t).inst] = o
    BY <1>5, <2>3 DEF Records
  <2>6. Fits(Saving(o, g, "send"), Len(obj), Len(occ))
    BY <2>2, FitsSaving DEF Steps
  <2>7. Calls({Saving(o, g, "send")})
    BY <1>5, <2>1, <2>5 DEF Records
  <2> QED BY <1>1, <1>5, <2>4, <2>5, <2>6, <2>7, SavingKeeps DEF Records, Committed
<1> QED BY <1>4, <1>5, RecordCalls

(* TypeInv is kept by a failed dispatch. *)
LEMMA FailedTypes ==
    ASSUME TypeInv, NEW t \in Threads, SendRefused(t) \/ SendRaised(t) \/ SendLost(t) PROVE TypeInv'
<1>1. /\ stack[t] # << >> /\ Top(t).k = "leg" /\ Top(t).at \in {"record", "send", "sent"}
      /\ UNCHANGED <<cur, disk, up>>
  BY DEF SendRefused, SendRaised, SendLost, At
<1>0. Committed
  <2>1. CASE SendLost(t)
    <3>1. Emits(CommandAt(Top(t))) /\ CommandAt(Top(t)) \in Commands
      BY <2>1, SendCommand DEF SendLost, Commits
    <3> QED BY <3>1, EmitsCommitted
  <2> QED BY <2>1 DEF SendRefused, SendRaised, Committed
<1>2. PICK n \in Nat, next \in {"record", "unwind"} : Fails(t, n, next)
  BY FailedCalls
<1>3. PICK f \in CallType : f = Tried(t, n)
  BY <1>1, TopKnown DEF Tried, CallType
<1>4. Top(t) \in CallType /\ Fits(Top(t), Len(obj), Len(occ)) /\ Aimed(Top(t))
  BY <1>1, TopKnown DEF Aimed
<1>5. /\ Fits(f, Len(obj), Len(occ)) /\ Aimed(f) /\ f.k = "leg" /\ f.inst = Top(t).inst
      /\ f.at \in {"record", "send", "sent"}
  BY <1>1, <1>3, <1>4 DEF Tried, CallType, Fits, Aimed, Repaying
<1>6. CASE Calls({[f EXCEPT !.at = next]}) /\ UNCHANGED obj
  <2>1. Fits([f EXCEPT !.at = next], Len(obj), Len(occ))
    BY <1>5 DEF CallType, Fits, Aimed, Repaying
  <2>2. \A g \in {[f EXCEPT !.at = next]} : Fits(g, Len(obj), Len(occ'))
    BY <1>0, <2>1, CommittedTypes
  <2>3. /\ obj' \in Seq(InstanceType) /\ Len(obj') = Len(obj)
        /\ \A i \in DOMAIN obj' : MarkerFits(obj'[i].stalled, Len(occ))
    BY <1>6 DEF TypeInv, Types, References
  <2> QED BY <1>0, <1>1, <1>6, <2>2, <2>3, CommitKeeps
<1>7. CASE Unrecords(t, f, next)
  <2>1. f.inst \in DOMAIN obj /\ obj[f.inst] \in InstanceType
    BY <1>1, <1>5, LegTop
  <2>2. PICK o \in InstanceType : o = Popped(obj[f.inst]) /\ o.stalled = obj[f.inst].stalled
    BY <2>1, PoppedTypes
  <2>3. obj' = [obj EXCEPT ![f.inst] = o] /\ obj'[f.inst] = o
    BY <1>7, <2>2 DEF Unrecords
  <2>4. PICK g \in CallType : g = [f EXCEPT !.rec = FALSE]
    BY DEF CallType
  <2>5. Fits(g, Len(obj), Len(occ)) /\ g.k = "leg" /\ Aimed(g)
    BY <1>5, <2>4 DEF CallType, Fits, Aimed, Repaying
  <2>6. Fits(Saving(o, g, next), Len(obj), Len(occ))
    BY <2>5, FitsSaving DEF Steps
  <2>7. Calls({Saving(o, g, next)})
    BY <1>7, <2>3, <2>4 DEF Unrecords
  <2> QED BY <1>0, <1>1, <2>1, <2>2, <2>3, <2>6, <2>7, SavingKeeps
<1> QED BY <1>2, <1>3, <1>6, <1>7 DEF Fails

(* A leg that goes on to its next entry fits. *)
LEMMA NextEntryFits ==
    ASSUME TypeInv, NEW t \in Threads, stack[t] # << >>, Top(t).k = "leg"
    PROVE  /\ Fits(NextEntry(Top(t)), Len(obj), Len(occ))
           /\ NextEntry(Top(t)).k = "leg"
<1>1. Top(t) \in CallType /\ Fits(Top(t), Len(obj), Len(occ))
  BY TopKnown
<1>2. PICK g : g = NextEntry(Top(t))
  OBVIOUS
<1>3. /\ g.at = "drain" /\ g.k = "leg" /\ g.inst = Top(t).inst /\ g.ev = Top(t).ev
      /\ g.i = Top(t).i /\ g.copy = Top(t).copy
  BY <1>1, <1>2 DEF NextEntry, CallType
<1>4. ~Aimed(g) /\ ~Repaying(g)
  BY <1>3 DEF Aimed, Repaying
<1>5. Fits(g, Len(obj), Len(occ))
  BY <1>1, <1>3, <1>4 DEF Fits
<1> QED BY <1>2, <1>3, <1>5

(* TypeInv is kept by an emptied ledger. *)
LEMMA DrainedTypes ==
    ASSUME TypeInv, NEW t \in Threads, DrainDone(t) PROVE TypeInv'
<1>1. stack[t] # << >> /\ Top(t).k = "leg" /\ UNCHANGED <<cur, obj, disk, owed, occ, up>>
  BY DrainedCalls DEF DrainDone
<1>2. obj[Top(t).inst] \in InstanceType
  BY <1>1, LegTop
<1>3. PICK g \in CallType : g = NextEntry(Top(t))
  BY DrainedCalls
<1>4. Fits(g, Len(obj), Len(occ)) /\ g.k = "leg"
  BY <1>1, <1>3, NextEntryFits
<1>5. Fits(Saving(obj[Top(t).inst], g, "start"), Len(obj), Len(occ))
  BY <1>2, <1>4, FitsSaving DEF Steps
<1> QED BY <1>1, <1>3, <1>5, DrainedCalls, QuietTypes DEF TypeInv, Types, References

(* A command that commits keeps the types, whatever its event. *)
LEMMA EmitTypes ==
    ASSUME TypeInv, NEW done, NEW reacting, Reacts(done, reacting),
           Fits(done, Len(obj), Len(occ)), Fits(reacting, Len(obj), Len(occ)),
           UNCHANGED <<cur, obj, disk, up>>
    PROVE  TypeInv'
<1>1. /\ obj' \in Seq(InstanceType) /\ Len(obj') = Len(obj) /\ Len(obj) \in Nat /\ Len(occ) \in Nat
      /\ \A i \in DOMAIN obj' : MarkerFits(obj'[i].stalled, Len(occ))
  BY DEF TypeInv, Types, References
<1>2. CASE Calls({done}) /\ UNCHANGED <<occ, owed>>
  BY <1>1, <1>2, CommitKeeps DEF Committed
<1>3. ASSUME NEW e \in Events, Emitted(e), Calls({reacting, Adv(NextOcc)})
      PROVE  TypeInv'
  <2>1. Committed
    BY <1>3 DEF Committed
  <2>2. NextOcc \in Nat /\ Len(occ') = NextOcc /\ NextOcc \in 1..Len(occ')
    <3>1. occ \in Seq(Events) /\ occ' = Append(occ, e)
      BY <1>3 DEF TypeInv, Types, Emitted
    <3> QED BY <3>1 DEF NextOcc
  <2>3. Fits(Adv(NextOcc), Len(obj), Len(occ'))
    BY <1>1, <2>2, AdvTypes
  <2>4. Fits(reacting, Len(obj), Len(occ'))
    BY <2>1, CommittedTypes
  <2> QED BY <1>1, <1>3, <2>1, <2>3, <2>4, CommitKeeps
<1> QED BY <1>2, <1>3 DEF Reacts

(* TypeInv is kept by a delivered dispatch. *)
LEMMA DeliveredTypes ==
    ASSUME TypeInv, NEW t \in Threads, SendDelivered(t) PROVE TypeInv'
<1>1. stack[t] # << >> /\ Top(t).k = "leg" /\ Top(t).at = "send" /\ UNCHANGED <<cur, obj, disk, up>>
  BY DEF SendDelivered, At
<1>2. Fits(Goto(t, "settle"), Len(obj), Len(occ))
  BY <1>1, FitsGoto DEF Steps
<1>3. Top(t) \in CallType /\ Fits(Top(t), Len(obj), Len(occ))
  BY <1>1, TopKnown
<1>4. Fits(Goto(t, "sent"), Len(obj), Len(occ))
  BY <1>1, <1>3 DEF Goto, CallType, Fits, Aimed, Repaying
<1> QED BY <1>1, <1>2, <1>4, DeliveredCalls, EmitTypes

(* TypeInv is kept by a dispatch answered as applied. *)
LEMMA SkippedTypes ==
    ASSUME TypeInv, NEW t \in Threads, SendSkipped(t) PROVE TypeInv'
<1>1. stack[t] # << >> /\ UNCHANGED <<cur, obj, disk, owed, occ, up>>
  BY DEF SendSkipped, At
<1>2. Fits(Goto(t, "settle"), Len(obj), Len(occ))
  BY <1>1, FitsGoto DEF Steps
<1> QED BY <1>1, <1>2, SkippedCalls, QuietTypes DEF TypeInv, Types, References

(* The instance a drain pops stays well typed. *)
LEMMA PopsFit ==
    ASSUME TypeInv, NEW t \in Threads, Pops(t)
    PROVE  /\ Popped(obj[Top(t).inst]) \in InstanceType
           /\ Popped(obj[Top(t).inst]).stalled = obj[Top(t).inst].stalled
           /\ obj' \in Seq(InstanceType) /\ Len(obj') = Len(obj)
           /\ \A i \in DOMAIN obj' : MarkerFits(obj'[i].stalled, Len(occ))
<1>1. Top(t).inst \in DOMAIN obj /\ obj[Top(t).inst] \in InstanceType
  BY DEF Pops, TypeInv, Types
<1>2. /\ Popped(obj[Top(t).inst]) \in InstanceType
      /\ Popped(obj[Top(t).inst]).stalled = obj[Top(t).inst].stalled
  BY <1>1, PoppedTypes
<1> QED BY <1>1, <1>2, ObjFits DEF Pops

(* TypeInv is kept by taking an entry to deliver. *)
LEMMA DrainTypes ==
    ASSUME TypeInv, NEW t \in Threads, Drain(t) PROVE TypeInv'
<1>1. /\ stack[t] # << >> /\ Top(t).k = "leg" /\ Pops(t) /\ Top(t).inst \in DOMAIN obj
      /\ UNCHANGED <<cur, disk, owed, occ, up>>
  BY DrainPops DEF Drain, Pops
<1>2. PICK e \in EntryType : e = Newest(obj[Top(t).inst])
  BY <1>1 DEF Pops
<1>3. Top(t) \in CallType /\ Fits(Top(t), Len(obj), Len(occ))
  BY <1>1, TopKnown
<1>4. PICK g : g = [Top(t) EXCEPT !.at = "compensate", !.entry = e, !.tries = 0]
  OBVIOUS
<1>5. /\ g.at = "compensate" /\ g.k = "leg" /\ g.inst = Top(t).inst /\ g.ev = Top(t).ev
      /\ g.i = Top(t).i /\ g.copy = Top(t).copy /\ g.entry = e
  BY <1>1, <1>3, <1>4 DEF CallType
<1>6. ~Aimed(g)
  BY <1>5 DEF Aimed
<1>7. Fits(g, Len(obj), Len(occ))
  BY <1>1, <1>2, <1>3, <1>5, <1>6 DEF Fits
<1>8. Calls({g}) /\ obj' = [obj EXCEPT ![Top(t).inst] = Popped(obj[Top(t).inst])]
  BY <1>1, <1>2, <1>4 DEF Pops
<1> QED BY <1>1, <1>7, <1>8, PopsFit, SavingKeeps DEF Committed

(* TypeInv is kept by a delivered compensation. *)
LEMMA CompensateTypes ==
    ASSUME TypeInv, NEW t \in Threads, Compensate(t) PROVE TypeInv'
<1>1. stack[t] # << >> /\ Top(t).k = "leg" /\ Repaying(Top(t)) /\ UNCHANGED <<cur, obj, disk, up>>
  BY DEF Compensate, At, Repaying
<1>2. Top(t).entry \in EntryType /\ Top(t) \in CallType /\ Fits(Top(t), Len(obj), Len(occ))
  BY <1>1, Repays, TopKnown
<1>3. Fits(Goto(t, "compensated"), Len(obj), Len(occ))
  BY <1>1, <1>2 DEF Goto, CallType, Fits, Aimed
<1> QED BY <1>1, <1>3, NextEntryFits, CompensateCalls, EmitTypes

(* TypeInv is kept by a failed compensation. *)
LEMMA UncompensatedTypes ==
    ASSUME TypeInv, NEW t \in Threads,
           CompensationFails(t) \/ CompensationRaised(t) \/ CompensateLost(t)
    PROVE  TypeInv'
<1>1. /\ stack[t] # << >> /\ Top(t).k = "leg" /\ Repaying(Top(t))
      /\ Calls({NextEntry(Top(t)), Again(t)})
  BY UncompensatedCalls
<1>2. Top(t).entry \in EntryType /\ Top(t).entry.cmd \in Commands /\ Top(t) \in CallType
      /\ Fits(Top(t), Len(obj), Len(occ))
  BY <1>1, Repays, TopKnown
<1>3. Committed /\ UNCHANGED <<cur, obj, disk, up>>
  BY <1>2, EmitsCommitted
     DEF CompensationFails, CompensationRaised, CompensateLost, Undo, Committed
<1>4. Fits(Again(t), Len(obj), Len(occ)) /\ Fits(NextEntry(Top(t)), Len(obj), Len(occ))
  BY <1>1, <1>2, NextEntryFits DEF Again, CallType, Fits, Aimed
<1>5. \A f \in {NextEntry(Top(t)), Again(t)} : Fits(f, Len(obj), Len(occ'))
  BY <1>3, <1>4, CommittedTypes
<1>6. /\ obj' \in Seq(InstanceType) /\ Len(obj') = Len(obj)
      /\ \A i \in DOMAIN obj' : MarkerFits(obj'[i].stalled, Len(occ))
  BY <1>3 DEF TypeInv, Types, References
<1> QED BY <1>1, <1>3, <1>5, <1>6, CommitKeeps

(* TypeInv is kept by restore_faulted_stage. *)
LEMMA RestoreTypes ==
    ASSUME TypeInv, NEW t \in Threads, ResumeRestore(t) PROVE TypeInv'
<1>1. /\ stack[t] # << >> /\ Top(t).k = "resume" /\ Restores(t) /\ UNCHANGED <<cur, disk, owed, occ, up>>
  BY RestoreCalls DEF ResumeRestore, At
<1>2. PICK o \in InstanceType : o = Restored(obj[Top(t).inst]) /\ o.stalled = obj[Top(t).inst].stalled
  BY <1>1 DEF Restores
<1>3. Top(t) \in CallType /\ Fits(Top(t), Len(obj), Len(occ))
  BY <1>1, TopKnown
<1>4. Fits(Restoring(t), Len(obj), Len(occ))
  <2>1. PICK g : g = [Top(t) EXCEPT !.at = "store", !.copy = RowOf(o, NoMarker)]
    OBVIOUS
  <2>2. g.k = "resume" /\ g.inst = Top(t).inst /\ g.copy = RowOf(o, NoMarker)
    BY <1>1, <1>3, <2>1 DEF CallType
  <2>3. g.copy.marker = NoMarker
    BY <2>2, RowTypes, NothingTypes
  <2>4. Fits(g, Len(obj), Len(occ))
    BY <1>1, <1>3, <2>2, <2>3 DEF Fits
  <2> QED BY <1>2, <2>1, <2>4 DEF Restoring
<1>5. /\ Top(t).inst \in DOMAIN obj /\ obj' = [obj EXCEPT ![Top(t).inst] = o]
      /\ Calls({Restoring(t)})
  BY <1>1, <1>2 DEF Restores
<1> QED BY <1>1, <1>2, <1>4, <1>5, SavingKeeps DEF Committed

(* TypeInv is kept by redrive_outbox!. *)
LEMMA BootRowTypes ==
    ASSUME TypeInv, NEW t \in Threads, BootRow(t) PROVE TypeInv'
<1>1. stack[t] # << >> /\ Top(t).k = "boot" /\ UNCHANGED <<cur, obj, disk, owed, occ, up>>
  BY DEF BootRow, At
<1>2. Top(t) \in CallType /\ Fits(Top(t), Len(obj), Len(occ)) /\ Len(obj) \in Nat /\ Len(occ) \in Nat
  BY <1>1, TopKnown DEF TypeInv, Types
<1>3. CASE Calls({Goto(t, "sagas")})
  BY <1>1, <1>3, FitsGoto, QuietTypes DEF TypeInv, Types, References, Steps
<1>4. ASSUME NEW ev \in 1..Len(occ), Calls({[Top(t) EXCEPT !.todo = @ \ {ev}], Adv(ev)})
      PROVE  TypeInv'
  <2>1. Fits(Adv(ev), Len(obj), Len(occ))
    BY <1>2, AdvTypes
  <2>2. Fits([Top(t) EXCEPT !.todo = @ \ {ev}], Len(obj), Len(occ))
    BY <1>1, <1>2 DEF Fits, CallType
  <2> QED BY <1>1, <1>4, <2>1, <2>2, QuietTypes DEF TypeInv, Types, References
<1> QED BY <1>3, <1>4, RowCalls

(* TypeInv is kept by redrive_sagas!. *)
LEMMA RedriveTypes ==
    ASSUME TypeInv, NEW t \in Threads, RedriveSaga(t) PROVE TypeInv'
<1>1. UNCHANGED <<cur, owed, occ, up>>
  BY DEF RedriveSaga
<1>2. CASE Calls({}) /\ UNCHANGED <<obj, disk, reported>>
  BY <1>1, <1>2, QuietTypes DEF TypeInv, Types, References
<1>3. ASSUME cur \in DOMAIN obj, obj[cur].stalled # NoMarker,
             obj' = [obj EXCEPT ![cur].stalled = NoMarker],
             Reports(t) \/ \E h \in Handlers : Resumes(t, h)
      PROVE  TypeInv'
  <2>1. obj[cur] \in InstanceType /\ cur \in Nat /\ Len(obj) \in Nat /\ Len(occ) \in Nat
        /\ cur \in 1..Len(obj)
    BY <1>3 DEF TypeInv, Types
  <2>2. PICK m \in MarkerType : m = obj[cur].stalled
    BY <2>1 DEF InstanceType
  <2>3. m.ev \in 1..Len(occ) /\ m.ev \in Nat /\ m.settled \in Nat /\ m.settled + 1 \in Nat /\ m.on \in Triggers
    BY <1>3, <2>2 DEF TypeInv, References, MarkerFits, MarkerType, Triggers
  <2>4. PICK o \in InstanceType : o = [obj[cur] EXCEPT !.stalled = NoMarker] /\ o.stalled = NoMarker
    <3>1. PICK i \in InstanceType : i = obj[cur]
      BY <2>1
    <3>2. [i EXCEPT !.stalled = NoMarker] \in InstanceType /\ [i EXCEPT !.stalled = NoMarker].stalled = NoMarker
      BY NothingTypes DEF InstanceType
    <3> QED BY <3>1, <3>2
  <2>5. obj' = [obj EXCEPT ![cur] = o]
    BY <1>3, <2>1, <2>4 DEF TypeInv, Types, InstanceType
  <2>6. /\ obj' \in Seq(InstanceType) /\ Len(obj') = Len(obj) /\ obj'[cur] = o
        /\ \A i \in DOMAIN obj' : MarkerFits(obj'[i].stalled, Len(occ))
    BY <1>3, <2>4, <2>5, ObjFits
  <2>7. ASSUME NEW h \in Handlers
        PROVE  LET f == Leg(m.on, m.ev, h, cur, m.settled + 1) IN
               /\ f \in CallType /\ Fits(f, Len(obj), Len(occ))
               /\ MarkerOf(f, m.settled, TRUE) \in MarkerType
               /\ MarkerFits(MarkerOf(f, m.settled, TRUE), Len(occ))
    <3>1. PICK f \in CallType : /\ f = Leg(m.on, m.ev, h, cur, m.settled + 1) /\ f.ev = m.ev
                                /\ Fits(f, Len(obj), Len(occ))
      <4>1. PICK k \in Nat, on \in Triggers, ev \in Nat :
               k = m.settled + 1 /\ on = m.on /\ ev = m.ev /\ ev \in 1..Len(occ)
        BY <2>3
      <4>2. /\ Leg(on, ev, h, cur, k) \in CallType /\ Leg(on, ev, h, cur, k).ev = ev
            /\ Fits(Leg(on, ev, h, cur, k), Len(obj), Len(occ))
        <5>1. PICK a \in Nat, b \in Nat, c \in Nat :
                 a = Len(obj) /\ b = Len(occ) /\ c = cur /\ ev \in 1..b /\ c \in 1..a
          BY <2>1, <4>1
        <5>2. /\ Leg(on, ev, h, c, k) \in CallType /\ Leg(on, ev, h, c, k).ev = ev
              /\ Fits(Leg(on, ev, h, c, k), a, b)
          BY <5>1, LegTypes
        <5> QED BY <5>1, <5>2
      <4> QED BY <4>1, <4>2
    <3> QED BY <2>3, <3>1, MarkerTypes
  <2>8. disk' \in RowType /\ MarkerFits(disk'.marker, Len(occ))
    <3>1. CASE UNCHANGED disk
      BY <3>1 DEF TypeInv, Types, References
    <3>2. ASSUME NEW h \in Handlers,
                 disk' = RowOf(obj'[cur], MarkerOf(Leg(m.on, m.ev, h, cur, m.settled + 1),
                                                   m.settled, TRUE))
          PROVE  disk' \in RowType /\ MarkerFits(disk'.marker, Len(occ))
      BY <2>6, <2>7, <3>2, RowTypes
    <3> QED BY <1>3, <2>2, <3>1, <3>2 DEF Reports, Resumes
  <2>9. \E F : Calls(F) /\ \A f \in F : Fits(f, Len(obj), Len(occ))
    <3>1. CASE Reports(t)
      BY <3>1 DEF Reports
    <3>2. ASSUME NEW h \in Handlers, Resumes(t, h)
          PROVE  \E F : Calls(F) /\ \A f \in F : Fits(f, Len(obj), Len(occ))
      <4>1. Calls({Leg(m.on, m.ev, h, cur, m.settled + 1)})
        BY <2>2, <3>2 DEF Resumes
      <4>2. \A f \in {Leg(m.on, m.ev, h, cur, m.settled + 1)} : Fits(f, Len(obj), Len(occ))
        BY <2>7
      <4> QED BY <4>1, <4>2
    <3> QED BY <1>3, <3>1, <3>2
  <2>10. PICK F : Calls(F) /\ \A f \in F : Fits(f, Len(obj), Len(occ))
    BY <2>9
  <2>11. /\ cur' \in 0..Len(obj') /\ Len(obj') >= Len(obj) /\ occ' \in Seq(Events)
         /\ Len(occ') >= Len(occ) /\ owed' \subseteq 1..Len(occ') /\ up' \in BOOLEAN
    BY <1>1, <2>6 DEF TypeInv, Types
  <2> QED BY <1>1, <2>6, <2>8, <2>10, <2>11, TypesFrom
<1> QED BY <1>2, <1>3, RedriveCalls

(* TypeInv is kept by a boot or a caller's commit. *)
LEMMA OutsideTypes ==
    ASSUME TypeInv, Down, NEW t \in Threads, Boot(t) \/ \E e \in Entry : Enter(t, e)
    PROVE  TypeInv'
<1>0. Len(obj) \in Nat /\ Len(occ) \in Nat /\ occ \in Seq(Events) /\ owed \subseteq 1..Len(occ)
  BY DEF TypeInv, Types
<1>1. ASSUME NEW e \in Entry, Enter(t, e) PROVE TypeInv'
  <2>1. UNCHANGED <<cur, obj, disk, up>> /\ occ' = Append(occ, e) /\ owed' = owed \cup {NextOcc}
    BY <1>1 DEF Enter
  <2>2. Calls({Adv(NextOcc)}) /\ e \in Events
    BY <1>1, EnterCalls
  <2>3. occ' \in Seq(Events) /\ Len(occ') = Len(occ) + 1 /\ NextOcc = Len(occ) + 1
    BY <1>0, <2>1, <2>2 DEF NextOcc
  <2>4. NextOcc \in Nat /\ NextOcc \in 1..Len(occ') /\ owed' \subseteq 1..Len(occ') /\ Len(occ') >= Len(occ)
        /\ Len(occ') \in Nat
    BY <1>0, <2>1, <2>3, OneMore
  <2>5. Fits(Adv(NextOcc), Len(obj'), Len(occ'))
    BY <1>0, <2>1, <2>4, AdvTypes
  <2>6. /\ MarkerFits(disk'.marker, Len(occ'))
        /\ \A i \in DOMAIN obj' : MarkerFits(obj'[i].stalled, Len(occ'))
    BY <1>0, <2>1, <2>4, MarkersLast DEF TypeInv, References
  <2>7. /\ obj' \in Seq(InstanceType) /\ Len(obj') >= Len(obj) /\ cur' \in 0..Len(obj')
        /\ disk' \in RowType /\ up' \in BOOLEAN
    BY <2>1 DEF TypeInv, Types
  <2> QED BY <2>2, <2>3, <2>4, <2>5, <2>6, <2>7, TypesFrom
<1>3. CASE Boot(t)
  <2>1. Calls({BootCall(owed)}) /\ UNCHANGED <<disk, owed, occ>> /\ up' = TRUE
    BY <1>3, BootCalls DEF Boot
  <2>2. PICK o : o = Instance(disk.state, disk.faulted, disk.ledger, disk.marker)
    OBVIOUS
  <2>3. o \in InstanceType /\ o.stalled = disk.marker /\ MarkerFits(disk.marker, Len(occ))
    BY <2>2, InstanceTypes DEF TypeInv, Types, References, RowType, Instance
  <2>4. (obj' = <<o>> /\ cur' = 1) \/ (obj' = << >> /\ cur' = 0)
    BY <1>3, <2>2 DEF Boot
  <2>5. /\ obj' \in Seq(InstanceType) /\ cur' \in 0..Len(obj')
        /\ \A j \in DOMAIN obj' : obj'[j] = o
    <3>1. << >> \in Seq(InstanceType) /\ <<o>> \in Seq(InstanceType) /\ Len(<<o>>) = 1 /\ <<o>>[1] = o
          /\ DOMAIN <<o>> = {1} /\ Len(<< >>) = 0
      BY <2>3
    <3>2. CASE obj' = <<o>> /\ cur' = 1
      BY <3>1, <3>2
    <3>3. CASE obj' = << >> /\ cur' = 0
      <4>1. Len(obj') = 0 /\ DOMAIN obj' = {}
        BY <3>3
      <4> QED BY <3>1, <3>3, <4>1
    <3> QED BY <2>4, <3>2, <3>3
  <2>6. Types'
    BY <2>1, <2>5 DEF Types, TypeInv, Calls
  <2>7. \A f : ~Known(f)
    BY <1>3 DEF Down, Known, Boot
  <2>8. Fits(BootCall(owed), Len(obj'), Len(occ))
    BY <1>0, <2>5, BootTypes
  <2>9. References'
    BY <2>1, <2>3, <2>5, <2>7, <2>8 DEF References, Calls
  <2> QED BY <2>6, <2>9 DEF TypeInv
<1> QED BY <1>1, <1>3

(* TypeInv is kept by a process that is gone, with a well-typed row left. *)
LEMMA GoneTypes ==
    ASSUME TypeInv, Gone, UNCHANGED <<occ, owed>>, disk' \in RowType,
           MarkerFits(disk'.marker, Len(occ))
    PROVE  TypeInv' /\ Down'
<1>1. /\ \A u \in Threads : stack'[u] = << >>
      /\ stack' \in [Threads -> Seq(CallType)]
  BY GoneCalls DEF Calls
<1>2. Types'
  <2>1. obj' = << >> /\ cur' = 0 /\ up' = FALSE
    BY DEF Gone
  <2>2. obj' \in Seq(InstanceType) /\ cur' \in 0..Len(obj')
    BY <2>1
  <2> QED BY <1>1, <2>1, <2>2 DEF TypeInv, Types
<1>3. References'
  BY <1>1 DEF Gone, References
<1> QED BY <1>1, <1>2, <1>3 DEF TypeInv, Down

(* TypeInv is kept by a death. *)
LEMMA CrashTypes ==
    ASSUME TypeInv, Crash PROVE TypeInv' /\ Down'
BY GoneTypes DEF Crash, TypeInv, Types, References

(* TypeInv is kept by a boot that a raise ends. *)
LEMMA BootRaisedTypes ==
    ASSUME TypeInv, NEW t \in Threads, BootRaised(t) PROVE TypeInv' /\ Down'
<1>1. /\ stack[t] # << >> /\ Top(t).k = "leg"
      /\ WriteIfLive(Top(t), MarkerOf(Top(t), Top(t).i - 1, TRUE))
      /\ Gone /\ UNCHANGED <<owed, occ>>
  BY DEF BootRaised, At
<1>2. Top(t) \in CallType /\ Top(t).inst \in DOMAIN obj /\ Top(t).ev \in 1..Len(occ)
      /\ Top(t).i - 1 \in Nat
  BY <1>1, LegTop
<1>3. /\ MarkerOf(Top(t), Top(t).i - 1, TRUE) \in MarkerType
      /\ MarkerFits(MarkerOf(Top(t), Top(t).i - 1, TRUE), Len(occ))
  BY <1>2, MarkerTypes
<1>4. disk' \in RowType /\ MarkerFits(disk'.marker, Len(occ))
  BY <1>1, <1>2, <1>3, DiskWritten
<1> QED BY <1>1, <1>4, GoneTypes

(* Every step is the innermost call's. *)
LEMMA StepAt ==
    ASSUME NEW t \in Threads, Step(t)
    PROVE  \E k, at : At(t, k, at)
BY DEF Step, ClaimEvent, BeginSaga, AdvanceSaga, EndSaga, StartDispatch, StartRaised,
   BootRaised, RecordCompensation, SendDelivered, SendSkipped, SendRefused, SendRaised,
   SendLost, Unwind, SettleDispatch, FinishLeg, SaveCopy, Draining, DrainDone, Drain,
   Compensate, CompensationFails, CompensationRaised, CompensateLost, BootRow, RedriveSaga,
   ResumeRestore, ResumeStore

(* No step but a boot's raise ends the process. *)
LEMMA StepUp ==
    ASSUME NEW t \in Threads, Step(t), ~BootRaised(t)
    PROVE  up' = up
<1>1. ClaimEvent(t) \/ BeginSaga(t) \/ EndSaga(t) \/ StartDispatch(t) \/ StartRaised(t)
      \/ RecordCompensation(t) \/ SendSkipped(t) \/ SendRefused(t) \/ SendRaised(t)
      \/ SettleDispatch(t) \/ FinishLeg(t) \/ SaveCopy(t) => up' = up
  BY DEF ClaimEvent, BeginSaga, EndSaga, StartDispatch, StartRaised, RecordCompensation,
     SendSkipped, SendRefused, SendRaised, SettleDispatch, FinishLeg, SaveCopy
<1>2. AdvanceSaga(t) \/ SendDelivered(t) \/ SendLost(t) \/ Unwind(t) => up' = up
  BY DEF AdvanceSaga, SendDelivered, SendLost, Unwind
<1>3. DrainDone(t) \/ Drain(t) \/ Compensate(t) \/ CompensationFails(t) \/ CompensationRaised(t)
      \/ CompensateLost(t) => up' = up
  BY DEF DrainDone, Drain, Compensate, CompensationFails, CompensationRaised, CompensateLost
<1>4. BootRow(t) \/ RedriveSaga(t) \/ ResumeRestore(t) \/ ResumeStore(t) => up' = up
  BY DEF BootRow, RedriveSaga, ResumeRestore, ResumeStore
<1> QED BY <1>1, <1>2, <1>3, <1>4 DEF Step

(* Every step keeps the types. *)
LEMMA TypeStep == TypeInv /\ Down /\ [Next]_vars => TypeInv' /\ Down'
<1> SUFFICES ASSUME TypeInv, Down, [Next]_vars PROVE TypeInv' /\ Down'
  OBVIOUS
<1>1. ASSUME NEW t \in Threads, Step(t) PROVE TypeInv' /\ Down'
  <2>1. TypeInv'
    BY <1>1, ClaimTypes, BeginTypes, AdvanceTypes, EndTypes, StartTypes, RaisedTypes,
       BootRaisedTypes, RecordTypes, DeliveredTypes, SkippedTypes, FailedTypes, UnwindTypes,
       SettleTypes, FinishTypes, SaveTypes, DrainedTypes, DrainTypes, CompensateTypes,
       UncompensatedTypes, BootRowTypes, RedriveTypes, RestoreTypes, StoreTypes
       DEF Step
  <2>2. up
    BY <1>1, StepAt DEF At
  <2>3. CASE BootRaised(t)
    BY <2>3, BootRaisedTypes
  <2>4. CASE ~BootRaised(t)
    <3>1. up'
      BY <1>1, <2>2, <2>4, StepUp
    <3> QED BY <2>1, <3>1 DEF Down
  <2> QED BY <2>3, <2>4
<1>2. ASSUME NEW t \in Threads, Boot(t) \/ Resume(t) \/ \E e \in Entry : Enter(t, e)
      PROVE  TypeInv' /\ up'
  <2>1. TypeInv'
    BY <1>2, OutsideTypes, ResumeTypes
  <2>2. up'
    BY <1>2 DEF Boot, Resume, Enter
  <2> QED BY <2>1, <2>2
<1>3. CASE Crash
  BY <1>3, CrashTypes
<1>4. CASE UNCHANGED vars
  BY <1>4 DEF vars, TypeInv, Types, References, Down
<1> QED BY <1>1, <1>2, <1>3, <1>4 DEF Next, Down

(* They hold at first. *)
LEMMA TypeStart == Init => TypeInv /\ Down
<1> SUFFICES ASSUME Init PROVE TypeInv /\ Down
  OBVIOUS
<1>1. Types
  BY NothingTypes DEF Init, Types
<1>2. References
  BY DEF Init, References, MarkerFits, NoRow
<1> QED BY <1>1, <1>2 DEF TypeInv, Down, Init

(* Every behaviour of the saga keeps its calls, instances and row in their   *)
(* types, and no call or marker outlives the instance or event it names.     *)
THEOREM TypeCorrect == Spec => []TypeInv
BY TypeStart, TypeStep, PTL DEF Spec

----------------------------------------------------------------------------
(* Where instances, the row and the copies in flight come from. *)

Changed(o, p) ==
    \/ p = o
    \/ \E h \in Handlers : h.from = o.state /\ p = Moved(o, h)
    \/ p = Restored(o)
    \/ \E e \in EntryType, c \in Commands : CompOf[c] # None /\ p = Recorded(o, e)
    \/ p = Popped(o)
    \/ p = [o EXCEPT !.stalled = NoMarker]

Newborn == Instance(First, None, << >>, NoMarker)
Rehydrated == Instance(disk.state, disk.faulted, disk.ledger, disk.marker)

InstancesFrom ==
    \A j \in DOMAIN obj' : \/ j \in DOMAIN obj /\ Changed(obj[j], obj'[j])
                           \/ obj'[j] \in {Newborn, Rehydrated}
CopyFrom(c) ==
    \/ c = NoRow
    \/ \E g \in CallType : Known(g) /\ c = g.copy
    \/ \E j \in DOMAIN obj' : c = RowOf(obj'[j], NoMarker)
RowFrom(d) ==
    \/ d \in {disk, NoRow}
    \/ \E g \in CallType : Known(g) /\ d = g.copy
    \/ \E j \in DOMAIN obj', m \in MarkerType : d = RowOf(obj'[j], m)
    \/ \E j \in DOMAIN obj, m \in MarkerType : d = RowOf(obj[j], m)
DataStep ==
    /\ InstancesFrom /\ RowFrom(disk')
    /\ \A u \in Threads : \A j \in DOMAIN stack'[u] : CopyFrom(stack'[u][j].copy)

(* The copies after a step are earlier ones or those of the calls it adds. *)
LEMMA CopiesFrom ==
    ASSUME TypeInv, NEW F, Calls(F), \A f \in F : CopyFrom(f.copy)
    PROVE  \A u \in Threads : \A j \in DOMAIN stack'[u] : CopyFrom(stack'[u][j].copy)
<1>1. \A f : Known(f) => f \in CallType
  BY DEF Known, TypeInv, Types
<1> QED BY <1>1 DEF Calls, CopyFrom

(* A call that only moves on keeps its copy. *)
LEMMA GotoCopy ==
    ASSUME TypeInv, NEW t \in Threads, stack[t] # << >>, NEW at
    PROVE  CopyFrom(Goto(t, at).copy)
<1>1. Top(t) \in CallType /\ Known(Top(t))
  BY TopKnown
<1>2. Goto(t, at).copy = Top(t).copy
  BY <1>1 DEF Goto, CallType
<1> QED BY <1>1, <1>2 DEF CopyFrom

(* A new call holds no copy. *)
LEMMA FreshCopy ==
    /\ \A ev : CopyFrom(Adv(ev).copy)
    /\ \A on, ev, h, j, i : CopyFrom(Leg(on, ev, h, j, i).copy)
    /\ \A R : CopyFrom(BootCall(R).copy)
    /\ CopyFrom(ResumeCall.copy)
BY DEF Adv, Leg, BootCall, ResumeCall, Call, CopyFrom

(* Unchanged instances come from instances. *)
LEMMA SameInstances ==
    ASSUME UNCHANGED obj PROVE InstancesFrom
BY DEF InstancesFrom, Changed

(* Changing one instance the way the code does leaves the others. *)
LEMMA OneChanged ==
    ASSUME TypeInv, NEW j \in DOMAIN obj, NEW p, Changed(obj[j], p), obj' = [obj EXCEPT ![j] = p]
    PROVE  InstancesFrom
<1>1. obj \in Seq(InstanceType)
  BY DEF TypeInv, Types
<1>2. ASSUME NEW i \in DOMAIN obj' PROVE i \in DOMAIN obj /\ Changed(obj[i], obj'[i])
  <2>1. i \in DOMAIN obj
    BY <1>1, <1>2
  <2>2. CASE i = j
    BY <1>1, <2>2
  <2>3. CASE i # j
    BY <2>1, <2>3 DEF Changed
  <2> QED BY <2>1, <2>2, <2>3
<1> QED BY <1>2 DEF InstancesFrom

(* A write guarded by the live instance is a row of an instance. *)
LEMMA LiveRow ==
    ASSUME TypeInv, NEW f \in CallType, f.inst \in DOMAIN obj, NEW m \in MarkerType,
           WriteIfLive(f, m)
    PROVE  RowFrom(disk')
BY DEF WriteIfLive, RowFrom

(* Where an advance's row and instances come from. *)
LEMMA AdvData ==
    ASSUME TypeInv, NEW t \in Threads,
           ClaimEvent(t) \/ BeginSaga(t) \/ AdvanceSaga(t) \/ EndSaga(t)
    PROVE  DataStep
<1>0. stack[t] # << >>
  BY DEF ClaimEvent, BeginSaga, AdvanceSaga, EndSaga, At
<1>1. CASE ClaimEvent(t)
  <2>1. UNCHANGED <<obj, disk>>
    BY <1>1 DEF ClaimEvent
  <2> QED BY <1>0, <1>1, <2>1, ClaimCalls, CopiesFrom, GotoCopy, SameInstances DEF DataStep, RowFrom
<1>2. CASE BeginSaga(t)
  <2>1. \A u \in Threads : \A j \in DOMAIN stack'[u] : CopyFrom(stack'[u][j].copy)
    BY <1>0, <1>2, BeginCalls, CopiesFrom, GotoCopy
  <2>2. CASE UNCHANGED <<cur, obj, disk>>
    BY <2>1, <2>2, SameInstances DEF DataStep, RowFrom
  <2>3. CASE /\ cur' = Len(obj) + 1 /\ obj' = Append(obj, Newborn)
             /\ disk' = RowOf(obj'[cur'], NoMarker)
    <3>1. /\ cur' \in DOMAIN obj'
          /\ \A j \in DOMAIN obj' : obj'[j] = Newborn \/ (j \in DOMAIN obj /\ obj'[j] = obj[j])
      BY <2>3 DEF TypeInv, Types
    <3>2. RowFrom(disk')
      BY <2>3, <3>1, NothingTypes DEF RowFrom
    <3>3. InstancesFrom
      BY <3>1 DEF InstancesFrom, Changed
    <3> QED BY <2>1, <3>2, <3>3 DEF DataStep
  <2> QED BY <1>2, <2>2, <2>3 DEF BeginSaga, Newborn
<1>3. CASE AdvanceSaga(t)
  <2>1. CASE Calls({Goto(t, "end")}) /\ UNCHANGED <<obj, disk, taken>>
    BY <1>0, <2>1, CopiesFrom, GotoCopy, SameInstances DEF DataStep, RowFrom
  <2>2. ASSUME NEW h \in Handlers, TakesLeg(t, h) PROVE DataStep
    <3>1. \A u \in Threads : \A j \in DOMAIN stack'[u] : CopyFrom(stack'[u][j].copy)
      BY <1>0, <2>2, CopiesFrom, GotoCopy, FreshCopy DEF TakesLeg
    <3>2. cur \in DOMAIN obj /\ obj' = [obj EXCEPT ![cur] = Moved(obj[cur], h)] /\ h.from = obj[cur].state
      BY <2>2 DEF TakesLeg
    <3>3. InstancesFrom
      BY <3>2, OneChanged DEF Changed
    <3>4. PICK leg \in CallType : leg = Leg(h.on, Top(t).ev, h, cur, 0) /\ leg.ev \in 1..Len(occ)
      <4>1. Top(t) \in CallType /\ Top(t).ev \in 1..Len(occ) /\ Top(t).ev \in Nat
        BY <1>0, <1>3, TopKnown DEF AdvanceSaga, At, Fits, CallType
      <4>2. Leg(h.on, Top(t).ev, h, cur, 0) \in CallType
        BY <2>2 DEF TakesLeg
      <4>3. Leg(h.on, Top(t).ev, h, cur, 0).ev = Top(t).ev
        BY DEF Leg, Call
      <4> QED BY <4>1, <4>2, <4>3
    <3>5. MarkerOf(leg, 0, FALSE) \in MarkerType
      BY <3>4, MarkerTypes
    <3>6. disk' = RowOf(obj'[cur], MarkerOf(leg, 0, FALSE)) /\ cur \in DOMAIN obj'
      BY <2>2, <3>2, <3>4 DEF TakesLeg
    <3> QED BY <3>1, <3>3, <3>5, <3>6 DEF DataStep, RowFrom
  <2> QED BY <1>3, <2>1, <2>2, AdvanceCalls
<1>4. CASE EndSaga(t)
  <2>1. UNCHANGED obj /\ disk' \in {disk, NoRow}
    BY <1>4 DEF EndSaga
  <2> QED BY <1>4, <2>1, EndCalls, CopiesFrom, SameInstances DEF DataStep, RowFrom
<1> QED BY <1>1, <1>2, <1>3, <1>4

(* Where the row of record_progress and clear_pending_marker comes from. *)
LEMMA MarkingData ==
    ASSUME TypeInv, NEW t \in Threads,
           StartDispatch(t) \/ StartRaised(t) \/ SettleDispatch(t) \/ FinishLeg(t)
    PROVE  DataStep
<1>1. stack[t] # << >> /\ Top(t).k = "leg" /\ UNCHANGED obj
  BY DEF StartDispatch, StartRaised, SettleDispatch, FinishLeg, At
<1>2. /\ Top(t) \in CallType /\ Top(t).inst \in DOMAIN obj /\ Top(t).ev \in 1..Len(occ)
      /\ Top(t).i \in Nat /\ Top(t).i - 1 \in Nat
  BY <1>1, LegTop
<1>3. \E m \in MarkerType : WriteIfLive(Top(t), m)
  <2>1. CASE StartDispatch(t) \/ StartRaised(t)
    BY <1>2, <2>1, MarkerTypes DEF StartDispatch, StartRaised
  <2>2. CASE SettleDispatch(t)
    BY <1>2, <2>2, MarkerTypes DEF SettleDispatch
  <2>3. CASE FinishLeg(t)
    BY <2>3, NothingTypes DEF FinishLeg
  <2> QED BY <2>1, <2>2, <2>3
<1>4. RowFrom(disk')
  BY <1>1, <1>2, <1>3, LiveRow
<1>5. CopyFrom(SettledCall(t).copy)
  <2>1. SettledCall(t).copy = Top(t).copy
    BY <1>2 DEF SettledCall, Goto, CallType
  <2> QED BY <1>1, <1>2, <2>1, TopKnown DEF CopyFrom
<1>6. \A u \in Threads : \A j \in DOMAIN stack'[u] : CopyFrom(stack'[u][j].copy)
  BY <1>1, <1>5, StartCalls, RaisedCalls, SettleCalls, FinishCalls, CopiesFrom, GotoCopy
<1> QED BY <1>1, <1>4, <1>6, SameInstances DEF DataStep

(* Where the row that a boot's raise leaves comes from. *)
LEMMA BootRaisedData ==
    ASSUME TypeInv, NEW t \in Threads, BootRaised(t)
    PROVE  DataStep
<1>1. /\ stack[t] # << >> /\ Top(t).k = "leg" /\ Gone
      /\ WriteIfLive(Top(t), MarkerOf(Top(t), Top(t).i - 1, TRUE))
  BY DEF BootRaised, At
<1>2. /\ Top(t) \in CallType /\ Top(t).inst \in DOMAIN obj /\ Top(t).ev \in 1..Len(occ)
      /\ Top(t).i - 1 \in Nat
  BY <1>1, LegTop
<1>3. RowFrom(disk')
  BY <1>1, <1>2, MarkerTypes, LiveRow
<1>4. InstancesFrom
  BY <1>1 DEF Gone, InstancesFrom
<1> QED BY <1>1, <1>3, <1>4, GoneCalls DEF DataStep

(* A saved copy is of an instance as the step leaves it. *)
LEMMA SavingCopy ==
    ASSUME NEW f \in CallType, NEW next, NEW j \in DOMAIN obj'
    PROVE  CopyFrom(Saving(obj'[j], f, next).copy)
<1>1. Saving(obj'[j], f, next).copy = RowOf(obj'[j], NoMarker)
  BY DEF Saving, CallType
<1> QED BY <1>1 DEF CopyFrom

(* Where the copies, and the rows written from them, come from. *)
LEMMA CopyingData ==
    ASSUME TypeInv, NEW t \in Threads,
           \/ SaveCopy(t) \/ RecordCompensation(t) \/ DrainDone(t)
           \/ SendRefused(t) \/ SendRaised(t) \/ SendLost(t)
    PROVE  DataStep
<1>0. stack[t] # << >> /\ Top(t).k = "leg"
  BY DEF SaveCopy, RecordCompensation, SendRefused, SendRaised, SendLost, DrainDone, Draining, At
<1>a. /\ Top(t) \in CallType /\ Known(Top(t)) /\ Top(t).inst \in DOMAIN obj
      /\ obj \in Seq(InstanceType)
  BY <1>0, TopKnown, LegTop
<1>1. CASE SaveCopy(t)
  <2>1. UNCHANGED obj /\ disk' = Top(t).copy
    BY <1>1 DEF SaveCopy
  <2>2. [Top(t) EXCEPT !.at = Top(t).then, !.copy = NoRow, !.then = "start"].copy = NoRow
    BY <1>a DEF CallType
  <2>3. \A u \in Threads : \A j \in DOMAIN stack'[u] : CopyFrom(stack'[u][j].copy)
    BY <1>1, <2>2, SaveCalls, CopiesFrom DEF CopyFrom
  <2> QED BY <1>a, <2>1, <2>3, SameInstances DEF DataStep, RowFrom
<1>2. CASE RecordCompensation(t)
  <2>1. UNCHANGED disk
    BY <1>2 DEF RecordCompensation
  <2>2. CASE Calls({Goto(t, "send")}) /\ UNCHANGED obj
    BY <1>0, <2>1, <2>2, CopiesFrom, GotoCopy, SameInstances DEF DataStep, RowFrom
  <2>3. CASE Records(t)
    <3>1. PICK o : o = Recorded(obj[Top(t).inst], EntryOf(Top(t)))
      OBVIOUS
    <3>2. obj' = [obj EXCEPT ![Top(t).inst] = o] /\ Top(t).inst \in DOMAIN obj'
      BY <1>a, <2>3, <3>1 DEF Records
    <3>3. Changed(obj[Top(t).inst], o)
      <4>1. Top(t).at = "record" /\ Fits(Top(t), Len(obj), Len(occ))
        BY <1>0, <1>2, TopKnown DEF RecordCompensation, At
      <4>2. Top(t).i >= 1 /\ Top(t).i <= Len(Top(t).h.does)
        BY <1>0, <4>1 DEF Fits, Aimed
      <4>3. Top(t).h.does \in Seq(Commands) /\ Top(t).i \in Nat
        BY <1>a DEF CallType, HandlerType
      <4>4. CommandAt(Top(t)) \in Commands
        BY <4>2, <4>3 DEF CommandAt
      <4>5. EntryOf(Top(t)) \in EntryType /\ CompOf[CommandAt(Top(t))] # None
        <5>1. CompOf[CommandAt(Top(t))] # None
          BY <2>3 DEF Records
        <5>2. CompOf[CommandAt(Top(t))] \in Compensations
          BY <4>4, <5>1 DEF Compensations
        <5> QED BY <1>a, <5>1, <5>2 DEF EntryOf, EntryType, CallType
      <4> QED BY <3>1, <4>4, <4>5 DEF Changed
    <3>4. InstancesFrom
      BY <1>a, <3>2, <3>3, OneChanged
    <3>5. [Top(t) EXCEPT !.rec = TRUE] \in CallType
      BY <1>a DEF CallType
    <3>6. \A u \in Threads : \A j \in DOMAIN stack'[u] : CopyFrom(stack'[u][j].copy)
      BY <2>3, <3>2, <3>5, SavingCopy, CopiesFrom DEF Records
    <3> QED BY <2>1, <3>4, <3>6 DEF DataStep, RowFrom
  <2> QED BY <1>2, <2>2, <2>3, RecordCalls
<1>3. CASE SendRefused(t) \/ SendRaised(t) \/ SendLost(t)
  <2>1. UNCHANGED disk
    BY <1>3 DEF SendRefused, SendRaised, SendLost
  <2>2. PICK n \in Nat, next \in {"record", "unwind"} : Fails(t, n, next)
    BY <1>3, FailedCalls
  <2>3. PICK f \in CallType : f = Tried(t, n) /\ f.copy = Top(t).copy /\ f.inst = Top(t).inst
    <3>1. PICK g \in CallType : g = Top(t)
      BY <1>a
    <3>2. PICK f : f = [g EXCEPT !.tries = n]
      OBVIOUS
    <3>3. f \in CallType /\ f.copy = g.copy /\ f.inst = g.inst
      BY <3>1, <3>2 DEF CallType
    <3> QED BY <3>1, <3>2, <3>3 DEF Tried
  <2>4. CASE Calls({[f EXCEPT !.at = next]}) /\ UNCHANGED obj
    <3>1. CopyFrom([f EXCEPT !.at = next].copy)
      <4>1. [f EXCEPT !.at = next].copy = f.copy
        BY DEF CallType
      <4> QED BY <1>a, <2>3, <4>1 DEF CopyFrom
    <3> QED BY <2>1, <2>4, <3>1, CopiesFrom, SameInstances DEF DataStep, RowFrom
  <2>5. CASE Unrecords(t, f, next)
    <3>1. /\ f.inst \in DOMAIN obj /\ obj' = [obj EXCEPT ![f.inst] = Popped(obj[f.inst])]
          /\ f.inst \in DOMAIN obj'
      BY <2>5 DEF Unrecords
    <3>2. InstancesFrom
      BY <3>1, OneChanged DEF Changed
    <3>3. [f EXCEPT !.rec = FALSE] \in CallType
      BY DEF CallType
    <3>4. \A u \in Threads : \A j \in DOMAIN stack'[u] : CopyFrom(stack'[u][j].copy)
      BY <2>5, <3>1, <3>3, SavingCopy, CopiesFrom DEF Unrecords
    <3> QED BY <2>1, <3>2, <3>4 DEF DataStep, RowFrom
  <2> QED BY <2>2, <2>3, <2>4, <2>5 DEF Fails
<1>4. CASE DrainDone(t)
  <2>1. UNCHANGED <<obj, disk>>
    BY <1>4 DEF DrainDone
  <2>2. /\ Calls({Saving(obj'[Top(t).inst], NextEntry(Top(t)), "start")}) /\ Top(t).inst \in DOMAIN obj'
        /\ NextEntry(Top(t)) \in CallType
    BY <1>a, <1>4, <2>1, DrainedCalls
  <2> QED BY <2>1, <2>2, SavingCopy, CopiesFrom, SameInstances DEF DataStep, RowFrom
<1> QED BY <1>1, <1>2, <1>3, <1>4

(* A commit makes no copy. *)
LEMMA EmitCopies ==
    ASSUME TypeInv, NEW done, NEW reacting, CopyFrom(done.copy), CopyFrom(reacting.copy),
           Reacts(done, reacting)
    PROVE  \A u \in Threads : \A j \in DOMAIN stack'[u] : CopyFrom(stack'[u][j].copy)
<1>1. \E F : Calls(F) /\ \A f \in F : CopyFrom(f.copy)
  BY FreshCopy DEF Reacts
<1> QED BY <1>1, CopiesFrom

(* A leg that repays keeps its copy. *)
LEMMA EntryCopies ==
    ASSUME TypeInv, NEW t \in Threads, stack[t] # << >>, NEW e
    PROVE  /\ CopyFrom(NextEntry(Top(t)).copy) /\ CopyFrom(Again(t).copy)
           /\ CopyFrom([Top(t) EXCEPT !.at = "compensate", !.entry = e, !.tries = 0].copy)
<1>1. Top(t) \in CallType /\ Known(Top(t))
  BY TopKnown
<1>2. /\ NextEntry(Top(t)).copy = Top(t).copy /\ Again(t).copy = Top(t).copy
      /\ [Top(t) EXCEPT !.at = "compensate", !.entry = e, !.tries = 0].copy = Top(t).copy
  BY <1>1 DEF NextEntry, Again, CallType
<1> QED BY <1>1, <1>2 DEF CopyFrom

(* Where the row and instances of a dispatch's outcome come from. *)
LEMMA SendingData ==
    ASSUME TypeInv, NEW t \in Threads,
           \/ SendDelivered(t) \/ SendSkipped(t) \/ Unwind(t) \/ Drain(t) \/ Compensate(t)
           \/ CompensationFails(t) \/ CompensationRaised(t) \/ CompensateLost(t)
    PROVE  DataStep
<1>0. stack[t] # << >> /\ Top(t).k = "leg"
  BY DEF SendDelivered, SendSkipped, Unwind, Compensate, CompensationFails, CompensationRaised,
     CompensateLost, Drain, Draining, At
<1>1. CASE SendDelivered(t)
  <2>1. UNCHANGED <<obj, disk>>
    BY <1>1 DEF SendDelivered
  <2> QED BY <1>0, <1>1, <2>1, DeliveredCalls, GotoCopy, EmitCopies, SameInstances DEF DataStep, RowFrom
<1>2. CASE SendSkipped(t)
  <2>1. UNCHANGED <<obj, disk>>
    BY <1>2 DEF SendSkipped
  <2> QED BY <1>0, <1>2, <2>1, SkippedCalls, CopiesFrom, GotoCopy, SameInstances DEF DataStep, RowFrom
<1>3. CASE Unwind(t)
  <2>1. CASE Calls({Goto(t, "settle")}) /\ UNCHANGED <<obj, disk, taken>>
    BY <1>0, <2>1, CopiesFrom, GotoCopy, SameInstances DEF DataStep, RowFrom
  <2>2. ASSUME NEW h \in Handlers, Reverses(t, h) PROVE DataStep
    <3>1. \A u \in Threads : \A j \in DOMAIN stack'[u] : CopyFrom(stack'[u][j].copy)
      BY <1>0, <2>2, CopiesFrom, GotoCopy, FreshCopy DEF Reverses
    <3>2. /\ Top(t).inst \in DOMAIN obj /\ h.from = obj[Top(t).inst].state
          /\ obj' = [obj EXCEPT ![Top(t).inst] = Moved(obj[Top(t).inst], h)]
      BY <2>2 DEF Reverses
    <3>3. InstancesFrom
      BY <3>2, OneChanged DEF Changed
    <3>4. PICK leg \in CallType : leg = Leg(Refused, Top(t).ev, h, Top(t).inst, 0) /\ leg.ev \in 1..Len(occ)
      <4>1. Top(t).ev \in 1..Len(occ)
        BY <1>0, LegTop
      <4>2. Leg(Refused, Top(t).ev, h, Top(t).inst, 0) \in CallType
        BY <2>2 DEF Reverses
      <4>3. Leg(Refused, Top(t).ev, h, Top(t).inst, 0).ev = Top(t).ev
        BY DEF Leg, Call
      <4> QED BY <4>1, <4>2, <4>3
    <3>5. MarkerOf(leg, 0, FALSE) \in MarkerType
      BY <3>4, MarkerTypes
    <3>6. /\ disk' = RowOf(obj'[Top(t).inst], MarkerOf(leg, 0, FALSE))
          /\ Top(t).inst \in DOMAIN obj'
      BY <2>2, <3>2, <3>4 DEF Reverses
    <3> QED BY <3>1, <3>3, <3>5, <3>6 DEF DataStep, RowFrom
  <2> QED BY <1>3, <2>1, <2>2, UnwindCalls
<1>4. CASE Compensate(t) \/ CompensationFails(t) \/ CompensationRaised(t) \/ CompensateLost(t)
  <2>1. UNCHANGED <<obj, disk>>
    BY <1>4 DEF Compensate, CompensationFails, CompensationRaised, CompensateLost
  <2>2. CASE Compensate(t)
    BY <1>0, <2>1, <2>2, CompensateCalls, EntryCopies, GotoCopy, EmitCopies, SameInstances
       DEF DataStep, RowFrom
  <2>3. CASE ~Compensate(t)
    <3>1. Calls({NextEntry(Top(t)), Again(t)})
      BY <1>4, <2>3, UncompensatedCalls
    <3> QED BY <1>0, <2>1, <3>1, EntryCopies, CopiesFrom, SameInstances DEF DataStep, RowFrom
  <2> QED BY <2>2, <2>3
<1>5. CASE Drain(t)
  <2>1. Pops(t) /\ UNCHANGED disk
    BY <1>5, DrainPops DEF Drain
  <2>2. InstancesFrom
    BY <2>1, OneChanged DEF Pops, Changed
  <2>3. PICK e \in EntryType : e = Newest(obj[Top(t).inst])
    BY <2>1 DEF Pops
  <2>4. Calls({[Top(t) EXCEPT !.at = "compensate", !.entry = e, !.tries = 0]})
    BY <2>1, <2>3 DEF Pops
  <2>5. \A u \in Threads : \A j \in DOMAIN stack'[u] : CopyFrom(stack'[u][j].copy)
    BY <1>0, <2>4, EntryCopies, CopiesFrom
  <2> QED BY <2>1, <2>2, <2>5 DEF DataStep, RowFrom
<1> QED BY <1>1, <1>2, <1>3, <1>4, <1>5

(* Where the row and instances of a person's resume come from. *)
LEMMA ResumeData ==
    ASSUME TypeInv, NEW t \in Threads, Resume(t) \/ ResumeRestore(t) \/ ResumeStore(t)
    PROVE  DataStep
<1>1. CASE Resume(t)
  <2>1. UNCHANGED <<obj, disk>>
    BY <1>1 DEF Resume
  <2> QED BY <1>1, <2>1, ResumeCalls, FreshCopy, CopiesFrom, SameInstances DEF DataStep, RowFrom
<1>2. CASE ResumeRestore(t)
  <2>1. Restores(t) /\ UNCHANGED disk /\ stack[t] # << >>
    BY <1>2, RestoreCalls DEF ResumeRestore
  <2>2. Top(t).inst \in DOMAIN obj /\ obj' = [obj EXCEPT ![Top(t).inst] = Restored(obj[Top(t).inst])]
    BY <2>1 DEF Restores
  <2>3. InstancesFrom
    BY <2>2, OneChanged DEF Changed
  <2>4. CopyFrom(Restoring(t).copy)
    <3>1. Top(t) \in CallType /\ obj \in Seq(InstanceType)
      BY <2>1, TopKnown DEF TypeInv, Types
    <3>2. Top(t).inst \in DOMAIN obj' /\ obj'[Top(t).inst] = Restored(obj[Top(t).inst])
      BY <2>2, <3>1
    <3>3. Restoring(t).copy = RowOf(Restored(obj[Top(t).inst]), NoMarker)
      BY <3>1 DEF Restoring, CallType
    <3> QED BY <3>2, <3>3 DEF CopyFrom
  <2>5. \A u \in Threads : \A j \in DOMAIN stack'[u] : CopyFrom(stack'[u][j].copy)
    BY <2>1, <2>4, CopiesFrom DEF Restores
  <2> QED BY <2>1, <2>3, <2>5 DEF DataStep, RowFrom
<1>3. CASE ResumeStore(t)
  <2>1. stack[t] # << >> /\ disk' = Top(t).copy /\ Pop(t) /\ UNCHANGED obj
    BY <1>3 DEF ResumeStore, At
  <2>2. Top(t) \in CallType /\ Known(Top(t)) /\ Calls({})
    BY <2>1, TopKnown, PopCalls DEF TypeInv, Types
  <2>3. RowFrom(disk')
    BY <2>1, <2>2 DEF RowFrom
  <2> QED BY <2>1, <2>2, <2>3, CopiesFrom, SameInstances DEF DataStep
<1> QED BY <1>1, <1>2, <1>3

(* Where the row and instances of a redrive come from. *)
LEMMA BootData ==
    ASSUME TypeInv, NEW t \in Threads, BootRow(t) \/ RedriveSaga(t)
    PROVE  DataStep
<1>0. stack[t] # << >> /\ Top(t) \in CallType /\ Known(Top(t))
  BY TopKnown DEF BootRow, RedriveSaga, At
<1>1. CASE BootRow(t)
  <2>1. UNCHANGED <<obj, disk>>
    BY <1>1 DEF BootRow
  <2>2. \A ev : CopyFrom([Top(t) EXCEPT !.todo = @ \ {ev}].copy)
    BY <1>0 DEF CopyFrom, CallType
  <2>3. \A u \in Threads : \A j \in DOMAIN stack'[u] : CopyFrom(stack'[u][j].copy)
    BY <1>0, <1>1, <2>2, RowCalls, CopiesFrom, GotoCopy, FreshCopy
  <2> QED BY <2>1, <2>3, SameInstances DEF DataStep, RowFrom
<1>2. CASE RedriveSaga(t)
  <2>1. CASE Calls({}) /\ UNCHANGED <<obj, disk, reported>>
    BY <2>1, CopiesFrom, SameInstances DEF DataStep, RowFrom
  <2>2. ASSUME cur \in DOMAIN obj, obj[cur].stalled.ev \in 1..Len(occ),
               obj' = [obj EXCEPT ![cur].stalled = NoMarker],
               Reports(t) \/ \E h \in Handlers : Resumes(t, h)
        PROVE  DataStep
    <3>1. PICK p : p = [obj[cur] EXCEPT !.stalled = NoMarker]
      OBVIOUS
    <3>2. obj' = [obj EXCEPT ![cur] = p] /\ cur \in DOMAIN obj'
      BY <2>2, <3>1
    <3>3. InstancesFrom
      BY <2>2, <3>1, <3>2, OneChanged DEF Changed
    <3>4. \A u \in Threads : \A j \in DOMAIN stack'[u] : CopyFrom(stack'[u][j].copy)
      <4>1. CASE Reports(t)
        BY <4>1, CopiesFrom DEF Reports
      <4>2. ASSUME NEW h \in Handlers, Resumes(t, h)
            PROVE  \A u \in Threads : \A j \in DOMAIN stack'[u] : CopyFrom(stack'[u][j].copy)
        BY <4>2, CopiesFrom, FreshCopy DEF Resumes
      <4> QED BY <2>2, <4>1, <4>2
    <3>5. RowFrom(disk')
      <4>1. CASE UNCHANGED disk
        BY <4>1 DEF RowFrom
      <4>2. PICK m \in MarkerType : m = obj[cur].stalled /\ m.settled \in Nat
        <5>1. obj[cur] \in InstanceType
          BY <2>2 DEF TypeInv, Types
        <5>2. obj[cur].stalled \in MarkerType
          BY <5>1 DEF InstanceType
        <5> QED BY <5>2 DEF MarkerType
      <4>3. ASSUME NEW h \in Handlers, NEW f \in CallType,
                   f = Leg(m.on, m.ev, h, cur, m.settled + 1),
                   disk' = RowOf(obj'[cur], MarkerOf(f, m.settled, TRUE))
            PROVE  RowFrom(disk')
        <5>1. f.ev = m.ev
          BY <4>3 DEF Leg, Call
        <5>2. MarkerOf(f, m.settled, TRUE) \in MarkerType
          BY <2>2, <4>2, <5>1, MarkerTypes
        <5> QED BY <3>2, <4>3, <5>2 DEF RowFrom
      <4> QED BY <2>2, <4>1, <4>2, <4>3 DEF Reports, Resumes
    <3> QED BY <3>3, <3>4, <3>5 DEF DataStep
  <2> QED BY <1>2, <2>1, <2>2, RedriveCalls
<1> QED BY <1>1, <1>2

(* Where the row and instances of a boot, a death and a caller come from. *)
LEMMA OutsideData ==
    ASSUME TypeInv, Down, NEW t \in Threads,
           Boot(t) \/ Crash \/ \E e \in Entry : Enter(t, e)
    PROVE  DataStep
<1>1. ASSUME NEW e \in Entry, Enter(t, e) PROVE DataStep
  <2>1. UNCHANGED <<obj, disk>>
    BY <1>1 DEF Enter
  <2> QED BY <1>1, <2>1, EnterCalls, CopiesFrom, FreshCopy, SameInstances DEF DataStep, RowFrom
<1>2. CASE Crash
  <2>1. obj' = << >> /\ UNCHANGED disk /\ Gone
    BY <1>2 DEF Crash, Gone
  <2>2. InstancesFrom
    BY <2>1 DEF InstancesFrom
  <2> QED BY <2>1, <2>2, GoneCalls, CopiesFrom DEF DataStep, RowFrom
<1>3. CASE Boot(t)
  <2>1. UNCHANGED disk /\ (obj' = <<Rehydrated>> \/ obj' = << >>)
    BY <1>3 DEF Boot, Rehydrated
  <2>2. \A j \in DOMAIN obj' : obj'[j] = Rehydrated
    BY <2>1
  <2>3. InstancesFrom
    BY <2>2 DEF InstancesFrom
  <2> QED BY <1>3, <2>1, <2>3, BootCalls, CopiesFrom, FreshCopy DEF DataStep, RowFrom
<1> QED BY <1>1, <1>2, <1>3

(* Every step, so. *)
LEMMA DataFrom == TypeInv /\ Down /\ Next => DataStep
<1>1. ASSUME TypeInv, NEW t \in Threads, Step(t) PROVE DataStep
  BY <1>1, AdvData, MarkingData, BootRaisedData, CopyingData, SendingData, BootData, ResumeData
     DEF Step
<1>2. ASSUME TypeInv, Down, Crash PROVE DataStep
  <2>1. CASE Threads = {}
    BY <1>2, <2>1 DEF Crash, Gone, DataStep, InstancesFrom, RowFrom
  <2>2. CASE Threads # {}
    BY <1>2, <2>2, OutsideData
  <2> QED BY <2>1, <2>2
<1> QED BY <1>1, <1>2, OutsideData, ResumeData DEF Next

----------------------------------------------------------------------------
(* The stage a parked saga faulted from. *)

OneThread == \A t, u \in Threads : t = u

(* No leg leads from the parking state to itself. *)
ParksOnce == \A h \in Handlers : h.to = NeedsHuman => h.from # NeedsHuman

Knows(r) ==
    /\ r.state = NeedsHuman => r.faulted \in States \ {NeedsHuman}
    /\ r.faulted # NeedsHuman
ParkInv ==
    /\ \A j \in DOMAIN obj : Knows(obj[j])
    /\ Knows(disk)
    /\ \A t \in Threads : \A j \in DOMAIN stack[t] : Knows(stack[t][j].copy)

(* No change the code makes parks an instance that does not know its stage. *)
LEMMA ChangedKnows ==
    ASSUME ParksOnce, NEW o \in InstanceType, NEW p, Changed(o, p), Knows(o)
    PROVE  Knows(p)
<1>1. ASSUME NEW h \in Handlers, h.from = o.state, p = Moved(o, h) PROVE Knows(p)
  <2>1. /\ p.state = h.to
        /\ p.faulted = IF h.to = NeedsHuman THEN o.state ELSE o.faulted
    BY <1>1 DEF Moved, InstanceType
  <2>2. h.from \in States
    BY SagaAssumption DEF HandlerType
  <2> QED BY <1>1, <2>1, <2>2 DEF Knows, ParksOnce
<1>2. CASE p = Restored(o)
  <2>1. p.state = o.faulted /\ p.faulted = None
    BY <1>2 DEF Restored, InstanceType
  <2> QED BY <2>1, SagaAssumption DEF Knows
<1>3. ASSUME NEW e \in EntryType, p = Recorded(o, e) PROVE Knows(p)
  BY <1>3 DEF Knows, Recorded, InstanceType
<1>4. CASE p = Popped(o)
  BY <1>4 DEF Knows, Popped, InstanceType
<1>5. CASE p = [o EXCEPT !.stalled = NoMarker]
  BY <1>5 DEF Knows, InstanceType
<1> QED BY <1>1, <1>2, <1>3, <1>4, <1>5 DEF Changed

(* ParkInv is inductive. *)
LEMMA ParkKept ==
    ASSUME ParksOnce, TypeInv, Down, ParkInv, [Next]_vars PROVE ParkInv'
<1>1. CASE UNCHANGED vars
  BY <1>1 DEF vars, ParkInv, Knows
<1>2. CASE Next
  <2>0. DataStep
    BY <1>2, DataFrom
  <2>1. Knows(NoRow) /\ Knows(Newborn) /\ Knows(Rehydrated)
    BY SagaAssumption DEF Knows, NoRow, Newborn, Rehydrated, Instance, ParkInv
  <2>2. \A j \in DOMAIN obj' : Knows(obj'[j])
    BY <2>0, <2>1, ChangedKnows DEF DataStep, InstancesFrom, ParkInv, TypeInv, Types
  <2>3. \A o, m : Knows(o) => Knows(RowOf(o, m))
    BY DEF Knows, RowOf
  <2>4. \A g : Known(g) => Knows(g.copy)
    BY DEF Known, ParkInv
  <2>5. Knows(disk')
    BY <2>0, <2>1, <2>2, <2>3, <2>4 DEF DataStep, RowFrom, ParkInv
  <2>6. ASSUME NEW u \in Threads, NEW j \in DOMAIN stack'[u] PROVE Knows(stack'[u][j].copy)
    <3>1. CopyFrom(stack'[u][j].copy)
      BY <2>0 DEF DataStep
    <3> QED BY <2>1, <2>2, <2>3, <2>4, <3>1 DEF CopyFrom
  <2> QED BY <2>2, <2>5, <2>6 DEF ParkInv, Knows
<1> QED BY <1>1, <1>2

(* A saga parked for a person knows the stage it faulted from, whatever its  *)
(* legs, deaths and boots, as long as it is not declared to park again from  *)
(* where it is parked (Leg#take, resume, rehydrate); for one thread, since   *)
(* restore_faulted_stage forgets the stage and moves the state in two        *)
(* statements without the mutex, which the model takes in one step.          *)
THEOREM ParkedRemembers ==
    ASSUME ParksOnce, OneThread PROVE Spec => []ParkedKnowsStage
<1>1. Init => ParkInv
  BY SagaAssumption DEF Init, ParkInv, Knows, NoRow
<1>2. TypeInv /\ Down /\ ParkInv /\ [Next]_vars => ParkInv'
  BY ParkKept
<1>3. TypeInv /\ ParkInv => ParkedKnowsStage
  BY DEF ParkInv, ParkedKnowsStage, Knows, TypeInv, Types
<1> QED BY <1>1, <1>2, <1>3, TypeStart, TypeStep, PTL DEF Spec

----------------------------------------------------------------------------
(* The events that moved legs. *)

Took(ev) == \E l \in taken : l.ev = ev
Marks(m) == m = NoMarker \/ Took(m.ev)
MoveInv ==
    /\ \A t \in Threads : \A j \in DOMAIN stack[t] : stack[t][j].k = "leg" => Took(stack[t][j].ev)
    /\ Marks(disk.marker)
    /\ \A j \in DOMAIN obj : Marks(obj[j].stalled)

(* The same after the step, of an event or a marker that is given. *)
Takes(ev) == \E l \in taken' : l.ev = ev
Marked(m) == m = NoMarker \/ Takes(m.ev)

(* What of MoveInv is left to show of each step. *)
Moving(F) ==
    /\ Calls(F) /\ \A f \in F : f.k = "leg" => Takes(f.ev)
    /\ Marked(disk'.marker)
    /\ taken \subseteq taken'

(* An instance's stalled marker is only ever cleared. *)
LEMMA ChangedStall ==
    ASSUME NEW o \in InstanceType, NEW p, Changed(o, p)
    PROVE  p.stalled \in {o.stalled, NoMarker}
<1>1. ASSUME NEW h \in Handlers, p = Moved(o, h) PROVE p.stalled = o.stalled
  BY <1>1, MovedTypes
<1>2. CASE p = Restored(o)
  BY <1>2 DEF Restored, InstanceType
<1>3. ASSUME NEW e \in EntryType, p = Recorded(o, e) PROVE p.stalled = o.stalled
  BY <1>3 DEF Recorded, InstanceType
<1>4. CASE p = Popped(o)
  BY <1>4, PoppedTypes
<1>5. CASE p = [o EXCEPT !.stalled = NoMarker]
  BY <1>5 DEF InstanceType
<1> QED BY <1>1, <1>2, <1>3, <1>4, <1>5 DEF Changed

(* What of MoveInv is left to show of a step, from the calls it adds. *)
LEMMA MovingKeeps ==
    ASSUME TypeInv, MoveInv, DataStep, NEW F, Moving(F)
    PROVE  MoveInv'
<1>1. \A ev : Took(ev) => Takes(ev)
  BY DEF Took, Takes, Moving
<1>2. \A m : Marks(m) => Marked(m)
  BY <1>1 DEF Marks, Marked
<1>3. ASSUME NEW u \in Threads, NEW j \in DOMAIN stack'[u], stack'[u][j].k = "leg"
      PROVE  Takes(stack'[u][j].ev)
  <2>1. \A f : Known(f) /\ f.k = "leg" => Takes(f.ev)
    BY <1>1 DEF Known, MoveInv
  <2> QED BY <1>3, <2>1 DEF Moving, Calls
<1>4. ASSUME NEW j \in DOMAIN obj' PROVE Marked(obj'[j].stalled)
  <2>1. Newborn.stalled = NoMarker /\ Rehydrated.stalled = disk.marker
    BY DEF Newborn, Rehydrated, Instance
  <2>2. CASE obj'[j] \in {Newborn, Rehydrated}
    BY <1>2, <2>1, <2>2 DEF MoveInv, Marked
  <2>3. CASE j \in DOMAIN obj /\ Changed(obj[j], obj'[j])
    <3>1. obj[j] \in InstanceType
      BY <2>3 DEF TypeInv, Types
    <3>2. obj'[j].stalled \in {obj[j].stalled, NoMarker}
      BY <2>3, <3>1, ChangedStall
    <3> QED BY <1>2, <2>3, <3>2 DEF MoveInv, Marked
  <2> QED BY <2>2, <2>3 DEF DataStep, InstancesFrom
<1> QED BY <1>3, <1>4 DEF MoveInv, Took, Marks, Takes, Marked, Moving

(* The innermost call's event, if it is a leg's. *)
LEMMA TopTook ==
    ASSUME TypeInv, MoveInv, NEW t \in Threads, stack[t] # << >>, taken \subseteq taken',
           NEW f, f.k = Top(t).k, f.ev = Top(t).ev
    PROVE  f.k = "leg" => Takes(f.ev)
<1>1. Known(Top(t))
  BY TopKnown
<1> QED BY <1>1 DEF Known, MoveInv, Took, Takes

(* An unchanged row still names a leg that was taken. *)
LEMMA RowKeptMarked ==
    ASSUME MoveInv, taken \subseteq taken', UNCHANGED disk PROVE Marked(disk'.marker)
BY DEF MoveInv, Marks, Marked, Took, Takes

(* A call that only moves on keeps its other fields. *)
LEMMA GotoIs ==
    ASSUME TypeInv, NEW t \in Threads, stack[t] # << >>, NEW at
    PROVE  /\ Goto(t, at).k = Top(t).k /\ Goto(t, at).ev = Top(t).ev /\ Goto(t, at).on = Top(t).on
           /\ Goto(t, at).inst = Top(t).inst /\ Goto(t, at).i = Top(t).i /\ Goto(t, at).h = Top(t).h
           /\ Goto(t, at).rec = Top(t).rec /\ Goto(t, at).at = at
BY TopKnown DEF Goto, CallType

(* Steps that leave the innermost call's event as it was, and perhaps add    *)
(* one more call.                                                           *)
LEMMA MovesNone ==
    ASSUME Calls({}), taken \subseteq taken', Marked(disk'.marker)
    PROVE  \E F : Moving(F)
<1>1. Moving({})
  BY DEF Moving
<1> QED BY <1>1

(* One call added, by a step that moves or keeps a leg. *)
LEMMA MovesOne ==
    ASSUME NEW f, Calls({f}), taken \subseteq taken', Marked(disk'.marker),
           f.k = "leg" => Takes(f.ev)
    PROVE  \E F : Moving(F)
<1>1. Moving({f})
  BY DEF Moving
<1> QED BY <1>1

(* Two calls added, by a step that moves or keeps a leg. *)
LEMMA MovesTwo ==
    ASSUME NEW f, NEW g, Calls({f, g}), taken \subseteq taken', Marked(disk'.marker),
           f.k = "leg" => Takes(f.ev), g.k = "leg" => Takes(g.ev)
    PROVE  \E F : Moving(F)
<1>1. Moving({f, g})
  BY DEF Moving
<1> QED BY <1>1

(* An advance runs a leg only once it is taken. *)
LEMMA AdvMoving ==
    ASSUME TypeInv, MoveInv, NEW t \in Threads,
           ClaimEvent(t) \/ BeginSaga(t) \/ AdvanceSaga(t) \/ EndSaga(t)
    PROVE  \E F : Moving(F)
<1>0. stack[t] # << >>
  BY DEF ClaimEvent, BeginSaga, AdvanceSaga, EndSaga, At
<1>1. CASE ClaimEvent(t)
  <2>1. UNCHANGED <<disk, taken>>
    BY <1>1 DEF ClaimEvent, history
  <2>2. PICK f : f = Goto(t, "begin")
    OBVIOUS
  <2>3. f.k = Top(t).k /\ f.ev = Top(t).ev /\ Calls({f})
    BY <1>0, <1>1, <2>2, GotoIs, ClaimCalls
  <2>4. (f.k = "leg" => Takes(f.ev)) /\ Marked(disk'.marker)
    BY <1>0, <2>1, <2>3, TopTook, RowKeptMarked
  <2> QED BY <2>1, <2>3, <2>4, MovesOne
<1>2. CASE BeginSaga(t)
  <2>1. UNCHANGED taken /\ (disk' = disk \/ \E o : disk' = RowOf(o, NoMarker))
    BY <1>2 DEF BeginSaga, history
  <2>2. Marked(disk'.marker)
    BY <2>1, RowKeptMarked DEF Marked, RowOf
  <2>3. PICK f : f = Goto(t, "take")
    OBVIOUS
  <2>4. f.k = Top(t).k /\ f.ev = Top(t).ev /\ Calls({f})
    BY <1>0, <1>2, <2>3, GotoIs, BeginCalls
  <2>5. f.k = "leg" => Takes(f.ev)
    BY <1>0, <2>1, <2>4, TopTook
  <2> QED BY <2>1, <2>2, <2>4, <2>5, MovesOne
<1>3. CASE AdvanceSaga(t)
  <2>0. PICK f : f = Goto(t, "end")
    OBVIOUS
  <2>a. f.k = Top(t).k /\ f.ev = Top(t).ev
    BY <1>0, <2>0, GotoIs
  <2>b. taken \subseteq taken' => (f.k = "leg" => Takes(f.ev))
    BY <1>0, <2>a, TopTook
  <2>1. CASE Calls({f}) /\ UNCHANGED <<obj, disk, taken>>
    <3>1. Marked(disk'.marker)
      BY <2>1, RowKeptMarked
    <3> QED BY <2>1, <2>b, <3>1, MovesOne
  <2>2. ASSUME NEW h \in Handlers, TakesLeg(t, h) PROVE \E F : Moving(F)
    <3>1. PICK leg : leg = Leg(h.on, Top(t).ev, h, cur, 0)
      OBVIOUS
    <3>2. leg.ev = Top(t).ev
      BY <3>1 DEF Leg, Call
    <3>3. taken' = taken \cup {[on |-> h.on, ev |-> Top(t).ev, h |-> h]}
      BY <2>2 DEF TakesLeg
    <3>a. PICK l : l = [on |-> h.on, ev |-> Top(t).ev, h |-> h]
      OBVIOUS
    <3>b. l.ev = leg.ev /\ l \in taken' /\ taken \subseteq taken'
      BY <3>2, <3>3, <3>a
    <3>4. Takes(leg.ev) /\ taken \subseteq taken'
      BY <3>b DEF Takes
    <3>5. disk' = RowOf(obj'[cur], MarkerOf(leg, 0, FALSE))
      BY <2>2, <3>1 DEF TakesLeg
    <3>6. disk'.marker.ev = leg.ev
      BY <3>5 DEF RowOf, MarkerOf
    <3>7. Calls({f, leg})
      BY <2>2, <2>0, <3>1 DEF TakesLeg
    <3>8. Marked(disk'.marker)
      BY <3>4, <3>6 DEF Marked
    <3> QED BY <2>b, <3>4, <3>7, <3>8, MovesTwo
  <2> QED BY <1>3, <2>0, <2>1, <2>2, AdvanceCalls
<1>4. CASE EndSaga(t)
  <2>1. UNCHANGED taken /\ disk' \in {disk, NoRow}
    BY <1>4 DEF EndSaga, history
  <2>2. Marked(disk'.marker)
    BY <2>1, RowKeptMarked DEF Marked, NoRow
  <2> QED BY <1>4, <2>1, <2>2, EndCalls, MovesNone
<1> QED BY <1>1, <1>2, <1>3, <1>4

(* record_progress and clear_pending_marker name a leg that was taken. *)
LEMMA MarkMoving ==
    ASSUME TypeInv, MoveInv, NEW t \in Threads,
           \/ StartDispatch(t) \/ StartRaised(t) \/ BootRaised(t)
           \/ SettleDispatch(t) \/ FinishLeg(t)
    PROVE  \E F : Moving(F)
<1>0. stack[t] # << >> /\ Top(t).k = "leg"
  BY DEF StartDispatch, StartRaised, BootRaised, SettleDispatch, FinishLeg, At
<1>a. Top(t) \in CallType
  BY <1>0, TopKnown
<1>1. UNCHANGED taken
  BY DEF StartDispatch, StartRaised, BootRaised, Gone, SettleDispatch, FinishLeg, history
<1>b. Takes(Top(t).ev)
  BY <1>0, <1>1, TopTook
<1>2. \/ \E n, b : WriteIfLive(Top(t), MarkerOf(Top(t), n, b))
      \/ WriteIfLive(Top(t), NoMarker)
  BY DEF StartDispatch, StartRaised, BootRaised, SettleDispatch, FinishLeg
<1>3. Marked(disk'.marker)
  BY <1>b, <1>1, <1>2, RowKeptMarked DEF WriteIfLive, Marked, RowOf, MarkerOf
<1>4. CASE StartDispatch(t)
  <2>1. PICK f : f = Goto(t, "unwind")
    OBVIOUS
  <2>2. PICK g : g = Goto(t, "record")
    OBVIOUS
  <2>3. f.ev = Top(t).ev /\ g.ev = Top(t).ev
    BY <1>0, <2>1, <2>2, GotoIs
  <2>4. Calls({f, g})
    BY <1>4, <2>1, <2>2, StartCalls
  <2> QED BY <1>1, <1>3, <1>b, <2>3, <2>4, MovesTwo
<1>5. CASE SettleDispatch(t)
  <2>1. PICK f : f = SettledCall(t)
    OBVIOUS
  <2>2. f.ev = Top(t).ev
    BY <1>a, <2>1 DEF SettledCall, Goto, CallType
  <2>3. Calls({f})
    BY <1>5, <2>1, SettleCalls
  <2> QED BY <1>1, <1>3, <1>b, <2>2, <2>3, MovesOne
<1>6. CASE FinishLeg(t) \/ StartRaised(t) \/ BootRaised(t)
  <2>1. Calls({})
    BY <1>6, FinishCalls, RaisedCalls, GoneCalls DEF BootRaised
  <2> QED BY <1>1, <1>3, <2>1, MovesNone
<1> QED BY <1>4, <1>5, <1>6

(* Copies, drains and skips keep to legs that were taken. *)
LEMMA CopyMoving ==
    ASSUME TypeInv, MoveInv, NEW t \in Threads,
           \/ SaveCopy(t) \/ DrainDone(t) \/ SendSkipped(t) \/ Drain(t)
           \/ CompensationFails(t) \/ CompensationRaised(t) \/ CompensateLost(t)
    PROVE  \E F : Moving(F)
<1>0. stack[t] # << >> /\ Top(t).k = "leg"
  BY DEF SaveCopy, DrainDone, SendSkipped, CompensationFails, CompensationRaised, CompensateLost,
         Drain, Draining, At
<1>a. Top(t) \in CallType /\ Fits(Top(t), Len(obj), Len(occ))
  BY <1>0, TopKnown
<1>1. UNCHANGED taken /\ disk' \in {disk, Top(t).copy}
  BY DEF SaveCopy, DrainDone, SendSkipped, CompensationFails, CompensationRaised, CompensateLost,
         Drain, history
<1>b. Takes(Top(t).ev)
  BY <1>0, <1>1, TopTook
<1>2. Marked(disk'.marker)
  BY <1>a, <1>1, RowKeptMarked DEF Marked, Fits
<1>3. ASSUME NEW f, f.ev = Top(t).ev, Calls({f}) PROVE \E F : Moving(F)
  BY <1>1, <1>b, <1>2, <1>3, MovesOne
<1>4. CASE SaveCopy(t)
  <2>1. PICK g : g = [Top(t) EXCEPT !.at = Top(t).then, !.copy = NoRow, !.then = "start"]
    OBVIOUS
  <2>2. g.ev = Top(t).ev
    BY <1>a, <2>1 DEF CallType
  <2>3. Calls({g})
    BY <1>4, <2>1, SaveCalls
  <2> QED BY <1>3, <2>2, <2>3
<1>5. CASE DrainDone(t)
  <2>1. PICK g : g = Saving(obj[Top(t).inst], NextEntry(Top(t)), "start")
    OBVIOUS
  <2>2. g.ev = Top(t).ev
    BY <1>a, <2>1 DEF Saving, NextEntry, CallType
  <2>3. Calls({g})
    BY <1>5, <2>1, DrainedCalls
  <2> QED BY <1>3, <2>2, <2>3
<1>6. CASE SendSkipped(t)
  <2>1. Goto(t, "settle").ev = Top(t).ev
    BY <1>0, GotoIs
  <2> QED BY <1>3, <1>6, <2>1, SkippedCalls
<1>7. CASE CompensationFails(t) \/ CompensationRaised(t) \/ CompensateLost(t)
  <2>1. PICK f : f = NextEntry(Top(t))
    OBVIOUS
  <2>2. PICK g : g = Again(t)
    OBVIOUS
  <2>3. f.ev = Top(t).ev /\ g.ev = Top(t).ev
    BY <1>a, <2>1, <2>2 DEF NextEntry, Again, CallType
  <2>4. Calls({f, g})
    BY <1>7, <2>1, <2>2, UncompensatedCalls
  <2> QED BY <1>1, <1>b, <1>2, <2>3, <2>4, MovesTwo
<1>8. CASE Drain(t)
  <2>1. PICK g : g = [Top(t) EXCEPT !.at = "compensate", !.entry = Newest(obj[Top(t).inst]), !.tries = 0]
    OBVIOUS
  <2>2. g.ev = Top(t).ev
    BY <1>a, <2>1 DEF CallType
  <2>3. Calls({g})
    BY <1>8, <2>1, DrainPops DEF Pops
  <2> QED BY <1>3, <2>2, <2>3
<1> QED BY <1>4, <1>5, <1>6, <1>7, <1>8

(* An unwinding runs the reversing leg only once it is taken. *)
LEMMA UnwindMoving ==
    ASSUME TypeInv, MoveInv, NEW t \in Threads, Unwind(t)
    PROVE  \E F : Moving(F)
<1>0. stack[t] # << >> /\ Top(t).k = "leg"
  BY DEF Unwind, At
<1>b. taken \subseteq taken' => Takes(Top(t).ev)
  BY <1>0, TopTook
<1>1. PICK f : f = Goto(t, "settle")
  OBVIOUS
<1>2. f.ev = Top(t).ev
  BY <1>0, <1>1, GotoIs
<1>3. CASE Calls({f}) /\ UNCHANGED <<obj, disk, taken>>
  <2>1. Marked(disk'.marker)
    BY <1>3, RowKeptMarked
  <2> QED BY <1>b, <1>2, <1>3, <2>1, MovesOne
<1>4. ASSUME NEW h \in Handlers, Reverses(t, h) PROVE \E F : Moving(F)
  <2>1. PICK leg : leg = Leg(Refused, Top(t).ev, h, Top(t).inst, 0)
    OBVIOUS
  <2>2. leg.ev = Top(t).ev
    BY <2>1 DEF Leg, Call
  <2>3. taken \subseteq taken' /\ disk' = RowOf(obj'[Top(t).inst], MarkerOf(leg, 0, FALSE))
    BY <1>4, <2>1 DEF Reverses
  <2>4. disk'.marker.ev = leg.ev
    BY <2>3 DEF RowOf, MarkerOf
  <2>5. Calls({f, leg})
    BY <1>4, <1>1, <2>1 DEF Reverses
  <2>6. Marked(disk'.marker)
    BY <1>b, <2>2, <2>3, <2>4 DEF Marked
  <2> QED BY <1>b, <1>2, <2>2, <2>3, <2>5, <2>6, MovesTwo
<1> QED BY <1>1, <1>3, <1>4, UnwindCalls

(* A dispatch's outcomes keep to legs that were taken. *)
LEMMA SendMoving ==
    ASSUME TypeInv, MoveInv, NEW t \in Threads,
           \/ SendDelivered(t) \/ Compensate(t) \/ RecordCompensation(t)
           \/ SendRefused(t) \/ SendRaised(t) \/ SendLost(t)
    PROVE  \E F : Moving(F)
<1>0. stack[t] # << >> /\ Top(t).k = "leg"
  BY DEF SendDelivered, Compensate, RecordCompensation, SendRefused, SendRaised, SendLost, At
<1>a. Top(t) \in CallType
  BY <1>0, TopKnown
<1>1. UNCHANGED <<taken, disk>>
  BY DEF SendDelivered, Compensate, RecordCompensation, SendRefused, SendRaised, SendLost, history
<1>b. Takes(Top(t).ev) /\ Marked(disk'.marker)
  BY <1>0, <1>1, TopTook, RowKeptMarked
<1>2. ASSUME NEW f, f.ev = Top(t).ev, Calls({f}) PROVE \E F : Moving(F)
  BY <1>1, <1>b, <1>2, MovesOne
<1>3. ASSUME NEW f, f.ev = Top(t).ev, NEW n, Calls({f, Adv(n)}) PROVE \E F : Moving(F)
  <2>1. PICK g : g = Adv(n)
    OBVIOUS
  <2>2. g.k # "leg"
    BY <2>1 DEF Adv, Call
  <2> QED BY <1>1, <1>b, <1>3, <2>1, <2>2, MovesTwo
<1>4. ASSUME NEW f, NEW g, f.ev = Top(t).ev, g.ev = Top(t).ev, Reacts(f, g) PROVE \E F : Moving(F)
  BY <1>2, <1>3, <1>4 DEF Reacts
<1>5. CASE SendDelivered(t)
  BY <1>0, <1>4, <1>5, DeliveredCalls, GotoIs
<1>6. CASE Compensate(t)
  <2>1. NextEntry(Top(t)).ev = Top(t).ev /\ Goto(t, "compensated").ev = Top(t).ev
    BY <1>0, <1>a, GotoIs DEF NextEntry, CallType
  <2> QED BY <1>4, <1>6, <2>1, CompensateCalls
<1>7. CASE RecordCompensation(t)
  <2>1. Goto(t, "send").ev = Top(t).ev
    BY <1>0, GotoIs
  <2>2. CASE Records(t)
    <3>1. PICK g : g = Saving(obj'[Top(t).inst], [Top(t) EXCEPT !.rec = TRUE], "send")
      OBVIOUS
    <3>2. g.ev = Top(t).ev
      BY <1>a, <3>1 DEF Saving, CallType
    <3>3. Calls({g})
      BY <2>2, <3>1 DEF Records
    <3> QED BY <1>2, <3>2, <3>3
  <2> QED BY <1>2, <1>7, <2>1, <2>2, RecordCalls
<1>8. ASSUME NEW n \in Nat, NEW next \in {"record", "unwind"}, Fails(t, n, next) PROVE \E F : Moving(F)
  <2>1. PICK g : g = Tried(t, n)
    OBVIOUS
  <2>2. g \in CallType /\ g.ev = Top(t).ev
    BY <1>a, <2>1 DEF Tried, CallType
  <2>3. CASE Calls({[g EXCEPT !.at = next]})
    <3>1. PICK f : f = [g EXCEPT !.at = next]
      OBVIOUS
    <3>2. f.ev = Top(t).ev
      BY <2>2, <3>1 DEF CallType
    <3> QED BY <1>2, <2>3, <3>1, <3>2
  <2>4. CASE Unrecords(t, g, next)
    <3>1. PICK f : f = Saving(obj'[g.inst], [g EXCEPT !.rec = FALSE], next)
      OBVIOUS
    <3>2. f.ev = Top(t).ev
      BY <2>2, <3>1 DEF Saving, CallType
    <3>3. Calls({f})
      BY <2>4, <3>1 DEF Unrecords
    <3> QED BY <1>2, <3>2, <3>3
  <2> QED BY <1>8, <2>1, <2>3, <2>4 DEF Fails
<1> QED BY <1>5, <1>6, <1>7, <1>8, FailedCalls

(* A boot resumes only a leg that was taken. *)
LEMMA BootMoving ==
    ASSUME TypeInv, MoveInv, NEW t \in Threads, BootRow(t) \/ RedriveSaga(t)
    PROVE  \E F : Moving(F)
<1>0. stack[t] # << >> /\ Top(t).k = "boot"
  BY DEF BootRow, RedriveSaga, At
<1>a. Top(t) \in CallType
  BY <1>0, TopKnown
<1>1. UNCHANGED taken
  BY DEF BootRow, RedriveSaga, history
<1>2. CASE BootRow(t)
  <2>1. Marked(disk'.marker)
    BY <1>1, <1>2, RowKeptMarked DEF BootRow
  <2>2. CASE Calls({Goto(t, "sagas")})
    <3>1. Goto(t, "sagas").k # "leg"
      BY <1>0, GotoIs
    <3> QED BY <1>1, <2>1, <2>2, <3>1, MovesOne
  <2>3. ASSUME NEW ev \in Top(t).todo, Calls({[Top(t) EXCEPT !.todo = @ \ {ev}], Adv(ev)})
        PROVE  \E F : Moving(F)
    <3>1. PICK f : f = [Top(t) EXCEPT !.todo = @ \ {ev}]
      OBVIOUS
    <3>2. PICK g : g = Adv(ev)
      OBVIOUS
    <3>3. f.k = "boot" /\ g.k = "adv"
      BY <1>0, <1>a, <3>1, <3>2 DEF CallType, Adv, Call
    <3>4. Calls({f, g})
      BY <2>3, <3>1, <3>2
    <3> QED BY <1>1, <2>1, <3>3, <3>4, MovesTwo
  <2> QED BY <1>2, <2>2, <2>3, RowCalls
<1>3. CASE RedriveSaga(t)
  <2>1. CASE Calls({}) /\ UNCHANGED disk
    BY <1>1, <2>1, RowKeptMarked, MovesNone
  <2>2. CASE cur \in DOMAIN obj /\ obj[cur].stalled # NoMarker
             /\ (Reports(t) \/ \E h \in Handlers : Resumes(t, h))
    <3>1. PICK m : m = obj[cur].stalled
      OBVIOUS
    <3>2. Takes(m.ev)
      BY <1>1, <2>2, <3>1 DEF MoveInv, Marks, Took, Takes
    <3>3. \A h, i : Leg(m.on, m.ev, h, cur, i).ev = m.ev
      BY DEF Leg, Call
    <3>4. ASSUME NEW h \in Handlers, Resumes(t, h) PROVE \E F : Moving(F)
      <4>1. PICK f : f = Leg(m.on, m.ev, h, cur, m.settled + 1)
        OBVIOUS
      <4>2. Calls({f}) /\ UNCHANGED disk
        BY <3>1, <3>4, <4>1 DEF Resumes
      <4>3. Takes(f.ev) /\ Marked(disk'.marker)
        BY <1>1, <3>2, <3>3, <4>1, <4>2, RowKeptMarked
      <4> QED BY <1>1, <4>2, <4>3, MovesOne
    <3>5. CASE Reports(t)
      <4>1. Calls({}) /\ (disk' = disk \/ \E o, h, i : disk' = RowOf(o, MarkerOf(Leg(m.on, m.ev, h, cur, i), m.settled, TRUE)))
        BY <3>1, <3>5 DEF Reports
      <4>2. disk' = disk \/ disk'.marker.ev = m.ev
        BY <3>3, <4>1 DEF RowOf, MarkerOf
      <4>3. Marked(disk'.marker)
        BY <1>1, <3>2, <4>2, RowKeptMarked DEF Marked
      <4> QED BY <1>1, <4>1, <4>3, MovesNone
    <3> QED BY <2>2, <3>4, <3>5
  <2> QED BY <1>3, <2>1, <2>2, RedriveCalls
<1> QED BY <1>2, <1>3

(* A person's resume runs no leg and names none. *)
LEMMA ResumeMoving ==
    ASSUME TypeInv, MoveInv, NEW t \in Threads, ResumeRestore(t) \/ ResumeStore(t)
    PROVE  \E F : Moving(F)
<1>0. stack[t] # << >> /\ Top(t).k = "resume"
  BY DEF ResumeRestore, ResumeStore, At
<1>a. Top(t) \in CallType /\ Fits(Top(t), Len(obj), Len(occ))
  BY <1>0, TopKnown
<1>1. UNCHANGED taken /\ disk' \in {disk, Top(t).copy}
  BY DEF ResumeRestore, ResumeStore, history
<1>2. Marked(disk'.marker)
  BY <1>a, <1>1, RowKeptMarked DEF Marked, Fits
<1>3. CASE ResumeRestore(t)
  <2>1. PICK f : f = Restoring(t)
    OBVIOUS
  <2>2. f.k # "leg"
    BY <1>0, <1>a, <2>1 DEF Restoring, CallType
  <2>3. Calls({f})
    BY <1>3, <2>1, RestoreCalls DEF Restores
  <2> QED BY <1>1, <1>2, <2>2, <2>3, MovesOne
<1>4. CASE ResumeStore(t)
  <2>1. Calls({})
    BY <1>0, <1>4, PopCalls DEF ResumeStore, TypeInv, Types
  <2> QED BY <1>1, <1>2, <2>1, MovesNone
<1> QED BY <1>3, <1>4

(* A boot, a death, a resume and a caller name no new leg. *)
LEMMA OutsideMoving ==
    ASSUME TypeInv, Down, MoveInv, NEW t \in Threads,
           Boot(t) \/ Resume(t) \/ Crash \/ \E e \in Entry : Enter(t, e)
    PROVE  \E F : Moving(F)
<1>1. UNCHANGED <<taken, disk>>
  BY DEF Boot, Resume, Crash, Gone, Enter, history
<1>3. Marked(disk'.marker)
  BY <1>1, RowKeptMarked
<1>4. ASSUME NEW e \in Entry, Enter(t, e) PROVE \E F : Moving(F)
  <2>1. Adv(NextOcc).k # "leg"
    BY DEF Adv, Call
  <2> QED BY <1>1, <1>3, <1>4, <2>1, EnterCalls, MovesOne
<1>5. CASE Crash
  BY <1>1, <1>3, <1>5, GoneCalls, MovesNone DEF Crash
<1>6. CASE Boot(t)
  <2>1. BootCall(owed).k # "leg"
    BY DEF BootCall, Call
  <2> QED BY <1>1, <1>3, <1>6, <2>1, BootCalls, MovesOne
<1>7. CASE Resume(t)
  <2>1. PICK f : f = ResumeCall
    OBVIOUS
  <2>2. f.k # "leg"
    BY <2>1 DEF ResumeCall, Call
  <2> QED BY <1>1, <1>3, <1>7, <2>1, <2>2, ResumeCalls, MovesOne
<1> QED BY <1>4, <1>5, <1>6, <1>7

(* MoveInv is inductive. *)
LEMMA MoveStep == TypeInv /\ Down /\ MoveInv /\ [Next]_vars => MoveInv'
<1>1. CASE UNCHANGED vars
  BY <1>1 DEF vars, MoveInv, Marks, Took
<1>2. ASSUME TypeInv, Down, MoveInv, Next PROVE MoveInv'
  <2>1. DataStep
    BY <1>2, DataFrom
  <2>2. CASE Threads = {}
    <3>1. Crash
      BY <1>2, <2>2 DEF Next
    <3> QED BY <1>2, <2>2, <3>1 DEF Crash, Gone, MoveInv, Marks, Took
  <2>3. ASSUME NEW t \in Threads, Step(t) PROVE \E F : Moving(F)
    BY <1>2, <2>3, AdvMoving, MarkMoving, CopyMoving, UnwindMoving, SendMoving, BootMoving,
       ResumeMoving DEF Step
  <2>4. CASE Threads # {}
    BY <1>2, <2>1, <2>3, <2>4, OutsideMoving, MovingKeeps DEF Next
  <2> QED BY <2>2, <2>4
<1> QED BY <1>1, <1>2

----------------------------------------------------------------------------
(* The keys of the dispatches that were applied. *)

(* Where dispatches are keyed, no two of the events that moved a leg have    *)
(* the same stamp: with the second as their only clock, no two of a name.    *)
MovesOnce == \A l, m \in taken : occ[l.ev] = occ[m.ev] => l.ev = m.ev
KeysDistinct == Dedupes /\ OneSecond => MovesOnce

Event(d) == d[2]
KeyOf(d) == Key(d[1], d[2], d[3])
ClaimedInv ==
    /\ \A k \in claims : \E d \in applied :
          k = KeyOf(d) /\ d = <<d[1], d[2], d[3]>> /\ d[2] \in 1..Len(occ) /\ Took(d[2])
    /\ skipped \subseteq applied

(* Events are only ever added. *)
LEMMA EventsAdded ==
    TypeInv /\ [Next]_vars => occ' = occ \/ \E e \in Events : occ' = Append(occ, e)
<1>1. ASSUME TypeInv, NEW t \in Threads, Step(t)
      PROVE  occ' = occ \/ \E e \in Events : occ' = Append(occ, e)
  <2>1. CASE SendDelivered(t) \/ SendLost(t)
    <3>1. Emits(CommandAt(Top(t))) /\ CommandAt(Top(t)) \in Commands
      BY <1>1, <2>1, SendCommand DEF SendDelivered, SendLost, Commits
    <3> QED BY <3>1, EmitsCommitted DEF Committed, Emitted
  <2>2. CASE Compensate(t) \/ CompensateLost(t)
    <3>1. stack[t] # << >> /\ Top(t).k = "leg" /\ Repaying(Top(t))
      BY <2>2 DEF Compensate, CompensateLost, At, Repaying
    <3>2. Emits(Top(t).entry.cmd) /\ Top(t).entry.cmd \in Commands
      BY <1>1, <2>2, <3>1, Repays DEF Compensate, CompensateLost, Undo
    <3> QED BY <3>2, EmitsCommitted DEF Committed, Emitted
  <2> QED BY <1>1, <2>1, <2>2 DEF Step, ClaimEvent, BeginSaga, AdvanceSaga, EndSaga, StartDispatch,
          StartRaised, BootRaised, RecordCompensation, SendSkipped, SendRefused, SendRaised, Unwind,
          SettleDispatch, FinishLeg, SaveCopy, DrainDone, Drain, CompensationFails,
          CompensationRaised, BootRow, RedriveSaga, ResumeRestore, ResumeStore
<1>2. ASSUME NEW t \in Threads, NEW e \in Entry, Enter(t, e) PROVE \E x \in Events : occ' = Append(occ, x)
  BY <1>2, SagaAssumption DEF Enter
<1> QED BY <1>1, <1>2 DEF Next, vars, Boot, Resume, Crash

(* So the key of a dispatch stays what it was. *)
LEMMA KeysKept ==
    ASSUME TypeInv, [Next]_vars, NEW on, NEW ev \in 1..Len(occ), NEW i
    PROVE  Key(on, ev, i)' = Key(on, ev, i) /\ ev \in 1..Len(occ')
<1>1. occ \in Seq(Events) /\ (occ' = occ \/ \E e \in Events : occ' = Append(occ, e))
  BY EventsAdded DEF TypeInv, Types
<1>2. Len(occ') >= Len(occ) /\ occ'[ev] = occ[ev] /\ Len(occ') \in Nat /\ Len(occ) \in Nat
  BY <1>1
<1> QED BY <1>2 DEF Key, Stamp

(* ClaimedInv is inductive where distinct dispatches have distinct keys. *)
LEMMA ClaimedStep ==
    ASSUME TypeInv, Down, MoveInv, ClaimedInv, KeysDistinct, [Next]_vars
    PROVE  ClaimedInv'
<1>1. taken \subseteq taken' /\ \A ev : Took(ev) => Takes(ev)
  <2>1. ASSUME NEW t \in Threads, Step(t) PROVE taken \subseteq taken'
    BY <2>1 DEF Step, ClaimEvent, BeginSaga, AdvanceSaga, EndSaga, StartDispatch, StartRaised,
          BootRaised, Gone, RecordCompensation, SendDelivered, SendSkipped, SendRefused, SendRaised,
          SendLost, Unwind, SettleDispatch, FinishLeg, SaveCopy, DrainDone, Compensate, Drain,
          CompensationFails, CompensationRaised, CompensateLost, BootRow, RedriveSaga,
          ResumeRestore, ResumeStore, history
  <2>2. taken \subseteq taken'
    BY <2>1 DEF Next, vars, Enter, Boot, Resume, Crash, Gone, history
  <2> QED BY <2>2 DEF Took, Takes
<1>2. ASSUME NEW d, d[2] \in 1..Len(occ) PROVE KeyOf(d)' = KeyOf(d) /\ d[2] \in 1..Len(occ')
  BY <1>2, KeysKept DEF KeyOf
<1>3. ASSUME applied \subseteq applied', NEW k \in claims
      PROVE  \E d \in applied' :
                k = KeyOf(d)' /\ d = <<d[1], d[2], d[3]>> /\ d[2] \in 1..Len(occ') /\ Takes(d[2])
  <2>1. PICK d \in applied : k = KeyOf(d) /\ d = <<d[1], d[2], d[3]>> /\ d[2] \in 1..Len(occ) /\ Took(d[2])
    BY DEF ClaimedInv
  <2> QED BY <1>1, <1>2, <1>3, <2>1
<1>4. CASE UNCHANGED <<claims, applied, skipped>>
  BY <1>3, <1>4 DEF ClaimedInv, Took, Takes
<1>5. ASSUME NEW t \in Threads, SendDelivered(t) \/ SendLost(t) PROVE ClaimedInv'
  <2>1. stack[t] # << >> /\ Top(t).k = "leg"
    BY <1>5 DEF SendDelivered, SendLost, At
  <2>2. PICK d : d = <<Top(t).on, Top(t).ev, Top(t).i>>
    OBVIOUS
  <2>3. d[1] = Top(t).on /\ d[2] = Top(t).ev /\ d[3] = Top(t).i /\ d = <<d[1], d[2], d[3]>>
    BY <2>2
  <2>4. /\ applied' = applied \cup {d} /\ skipped' = skipped
        /\ claims' \subseteq claims \cup {KeyOf(d)}
    BY <1>5, <2>2, <2>3 DEF SendDelivered, SendLost, Commits, KeyOf
  <2>5. Takes(d[2])
    BY <1>1, <2>1, <2>3, TopTook
  <2>6. d[2] \in 1..Len(occ)
    BY <2>1, <2>3, LegTop
  <2>7. KeyOf(d)' = KeyOf(d) /\ d[2] \in 1..Len(occ')
    BY <1>2, <2>6
  <2>8. \A k \in claims' : \E x \in applied' :
           k = KeyOf(x)' /\ x = <<x[1], x[2], x[3]>> /\ x[2] \in 1..Len(occ') /\ Takes(x[2])
    BY <1>3, <2>3, <2>4, <2>5, <2>7
  <2> QED BY <2>4, <2>8 DEF ClaimedInv, Took, Takes
<1>6. ASSUME NEW t \in Threads, SendSkipped(t) PROVE ClaimedInv'
  <2>1. stack[t] # << >> /\ Top(t).k = "leg" /\ AlreadyApplied(Top(t))
    BY <1>6 DEF SendSkipped, At
  <2>2. Dedupes /\ Key(Top(t).on, Top(t).ev, Top(t).i) \in claims
    BY <2>1 DEF AlreadyApplied
  <2>3. PICK d \in applied : /\ Key(Top(t).on, Top(t).ev, Top(t).i) = KeyOf(d)
                             /\ d = <<d[1], d[2], d[3]>> /\ Took(d[2])
    BY <2>2 DEF ClaimedInv
  <2>4. d[1] = Top(t).on /\ d[3] = Top(t).i /\ Stamp(d[2]) = Stamp(Top(t).ev)
    BY <2>3 DEF KeyOf, Key
  <2>5. Took(Top(t).ev)
    <3>1. Known(Top(t))
      BY <2>1, TopKnown
    <3> QED BY <2>1, <3>1 DEF Known, MoveInv
  <2>6. d[2] = Top(t).ev
    BY <2>2, <2>3, <2>4, <2>5 DEF Stamp, KeysDistinct, MovesOnce, Took
  <2>7. <<Top(t).on, Top(t).ev, Top(t).i>> \in applied
    BY <2>3, <2>4, <2>6
  <2>8. UNCHANGED <<claims, applied>> /\ skipped' = skipped \cup {<<Top(t).on, Top(t).ev, Top(t).i>>}
    BY <1>6 DEF SendSkipped
  <2> QED BY <1>3, <2>7, <2>8 DEF ClaimedInv, Took, Takes
<1>7. ASSUME NEW t \in Threads, Step(t), ~SendDelivered(t), ~SendLost(t), ~SendSkipped(t)
      PROVE  UNCHANGED <<claims, applied, skipped>>
  BY <1>7 DEF Step, ClaimEvent, BeginSaga, AdvanceSaga, EndSaga, StartDispatch, StartRaised,
          BootRaised, Gone, RecordCompensation, SendRefused, SendRaised, Unwind, SettleDispatch,
          FinishLeg, SaveCopy, DrainDone, Compensate, Drain, CompensationFails,
          CompensationRaised, CompensateLost, BootRow, RedriveSaga, ResumeRestore, ResumeStore, history
<1>8. CASE UNCHANGED vars \/ Crash
  BY <1>4, <1>8 DEF vars, Crash, Gone
<1>9. ASSUME NEW t \in Threads, Boot(t) \/ Resume(t) \/ \E e \in Entry : Enter(t, e)
      PROVE  UNCHANGED <<claims, applied, skipped>>
  BY <1>9 DEF Boot, Resume, Enter, history
<1> QED BY <1>4, <1>5, <1>6, <1>7, <1>8, <1>9 DEF Next

(* Only a dispatch that was applied is answered as already applied, as long  *)
(* as no two events that moved a leg share a name, an id and a second        *)
(* (dispatch_claim.rb key): whatever the saga's legs, threads, retries,      *)
(* deaths and redrives.                                                      *)
THEOREM SkipsAreApplied == Spec /\ []KeysDistinct => []SkippedWasApplied
<1>1. Init => MoveInv /\ ClaimedInv
  BY DEF Init, MoveInv, ClaimedInv, Marks, NoRow
<1>2. TypeInv /\ Down /\ MoveInv /\ ClaimedInv /\ KeysDistinct /\ [Next]_vars => ClaimedInv'
  BY ClaimedStep
<1>3. ClaimedInv => SkippedWasApplied
  BY DEF ClaimedInv, SkippedWasApplied
<1> QED BY <1>1, <1>2, <1>3, TypeStart, TypeStep, MoveStep, PTL DEF Spec

----------------------------------------------------------------------------
(* Every dispatch that was applied left its key. *)
AppliedInv ==
    /\ \A d \in applied : d[2] \in 1..Len(occ) /\ KeyOf(d) \in claims
    /\ NoDoubleApply

(* AppliedInv is inductive where the store keeps claims. *)
LEMMA AppliedStep ==
    ASSUME Dedupes, TypeInv, Down, AppliedInv, [Next]_vars
    PROVE  AppliedInv'
<1>1. ASSUME claims \subseteq claims', NEW d \in applied PROVE d[2] \in 1..Len(occ') /\ KeyOf(d)' \in claims'
  <2>1. d[2] \in 1..Len(occ) /\ KeyOf(d) \in claims
    BY <1>1 DEF AppliedInv
  <2>2. KeyOf(d)' = KeyOf(d) /\ d[2] \in 1..Len(occ')
    BY <2>1, KeysKept DEF KeyOf
  <2> QED BY <1>1, <2>1, <2>2
<1>2. CASE UNCHANGED <<claims, applied, twice>>
  BY <1>1, <1>2 DEF AppliedInv, NoDoubleApply
<1>3. ASSUME NEW t \in Threads, SendDelivered(t) \/ SendLost(t) PROVE AppliedInv'
  <2>1. stack[t] # << >> /\ Top(t).k = "leg" /\ ~AlreadyApplied(Top(t))
    BY <1>3 DEF SendDelivered, SendLost, Commits, At
  <2>2. PICK d : d = <<Top(t).on, Top(t).ev, Top(t).i>>
    OBVIOUS
  <2>3. d[1] = Top(t).on /\ d[2] = Top(t).ev /\ d[3] = Top(t).i
    BY <2>2
  <2>4. d \notin applied
    BY <2>1, <2>3 DEF AlreadyApplied, AppliedInv, KeyOf
  <2>5. applied' = applied \cup {d} /\ claims' = claims \cup {KeyOf(d)} /\ twice' = twice
    BY <1>3, <2>2, <2>3, <2>4 DEF SendDelivered, SendLost, Commits, KeyOf
  <2>6. d[2] \in 1..Len(occ)
    BY <2>1, <2>3, LegTop
  <2>7. KeyOf(d)' = KeyOf(d) /\ d[2] \in 1..Len(occ')
    BY <2>6, KeysKept DEF KeyOf
  <2> QED BY <1>1, <2>5, <2>7 DEF AppliedInv, NoDoubleApply
<1>5. ASSUME NEW t \in Threads, Step(t), ~SendDelivered(t), ~SendLost(t)
      PROVE  UNCHANGED <<claims, applied, twice>>
  BY <1>5 DEF Step, ClaimEvent, BeginSaga, AdvanceSaga, EndSaga, StartDispatch, StartRaised,
          BootRaised, Gone, RecordCompensation, SendSkipped, SendRefused, SendRaised, Unwind,
          SettleDispatch, FinishLeg, SaveCopy, DrainDone, Compensate, Drain, CompensationFails,
          CompensationRaised, CompensateLost, BootRow, RedriveSaga, ResumeRestore, ResumeStore, history
<1>6. CASE UNCHANGED vars \/ Crash
  BY <1>2, <1>6 DEF vars, Crash, Gone
<1>7. ASSUME NEW t \in Threads, Boot(t) \/ Resume(t) \/ \E e \in Entry : Enter(t, e)
      PROVE  UNCHANGED <<claims, applied, twice>>
  BY <1>7 DEF Boot, Resume, Enter, history
<1> QED BY <1>2, <1>3, <1>5, <1>6, <1>7 DEF Next

(* On a store with dispatch claims a leg's dispatch commits at most once,    *)
(* however many threads, raises, lost answers, deaths and redrives there are *)
(* and whatever the clock's grain (dispatch_claim.rb already_applied).  The  *)
(* derived compensations carry no key and are outside it.                    *)
THEOREM WritesAreSingle ==
    ASSUME Dedupes PROVE Spec => []NoDoubleApply
<1>1. Init => AppliedInv
  BY DEF Init, AppliedInv, NoDoubleApply
<1>2. TypeInv /\ Down /\ AppliedInv /\ [Next]_vars => AppliedInv'
  BY AppliedStep
<1>3. AppliedInv => NoDoubleApply
  BY DEF AppliedInv
<1> QED BY <1>1, <1>2, <1>3, TypeStart, TypeStep, PTL DEF Spec

----------------------------------------------------------------------------
(* The store's row and the live instance, for a saga that never reverses and *)
(* never parks: nothing of it is written outside the mutex.                  *)

NoReversals ==
    Compensations = {} /\ NeedsHuman \notin States /\ \A h \in Handlers : h.on # Refused

(* No leg drains, no call writes a copy it made outside the mutex. *)
Calm(f) ==
    /\ f.k # "resume"
    /\ f.k = "leg" => f.at \notin {"save", "drain", "compensate", "compensated"} /\ ~f.rec
CalmInv == \A t \in Threads : \A j \in DOMAIN stack[t] : Calm(stack[t][j])
Mirrors(c, o, d) == IF c = 0 THEN ~d.there ELSE d.there /\ d.state = o[c].state
MirrorInv == CalmInv /\ (up => Mirrors(cur, obj, disk))

(* What of MirrorInv is left to show of each step. *)
Calms(F) == Calls(F) /\ \A f \in F : Calm(f)

(* What of CalmInv is left to show of a step, from the calls it adds. *)
LEMMA CalmKept ==
    ASSUME CalmInv, NEW F, Calms(F) PROVE CalmInv'
<1>1. \A f : Known(f) => Calm(f)
  BY DEF Known, CalmInv
<1> QED BY <1>1 DEF Calms, Calls, CalmInv, Calm

(* A call that moves on to no copy and no drain stays calm. *)
LEMMA CalmGoto ==
    ASSUME TypeInv, CalmInv, NEW t \in Threads, stack[t] # << >>, NEW at \in Steps,
           at \notin {"save", "drain", "compensate", "compensated"}
    PROVE  Calm(Goto(t, at))
<1>1. Calm(Top(t))
  BY TopKnown DEF Known, CalmInv
<1> QED BY <1>1, GotoIs DEF Calm

(* An advance writes the state it moves to, and removes the row it forgets. *)
LEMMA AdvCalm ==
    ASSUME NoReversals, TypeInv, MirrorInv, NEW t \in Threads,
           ClaimEvent(t) \/ BeginSaga(t) \/ AdvanceSaga(t) \/ EndSaga(t)
    PROVE  MirrorInv'
<1>0. stack[t] # << >> /\ up /\ UNCHANGED up /\ CalmInv /\ Mirrors(cur, obj, disk)
  BY DEF ClaimEvent, BeginSaga, AdvanceSaga, EndSaga, At, MirrorInv
<1>a. Calm(Goto(t, "begin")) /\ Calm(Goto(t, "take")) /\ Calm(Goto(t, "end"))
  BY <1>0, CalmGoto DEF Steps
<1>1. CASE ClaimEvent(t)
  <2>1. Calms({Goto(t, "begin")})
    BY <1>1, <1>a, ClaimCalls DEF Calms
  <2> QED BY <1>0, <1>1, <2>1, CalmKept DEF ClaimEvent, MirrorInv
<1>2. CASE BeginSaga(t)
  <2>1. Calms({Goto(t, "take")})
    BY <1>2, <1>a, BeginCalls DEF Calms
  <2>2. CASE UNCHANGED <<cur, obj, disk>>
    BY <1>0, <2>1, <2>2, CalmKept DEF MirrorInv
  <2>3. CASE cur' = Len(obj) + 1 /\ disk' = RowOf(obj'[cur'], NoMarker)
    <3>1. cur' # 0
      BY <2>3 DEF TypeInv, Types
    <3>2. Mirrors(cur', obj', disk')
      BY <2>3, <3>1 DEF Mirrors, RowOf
    <3> QED BY <1>0, <2>1, <3>2, CalmKept DEF MirrorInv
  <2> QED BY <1>2, <2>2, <2>3 DEF BeginSaga
<1>3. CASE AdvanceSaga(t)
  <2>0. UNCHANGED cur
    BY <1>3 DEF AdvanceSaga
  <2>1. CASE Calls({Goto(t, "end")}) /\ UNCHANGED <<obj, disk, taken>>
    <3>1. Calms({Goto(t, "end")})
      BY <1>a, <2>1 DEF Calms
    <3> QED BY <1>0, <2>0, <2>1, <3>1, CalmKept DEF MirrorInv
  <2>2. ASSUME NEW h \in Handlers, TakesLeg(t, h) PROVE MirrorInv'
    <3>1. PICK leg : leg = Leg(h.on, Top(t).ev, h, cur, 0)
      OBVIOUS
    <3>2. Calm(leg)
      BY <3>1 DEF Calm, Leg, Call, NoReversals
    <3>3. Calls({Goto(t, "end"), leg}) /\ cur \in DOMAIN obj /\ disk' = RowOf(obj'[cur], MarkerOf(leg, 0, FALSE))
      BY <2>2, <3>1 DEF TakesLeg
    <3>4. Calms({Goto(t, "end"), leg})
      BY <1>a, <3>2, <3>3 DEF Calms
    <3>5. cur # 0
      BY <3>3 DEF TypeInv, Types
    <3>6. Mirrors(cur', obj', disk')
      BY <2>0, <3>3, <3>5 DEF Mirrors, RowOf
    <3> QED BY <1>0, <3>4, <3>6, CalmKept DEF MirrorInv
  <2> QED BY <1>3, <2>1, <2>2, AdvanceCalls
<1>4. CASE EndSaga(t)
  <2>1. Calms({})
    BY <1>4, EndCalls DEF Calms
  <2>2. UNCHANGED <<cur, obj, disk>> \/ (cur' = 0 /\ disk' = NoRow)
    BY <1>4 DEF EndSaga
  <2>3. Mirrors(cur', obj', disk')
    BY <1>0, <2>2 DEF Mirrors, NoRow
  <2> QED BY <1>0, <2>1, <2>3, CalmKept DEF MirrorInv
<1> QED BY <1>1, <1>2, <1>3, <1>4

(* A marker is written with the live instance's state. *)
LEMMA MarkCalm ==
    ASSUME TypeInv, MirrorInv, NEW t \in Threads,
           StartDispatch(t) \/ StartRaised(t) \/ SettleDispatch(t) \/ FinishLeg(t)
    PROVE  MirrorInv'
<1>0. /\ stack[t] # << >> /\ Top(t).k = "leg" /\ up
      /\ UNCHANGED <<up, cur, obj>> /\ CalmInv /\ Mirrors(cur, obj, disk)
  BY DEF StartDispatch, StartRaised, SettleDispatch, FinishLeg, At, MirrorInv
<1>a. Top(t) \in CallType /\ Top(t).inst # 0
  BY <1>0, LegTop DEF TypeInv, Types
<1>1. \E m : WriteIfLive(Top(t), m)
  BY DEF StartDispatch, StartRaised, SettleDispatch, FinishLeg
<1>2. Mirrors(cur', obj', disk')
  BY <1>0, <1>a, <1>1 DEF WriteIfLive, Mirrors, RowOf
<1>3. CASE StartDispatch(t)
  <2>1. Calms({Goto(t, "unwind"), Goto(t, "record")})
    BY <1>0, <1>3, StartCalls, CalmGoto DEF Calms, Steps
  <2> QED BY <1>0, <1>2, <2>1, CalmKept DEF MirrorInv
<1>4. CASE SettleDispatch(t)
  <2>1. SettledCall(t).at = "start" /\ ~SettledCall(t).rec /\ SettledCall(t).k = "leg"
    BY <1>0, <1>a DEF SettledCall, Goto, CallType
  <2>2. Calms({SettledCall(t)})
    BY <1>4, <2>1, SettleCalls DEF Calms, Calm
  <2> QED BY <1>0, <1>2, <2>2, CalmKept DEF MirrorInv
<1>5. CASE FinishLeg(t) \/ StartRaised(t)
  <2>1. Calms({})
    BY <1>5, FinishCalls, RaisedCalls DEF Calms
  <2> QED BY <1>0, <1>2, <2>1, CalmKept DEF MirrorInv
<1> QED BY <1>3, <1>4, <1>5

(* A dispatch's outcome changes neither state nor row. *)
LEMMA SendCalm ==
    ASSUME NoReversals, TypeInv, MirrorInv, NEW t \in Threads,
           \/ RecordCompensation(t) \/ SendDelivered(t) \/ SendSkipped(t) \/ SendRefused(t)
           \/ SendRaised(t) \/ SendLost(t) \/ Unwind(t)
    PROVE  MirrorInv'
<1>0. /\ stack[t] # << >> /\ Top(t).k = "leg" /\ up
      /\ UNCHANGED <<up, cur>> /\ CalmInv /\ Mirrors(cur, obj, disk)
  BY DEF RecordCompensation, SendDelivered, SendSkipped, SendRefused, SendRaised, SendLost, Unwind,
         At, MirrorInv
<1>a. Top(t) \in CallType /\ ~Top(t).rec /\ Calm(Top(t))
  BY <1>0, TopKnown DEF Known, CalmInv, Calm
<1>1. ASSUME NEW F, Calms(F), UNCHANGED <<obj, disk>> PROVE MirrorInv'
  BY <1>0, <1>1, CalmKept DEF MirrorInv
<1>2. CASE RecordCompensation(t)
  <2>1. ~Records(t)
    <3>1. SUFFICES ASSUME Records(t) PROVE FALSE
      OBVIOUS
    <3>2. PICK l : l = Append(obj[Top(t).inst].ledger, EntryOf(Top(t)))
      OBVIOUS
    <3>3. obj[Top(t).inst] \in InstanceType /\ Recorded(obj[Top(t).inst], EntryOf(Top(t))) \in InstanceType
      BY <1>0, <3>1, LegTop DEF Records
    <3>4. l \in Seq(EntryType) /\ obj[Top(t).inst].ledger \in Seq(EntryType)
      BY <3>2, <3>3 DEF Recorded, InstanceType
    <3>5. Len(l) # 0 /\ l[Len(l)] \in EntryType
      BY <3>2, <3>4
    <3> QED BY <3>5 DEF EntryType, NoReversals
  <2>2. Calms({Goto(t, "send")}) /\ UNCHANGED <<obj, disk>>
    BY <1>0, <1>2, <2>1, RecordCalls, CalmGoto DEF Calms, Steps, RecordCompensation
  <2> QED BY <1>1, <2>2
<1>3. CASE SendDelivered(t)
  <2>0. UNCHANGED <<obj, disk>>
    BY <1>3 DEF SendDelivered
  <2>1. Calm(Goto(t, "sent")) /\ Calm(Goto(t, "settle")) /\ Calm(Adv(NextOcc))
    BY <1>0, CalmGoto DEF Steps, Calm, Adv, Call
  <2>2. Calms({Goto(t, "settle")}) \/ Calms({Goto(t, "sent"), Adv(NextOcc)})
    BY <1>3, <2>1, DeliveredCalls DEF Reacts, Calms
  <2> QED BY <1>1, <2>0, <2>2
<1>4. CASE SendSkipped(t)
  <2>1. Calms({Goto(t, "settle")}) /\ UNCHANGED <<obj, disk>>
    BY <1>0, <1>4, SkippedCalls, CalmGoto DEF Calms, Steps, SendSkipped
  <2> QED BY <1>1, <2>1
<1>5. CASE SendRefused(t) \/ SendRaised(t) \/ SendLost(t)
  <2>1. PICK n \in Nat, next \in {"record", "unwind"} : Fails(t, n, next)
    BY <1>5, FailedCalls
  <2>2. PICK g : g = [Tried(t, n) EXCEPT !.at = next]
    OBVIOUS
  <2>3. Calls({g}) /\ UNCHANGED <<obj, disk>>
    BY <1>5, <1>a, <2>1, <2>2 DEF Fails, SendRefused, SendRaised, SendLost
  <2>4. g.at = next /\ g.rec = Top(t).rec /\ g.k = Top(t).k
    BY <1>a, <2>2 DEF Tried, CallType
  <2>5. Calms({g})
    BY <1>a, <2>3, <2>4 DEF Calms, Calm
  <2> QED BY <1>1, <2>3, <2>5
<1>6. CASE Unwind(t)
  <2>1. Calls({Goto(t, "settle")}) /\ UNCHANGED <<obj, disk>>
    BY <1>6, UnwindCalls DEF Reverses, NoReversals
  <2>2. Calms({Goto(t, "settle")})
    BY <1>0, <2>1, CalmGoto DEF Calms, Steps
  <2> QED BY <1>1, <2>1, <2>2
<1> QED BY <1>2, <1>3, <1>4, <1>5, <1>6

(* A redrive writes the row with the state it found. *)
LEMMA BootCalm ==
    ASSUME NoReversals, TypeInv, MirrorInv, NEW t \in Threads, BootRow(t) \/ RedriveSaga(t)
    PROVE  MirrorInv'
<1>0. /\ stack[t] # << >> /\ Top(t).k = "boot" /\ up
      /\ UNCHANGED <<up, cur>> /\ CalmInv /\ Mirrors(cur, obj, disk)
  BY DEF BootRow, RedriveSaga, At, MirrorInv
<1>a. Top(t) \in CallType
  BY <1>0, TopKnown
<1>1. ASSUME NEW F, Calms(F), UNCHANGED <<obj, disk>> PROVE MirrorInv'
  BY <1>0, <1>1, CalmKept DEF MirrorInv
<1>2. CASE BootRow(t)
  <2>0. UNCHANGED <<obj, disk>>
    BY <1>2 DEF BootRow
  <2>1. CASE Calls({Goto(t, "sagas")})
    <3>1. Calms({Goto(t, "sagas")})
      BY <1>0, <2>1, CalmGoto DEF Calms, Steps
    <3> QED BY <1>1, <2>0, <3>1
  <2>2. ASSUME NEW ev \in Top(t).todo, Calls({[Top(t) EXCEPT !.todo = @ \ {ev}], Adv(ev)})
        PROVE  MirrorInv'
    <3>1. PICK f : f = [Top(t) EXCEPT !.todo = @ \ {ev}]
      OBVIOUS
    <3>2. PICK g : g = Adv(ev)
      OBVIOUS
    <3>3. f.k = "boot" /\ g.k = "adv"
      BY <1>0, <1>a, <3>1, <3>2 DEF CallType, Adv, Call
    <3>4. Calms({f, g})
      BY <2>2, <3>1, <3>2, <3>3 DEF Calms, Calm
    <3> QED BY <1>1, <2>0, <3>4
  <2> QED BY <1>2, <2>1, <2>2, RowCalls
<1>3. CASE RedriveSaga(t)
  <2>0. Calms({}) \/ ~Calls({})
    BY DEF Calms
  <2>1. CASE Calls({}) /\ UNCHANGED <<obj, disk>>
    BY <1>1, <2>0, <2>1
  <2>2. CASE /\ cur \in DOMAIN obj /\ obj' = [obj EXCEPT ![cur].stalled = NoMarker]
             /\ (Reports(t) \/ \E h \in Handlers : Resumes(t, h))
    <3>1. PICK m : m = obj[cur].stalled
      OBVIOUS
    <3>a. cur # 0 /\ obj \in Seq(InstanceType)
      BY <2>2 DEF TypeInv, Types
    <3>b. obj[cur] \in InstanceType
      BY <2>2, <3>a
    <3>2. obj[cur] \in InstanceType /\ m.settled \in Nat /\ cur # 0
      BY <3>1, <3>a, <3>b DEF InstanceType, MarkerType
    <3>3. obj'[cur].state = obj[cur].state
      BY <2>2, <3>2 DEF InstanceType
    <3>4. disk' = disk \/ \E x : disk' = RowOf(obj'[cur], x)
      BY <2>2 DEF Reports, Resumes
    <3>5. Mirrors(cur', obj', disk')
      BY <1>0, <3>2, <3>3, <3>4 DEF Mirrors, RowOf
    <3>6. ASSUME NEW h \in Handlers, Resumes(t, h) PROVE \E F : Calms(F)
      <4>1. PICK f : f = Leg(m.on, m.ev, h, cur, m.settled + 1)
        OBVIOUS
      <4>2. Calls({f})
        BY <3>1, <3>6, <4>1 DEF Resumes
      <4>3. m.settled + 1 # 0
        BY <3>2
      <4>4. f.at = "start" /\ ~f.rec /\ f.k = "leg"
        BY <4>1, <4>3 DEF Leg, Call
      <4>5. Calms({f})
        BY <4>2, <4>4 DEF Calms, Calm
      <4> QED BY <4>5
    <3>7. ASSUME Reports(t) PROVE \E F : Calms(F)
      BY <2>0, <3>7 DEF Reports
    <3>8. \E F : Calms(F)
      BY <2>2, <3>6, <3>7
    <3> QED BY <1>0, <3>5, <3>8, CalmKept DEF MirrorInv
  <2> QED BY <1>3, <2>1, <2>2, RedriveCalls
<1> QED BY <1>2, <1>3

(* A boot restores the row's state; there is nothing to resume. *)
LEMMA OutsideCalm ==
    ASSUME NoReversals, TypeInv, Down, MirrorInv, NEW t \in Threads,
           Boot(t) \/ Resume(t) \/ Crash \/ \E e \in Entry : Enter(t, e)
    PROVE  MirrorInv'
<1>0. CalmInv
  BY DEF MirrorInv
<1>1. ASSUME NEW e \in Entry, Enter(t, e) PROVE MirrorInv'
  <2>1. Calms({Adv(NextOcc)})
    BY <1>1, EnterCalls DEF Calms, Calm, Adv, Call
  <2> QED BY <1>0, <1>1, <2>1, CalmKept DEF Enter, MirrorInv
<1>2. CASE Crash
  <2>1. Calms({}) /\ ~up'
    BY <1>2, GoneCalls DEF Calms, Crash, Gone
  <2> QED BY <1>0, <2>1, CalmKept DEF MirrorInv
<1>3. CASE Boot(t)
  <2>1. Calms({BootCall(owed)})
    BY <1>3, BootCalls DEF Calms, Calm, BootCall, Call
  <2>2. Mirrors(cur', obj', disk')
    BY <1>3 DEF Boot, Mirrors, Instance
  <2> QED BY <1>0, <2>1, <2>2, CalmKept DEF MirrorInv
<1>4. CASE Resume(t)
  <2>1. cur \in DOMAIN obj /\ obj[cur].state = NeedsHuman /\ obj \in Seq(InstanceType)
    BY <1>4, ResumeCalls DEF Resume, TypeInv, Types
  <2>a. obj[cur] \in InstanceType
    BY <2>1
  <2>2. obj[cur].state \in States \cup {None}
    BY <2>a DEF InstanceType, Held
  <2> QED BY <2>1, <2>2, SagaAssumption DEF NoReversals
<1> QED BY <1>1, <1>2, <1>3, <1>4

(* MirrorInv is inductive for a saga that never reverses. *)
LEMMA MirrorStep ==
    ASSUME NoReversals, TypeInv, Down, MirrorInv, [Next]_vars PROVE MirrorInv'
<1>1. CASE UNCHANGED vars
  BY <1>1 DEF vars, MirrorInv, CalmInv
<1>2. ASSUME NEW t \in Threads,
             \/ SaveCopy(t) \/ DrainDone(t) \/ Drain(t) \/ Compensate(t) \/ CompensationFails(t)
             \/ CompensationRaised(t) \/ CompensateLost(t) \/ ResumeRestore(t) \/ ResumeStore(t)
      PROVE  FALSE
  <2>1. /\ stack[t] # << >>
        /\ \/ Top(t).k = "leg" /\ Top(t).at \in {"save", "drain", "compensate", "compensated"}
           \/ Top(t).k = "resume"
    BY <1>2 DEF SaveCopy, DrainDone, Drain, Draining, Compensate, CompensationFails,
                CompensationRaised, CompensateLost, ResumeRestore, ResumeStore, At
  <2>2. Known(Top(t))
    BY <2>1, TopKnown
  <2> QED BY <2>1, <2>2 DEF Known, MirrorInv, CalmInv, Calm
<1>a. ASSUME NEW t \in Threads, BootRaised(t) PROVE MirrorInv'
  <2>1. Calms({}) /\ ~up'
    BY <1>a, GoneCalls DEF Calms, BootRaised, Gone
  <2> QED BY <2>1, CalmKept DEF MirrorInv
<1>3. ASSUME NEW t \in Threads, Step(t) PROVE MirrorInv'
  BY <1>2, <1>a, <1>3, AdvCalm, MarkCalm, SendCalm, BootCalm DEF Step
<1>4. CASE Crash /\ Threads = {}
  BY <1>4 DEF Crash, Gone, MirrorInv, CalmInv
<1>5. CASE Crash /\ Threads # {}
  BY <1>5, OutsideCalm
<1> QED BY <1>1, <1>3, <1>4, <1>5, OutsideCalm DEF Next

(* At rest the store holds the live instance's state, and no row when there  *)
(* is none, whatever the threads, raises, deaths and boots, for a saga that  *)
(* declares neither compensations nor a compensating leg nor a state to park *)
(* in: every other write is made under the mutex, of the instance that is    *)
(* live then (transitions.rb record_progress).  The writes of a resume and   *)
(* of the ledger are made without it.                                        *)
THEOREM StoreFollowsLive ==
    ASSUME NoReversals PROVE Spec => []StoreMirrorsLive
<1>1. Init => MirrorInv
  BY DEF Init, MirrorInv, CalmInv, Mirrors, NoRow
<1>2. TypeInv /\ Down /\ MirrorInv /\ [Next]_vars => MirrorInv'
  BY MirrorStep
<1>3. MirrorInv => StoreMirrorsLive
  BY DEF MirrorInv, StoreMirrorsLive, Quiescent, Mirrors
<1> QED BY <1>1, <1>2, <1>3, TypeStart, TypeStep, PTL DEF Spec

----------------------------------------------------------------------------
(* Which dispatch has an entry of its own on the ledger. *)

RecOK(f) ==
    f.k = "leg" /\ f.rec =>
        f.at \in {"send", "sent", "settle"} \/ (f.at = "save" /\ f.then = "send")
RecInv == \A t \in Threads : \A j \in DOMAIN stack[t] : RecOK(stack[t][j])
RecCalls(F) == Calls(F) /\ \A f \in F : RecOK(f)

(* What of RecInv is left to show of a step, from the calls it adds. *)
LEMMA RecKept == ASSUME RecInv, NEW F, RecCalls(F) PROVE RecInv'
<1>1. \A f : Known(f) => RecOK(f)
  BY DEF Known, RecInv
<1> QED BY <1>1 DEF RecCalls, Calls, RecInv, RecOK

(* The innermost call has an entry only between its record and its outcome. *)
LEMMA RecTop ==
    ASSUME TypeInv, RecInv, NEW t \in Threads, stack[t] # << >>
    PROVE  Top(t) \in CallType /\ RecOK(Top(t))
BY TopKnown DEF Known, RecInv

(* An advance records no entry. *)
LEMMA AdvRec ==
    ASSUME TypeInv, RecInv, NEW t \in Threads,
           ClaimEvent(t) \/ BeginSaga(t) \/ AdvanceSaga(t) \/ EndSaga(t)
    PROVE  RecInv'
<1>0. stack[t] # << >> /\ Top(t).k = "adv"
  BY DEF ClaimEvent, BeginSaga, AdvanceSaga, EndSaga, At
<1>1. \A at : RecOK(Goto(t, at))
  BY <1>0, GotoIs DEF RecOK
<1>2. \A on, ev, h, c, i : RecOK(Leg(on, ev, h, c, i))
  BY DEF RecOK, Leg, Call
<1>3. CASE ClaimEvent(t)
  BY <1>1, <1>3, ClaimCalls, RecKept DEF RecCalls
<1>4. CASE BeginSaga(t)
  BY <1>1, <1>4, BeginCalls, RecKept DEF RecCalls
<1>5. CASE AdvanceSaga(t)
  <2>1. CASE Calls({Goto(t, "end")})
    BY <1>1, <2>1, RecKept DEF RecCalls
  <2>2. ASSUME NEW h \in Handlers, TakesLeg(t, h) PROVE RecInv'
    <3>1. RecCalls({Goto(t, "end"), Leg(h.on, Top(t).ev, h, cur, 0)})
      BY <1>1, <1>2, <2>2 DEF RecCalls, TakesLeg
    <3> QED BY <3>1, RecKept
  <2> QED BY <1>5, <2>1, <2>2, AdvanceCalls
<1>6. CASE EndSaga(t)
  <2>1. RecCalls({})
    BY <1>6, EndCalls DEF RecCalls
  <2> QED BY <2>1, RecKept
<1> QED BY <1>3, <1>4, <1>5, <1>6

(* A leg between dispatches holds no entry of its own. *)
LEMMA LegRec ==
    ASSUME TypeInv, RecInv, NEW t \in Threads,
           StartDispatch(t) \/ StartRaised(t) \/ SettleDispatch(t) \/ FinishLeg(t) \/ SaveCopy(t)
           \/ Unwind(t)
    PROVE  RecInv'
<1>0. /\ stack[t] # << >> /\ Top(t).k = "leg"
  BY DEF StartDispatch, StartRaised, SettleDispatch, FinishLeg, SaveCopy, Unwind, At
<1>a. Top(t) \in CallType /\ RecOK(Top(t))
  BY <1>0, RecTop
<1>1. ASSUME ~Top(t).rec, NEW at PROVE RecOK(Goto(t, at))
  BY <1>0, <1>1, GotoIs DEF RecOK
<1>2. CASE StartDispatch(t)
  <2>1. ~Top(t).rec
    BY <1>0, <1>2, <1>a DEF StartDispatch, At, RecOK
  <2>2. RecCalls({Goto(t, "unwind"), Goto(t, "record")})
    BY <1>1, <1>2, <2>1, StartCalls DEF RecCalls
  <2> QED BY <2>2, RecKept
<1>3. CASE SettleDispatch(t)
  <2>1. ~SettledCall(t).rec
    BY <1>a DEF SettledCall, Goto, CallType
  <2>2. RecCalls({SettledCall(t)})
    BY <1>3, <2>1, SettleCalls DEF RecCalls, RecOK
  <2> QED BY <2>2, RecKept
<1>4. CASE FinishLeg(t) \/ StartRaised(t)
  <2>1. RecCalls({})
    BY <1>4, FinishCalls, RaisedCalls DEF RecCalls
  <2> QED BY <2>1, RecKept
<1>5. CASE SaveCopy(t)
  <2>1. PICK g : g = [Top(t) EXCEPT !.at = Top(t).then, !.copy = NoRow, !.then = "start"]
    OBVIOUS
  <2>2. g.at = Top(t).then /\ g.rec = Top(t).rec
    BY <1>a, <2>1 DEF CallType
  <2>3. Top(t).rec => Top(t).then = "send"
    BY <1>0, <1>5, <1>a DEF SaveCopy, At, RecOK
  <2>4. RecOK(g) /\ Calls({g})
    BY <1>5, <2>1, <2>2, <2>3, SaveCalls DEF RecOK
  <2>5. RecCalls({g})
    BY <2>4 DEF RecCalls
  <2> QED BY <2>5, RecKept

<1>10. CASE Unwind(t)
  <2>1. RecOK(Goto(t, "settle"))
    BY <1>0, GotoIs DEF RecOK
  <2>2. CASE Calls({Goto(t, "settle")})
    BY <2>1, <2>2, RecKept DEF RecCalls
  <2>3. ASSUME NEW h \in Handlers, Reverses(t, h) PROVE RecInv'
    <3>1. PICK leg : leg = Leg(Refused, Top(t).ev, h, Top(t).inst, 0)
      OBVIOUS
    <3>2. RecOK(leg)
      BY <3>1 DEF RecOK, Leg, Call
    <3>3. RecCalls({Goto(t, "settle"), leg})
      BY <2>1, <2>3, <3>1, <3>2 DEF RecCalls, Reverses
    <3> QED BY <3>3, RecKept
  <2> QED BY <1>10, <2>2, <2>3, UnwindCalls
<1> QED BY <1>2, <1>3, <1>4, <1>5, <1>10

(* A leg that reverses holds no entry of its own. *)
LEMMA DrainRec ==
    ASSUME TypeInv, RecInv, NEW t \in Threads,
           DrainDone(t) \/ Drain(t) \/ CompensationFails(t) \/ Compensate(t)
           \/ CompensationRaised(t) \/ CompensateLost(t)
    PROVE  RecInv'
<1>0. /\ stack[t] # << >> /\ Top(t).k = "leg" /\ Top(t).at \in {"drain", "compensate", "compensated"}
  BY DEF DrainDone, Drain, Draining, CompensationFails, Compensate, CompensationRaised, CompensateLost, At
<1>1. PICK f \in CallType : f = Top(t)
  BY <1>0, TopKnown
<1>2. ~f.rec
  BY <1>0, <1>1, RecTop DEF RecOK
<1>3. ~NextEntry(f).rec
  BY <1>2 DEF NextEntry, CallType
<1>4. CASE DrainDone(t)
  <2>1. PICK e \in CallType : e = NextEntry(f)
    BY <1>1, <1>4, DrainedCalls
  <2>2. PICK g : g = Saving(obj[f.inst], e, "start")
    OBVIOUS
  <2>3. ~g.rec
    BY <1>3, <2>1, <2>2 DEF Saving, CallType
  <2>4. RecCalls({g})
    BY <1>1, <1>4, <2>1, <2>2, <2>3, DrainedCalls DEF RecCalls, RecOK
  <2> QED BY <2>4, RecKept
<1>5. CASE Drain(t)
  <2>1. PICK e : e = Newest(obj[f.inst])
    OBVIOUS
  <2>2. PICK g : g = [f EXCEPT !.at = "compensate", !.entry = e, !.tries = 0]
    OBVIOUS
  <2>3. ~g.rec
    BY <1>2, <2>2 DEF CallType
  <2>4. RecCalls({g})
    BY <1>1, <1>5, <2>1, <2>2, <2>3, DrainPops DEF Pops, RecCalls, RecOK
  <2> QED BY <2>4, RecKept
<1>6. CASE CompensationFails(t) \/ CompensationRaised(t) \/ CompensateLost(t)
  <2>1. ~Again(t).rec
    BY <1>1, <1>2 DEF Again, CallType
  <2>2. RecCalls({NextEntry(Top(t)), Again(t)})
    BY <1>1, <1>3, <1>6, <2>1, UncompensatedCalls DEF RecCalls, RecOK
  <2> QED BY <2>2, RecKept
<1>7. CASE Compensate(t)
  <2>1. RecOK(Goto(t, "compensated")) /\ RecOK(NextEntry(Top(t))) /\ RecOK(Adv(NextOcc))
    BY <1>0, <1>1, <1>2, <1>3, GotoIs DEF RecOK, Adv, Call
  <2>2. RecCalls({NextEntry(Top(t))}) \/ RecCalls({Goto(t, "compensated"), Adv(NextOcc)})
    BY <1>7, <2>1, CompensateCalls DEF Reacts, RecCalls
  <2> QED BY <2>2, RecKept
<1> QED BY <1>4, <1>5, <1>6, <1>7

(* A dispatch's entry is its own from its record to its outcome. *)
LEMMA SendRec ==
    ASSUME TypeInv, RecInv, NEW t \in Threads,
           RecordCompensation(t) \/ SendDelivered(t) \/ SendSkipped(t) \/ SendRefused(t)
           \/ SendRaised(t) \/ SendLost(t)
    PROVE  RecInv'
<1>0. /\ stack[t] # << >> /\ Top(t).k = "leg"
  BY DEF RecordCompensation, SendDelivered, SendSkipped, SendRefused, SendRaised, SendLost, At
<1>a. Top(t) \in CallType /\ RecOK(Top(t))
  BY <1>0, RecTop
<1>1. RecOK(Goto(t, "send")) /\ RecOK(Goto(t, "sent")) /\ RecOK(Goto(t, "settle"))
  BY <1>0, GotoIs DEF RecOK
<1>2. CASE RecordCompensation(t)
  <2>1. CASE Calls({Goto(t, "send")})
    BY <1>1, <2>1, RecKept DEF RecCalls
  <2>2. CASE Records(t)
    <3>1. PICK g : g = Saving(obj'[Top(t).inst], [Top(t) EXCEPT !.rec = TRUE], "send")
      OBVIOUS
    <3>2. g.at = "save" /\ g.then = "send"
      BY <1>a, <3>1 DEF Saving, CallType
    <3>3. RecCalls({g})
      BY <2>2, <3>1, <3>2 DEF Records, RecCalls, RecOK
    <3> QED BY <3>3, RecKept
  <2> QED BY <1>2, <2>1, <2>2, RecordCalls
<1>3. CASE SendDelivered(t)
  <2>1. RecOK(Adv(NextOcc))
    BY DEF RecOK, Adv, Call
  <2>2. RecCalls({Goto(t, "settle")}) \/ RecCalls({Goto(t, "sent"), Adv(NextOcc)})
    BY <1>1, <1>3, <2>1, DeliveredCalls DEF Reacts, RecCalls
  <2> QED BY <2>2, RecKept
<1>4. CASE SendSkipped(t)
  <2>1. RecCalls({Goto(t, "settle")})
    BY <1>1, <1>4, SkippedCalls DEF RecCalls
  <2> QED BY <2>1, RecKept
<1>5. CASE SendRefused(t) \/ SendRaised(t) \/ SendLost(t)
  <2>0. PICK n \in Nat, next \in {"record", "unwind"} : Fails(t, n, next)
    BY <1>5, FailedCalls
  <2>1. PICK g : g = Tried(t, n)
    OBVIOUS
  <2>2. g \in CallType /\ g.rec = Top(t).rec
    BY <1>a, <2>1 DEF Tried, CallType
  <2>3. CASE ~Top(t).rec /\ Calls({[g EXCEPT !.at = next]})
    <3>1. PICK f : f = [g EXCEPT !.at = next]
      OBVIOUS
    <3>2. ~f.rec
      BY <2>2, <2>3, <3>1 DEF CallType
    <3>3. RecCalls({f})
      BY <2>3, <3>1, <3>2 DEF RecCalls, RecOK
    <3> QED BY <3>3, RecKept
  <2>4. CASE Unrecords(t, g, next)
    <3>1. PICK f : f = Saving(obj'[g.inst], [g EXCEPT !.rec = FALSE], next)
      OBVIOUS
    <3>2. ~f.rec
      BY <2>2, <3>1 DEF Saving, CallType
    <3>3. RecCalls({f})
      BY <2>4, <3>1, <3>2 DEF Unrecords, RecCalls, RecOK
    <3> QED BY <3>3, RecKept
  <2> QED BY <2>0, <2>1, <2>3, <2>4 DEF Fails
<1> QED BY <1>2, <1>3, <1>4, <1>5

(* A boot, a resume and a caller record no entry. *)
LEMMA BootRec ==
    ASSUME TypeInv, Down, RecInv, NEW t \in Threads,
           BootRow(t) \/ RedriveSaga(t) \/ Boot(t) \/ Resume(t) \/ ResumeRestore(t)
           \/ ResumeStore(t) \/ \E e \in Entry : Enter(t, e)
    PROVE  RecInv'
<1>a. \A n : RecOK(Adv(n)) /\ RecOK(BootCall(n))
  BY DEF RecOK, Adv, BootCall, Call
<1>b. \A on, ev, h, c, i : RecOK(Leg(on, ev, h, c, i))
  BY DEF RecOK, Leg, Call
<1>c. Calls({}) => RecInv'
  BY RecKept DEF RecCalls
<1>1. CASE BootRow(t)
  <2>0. stack[t] # << >> /\ Top(t).k = "boot" /\ Top(t) \in CallType
    BY <1>1, TopKnown DEF BootRow, At
  <2>1. CASE Calls({Goto(t, "sagas")})
    <3>1. RecCalls({Goto(t, "sagas")})
      BY <2>0, <2>1, GotoIs DEF RecCalls, RecOK
    <3> QED BY <3>1, RecKept
  <2>2. ASSUME NEW ev \in Top(t).todo, Calls({[Top(t) EXCEPT !.todo = @ \ {ev}], Adv(ev)})
        PROVE  RecInv'
    <3>1. PICK f : f = [Top(t) EXCEPT !.todo = @ \ {ev}]
      OBVIOUS
    <3>2. f.k = "boot"
      BY <2>0, <3>1 DEF CallType
    <3>3. RecCalls({f, Adv(ev)})
      BY <1>a, <2>2, <3>1, <3>2 DEF RecCalls, RecOK
    <3> QED BY <3>3, RecKept
  <2> QED BY <1>1, <2>1, <2>2, RowCalls
<1>2. CASE RedriveSaga(t)
  <2>1. ASSUME NEW h \in Handlers, Resumes(t, h) PROVE \E F : RecCalls(F)
    <3>1. PICK f : f = Leg(obj[cur].stalled.on, obj[cur].stalled.ev, h, cur, obj[cur].stalled.settled + 1)
      OBVIOUS
    <3>2. RecCalls({f})
      BY <1>b, <2>1, <3>1 DEF Resumes, RecCalls
    <3> QED BY <3>2
  <2>2. Calls({}) => RecCalls({})
    BY DEF RecCalls
  <2>3. \E F : RecCalls(F)
    BY <1>2, <2>1, <2>2, RedriveCalls DEF Reports
  <2> QED BY <2>3, RecKept
<1>3. CASE Boot(t)
  <2>1. RecCalls({BootCall(owed)})
    BY <1>3, <1>a, BootCalls DEF RecCalls
  <2> QED BY <2>1, RecKept
<1>4. CASE Resume(t)
  <2>a. RecOK(ResumeCall)
    BY DEF RecOK, ResumeCall, Call
  <2>1. RecCalls({ResumeCall})
    BY <1>4, <2>a, ResumeCalls DEF RecCalls
  <2> QED BY <2>1, RecKept
<1>6. CASE ResumeRestore(t)
  <2>1. stack[t] # << >> /\ Top(t).k = "resume" /\ Top(t) \in CallType
    BY <1>6, TopKnown DEF ResumeRestore, At
  <2>a. PICK r : r = RowOf(Restored(obj[Top(t).inst]), NoMarker)
    OBVIOUS
  <2>2. Restoring(t).k = "resume"
    BY <2>1, <2>a DEF Restoring, CallType
  <2>3. RecCalls({Restoring(t)})
    BY <1>6, <2>2, RestoreCalls DEF RecCalls, RecOK, Restores
  <2> QED BY <2>3, RecKept
<1>7. CASE ResumeStore(t)
  <2>1. Calls({})
    BY <1>7, PopCalls DEF ResumeStore, At, TypeInv, Types
  <2> QED BY <1>c, <2>1
<1>5. ASSUME NEW e \in Entry, Enter(t, e) PROVE RecInv'
  <2>1. RecCalls({Adv(NextOcc)})
    BY <1>5, <1>a, EnterCalls DEF RecCalls
  <2> QED BY <2>1, RecKept
<1> QED BY <1>1, <1>2, <1>3, <1>4, <1>5, <1>6, <1>7

(* RecInv is inductive. *)
LEMMA RecStep == TypeInv /\ Down /\ RecInv /\ [Next]_vars => RecInv'
<1>0. Gone => RecInv'
  BY GoneCalls DEF RecInv
<1>1. ASSUME TypeInv, Down, RecInv, NEW t \in Threads, Step(t) PROVE RecInv'
  <2>1. BootRaised(t) => RecInv'
    BY <1>0 DEF BootRaised
  <2> QED BY <1>1, <2>1, AdvRec, LegRec, DrainRec, SendRec, BootRec DEF Step
<1>2. CASE Crash
  BY <1>0, <1>2 DEF Crash
<1>3. CASE UNCHANGED vars
  BY <1>3 DEF vars, RecInv
<1> QED BY <1>1, <1>2, <1>3, BootRec DEF Next

----------------------------------------------------------------------------
(* The ledger of a saga one thread runs, while its process has not died. *)


(* A call that waits for the one above it. *)
Waiting == {"end", "sent", "settle", "compensated", "rows"}
Waits(s) == \A j \in 1..(Len(s) - 1) : s[j].at \in Waiting

(* The dispatch that has its own entry on the ledger and no outcome yet. *)
Pending(f) == f.k = "leg" /\ f.rec /\ (f.at = "send" \/ (f.at = "save" /\ f.then = "send"))
TopPends(t) == stack[t] # << >> /\ Pending(Top(t))

(* That entry is the newest; every other one is of a dispatch applied. *)
DispatchOf(f) == <<f.on, f.ev, f.i>>
AllApplied(l) == \A n \in DOMAIN l : l[n].of \in applied
Clean == \A j \in DOMAIN obj : AllApplied(obj[j].ledger)
Owns(f) ==
    LET l == obj[f.inst].ledger IN
    /\ l # << >> /\ l[Len(l)].of = DispatchOf(f)
    /\ AllApplied(SubSeq(l, 1, Len(l) - 1))
    /\ \A j \in DOMAIN obj : j # f.inst => AllApplied(obj[j].ledger)
LedgerInv ==
    /\ undone \subseteq applied
    /\ \A t \in Threads : Waits(stack[t]) /\ (IF TopPends(t) THEN Owns(Top(t)) ELSE Clean)

(* Every compensation on its way is of a dispatch applied. *)
Repaid == \A t \in Threads : \A j \in DOMAIN stack[t] :
              Repaying(stack[t][j]) => stack[t][j].entry.of \in applied

(* No boot runs, nor a leg that a boot redrives. *)
Unbooted == ~Booting /\ \A t \in Threads : \A j \in DOMAIN stack[t] : stack[t][j].k # "boot"
PhantomInv == crashes \in Nat /\ (crashes = 0 => up /\ LedgerInv /\ Repaid /\ Unbooted)

(* No dispatch of t pends after the step. *)
After(t) == Waits(stack'[t]) /\ (stack'[t] # << >> => ~Pending(stack'[t][Len(stack'[t])]))

(* The calls of t after its innermost is replaced, called from, or returns. *)
LEMMA SetShape ==
    ASSUME TypeInv, TypeInv', NEW t \in Threads, stack[t] # << >>, NEW f, SetTop(t, f)
    PROVE  /\ Len(stack'[t]) = Len(stack[t]) /\ stack'[t] # << >>
           /\ stack'[t][Len(stack'[t])] = f
           /\ \A j \in 1..(Len(stack[t]) - 1) : stack'[t][j] = stack[t][j]
<1>1. PICK s : s = stack[t]
  OBVIOUS
<1>2. PICK r : r = stack'[t]
  OBVIOUS
<1>3. s \in Seq(CallType) /\ r \in Seq(CallType) /\ s # << >>
  BY <1>1, <1>2 DEF TypeInv, Types
<1>4. r = [s EXCEPT ![Len(s)] = f]
  BY <1>1, <1>2 DEF SetTop, TypeInv, Types
<1>5. Len(r) = Len(s) /\ Len(s) \in Nat \ {0} /\ DOMAIN s = 1..Len(s)
  BY <1>3, <1>4
<1>6. Len(s) \in DOMAIN s
  BY <1>5
<1>7. r[Len(s)] = f
  BY <1>4, <1>6
<1>8. ASSUME NEW j \in 1..(Len(s) - 1) PROVE r[j] = s[j]
  <2>1. j \in DOMAIN s /\ j # Len(s)
    BY <1>5, <1>8
  <2> QED BY <1>4, <2>1
<1> QED BY <1>1, <1>2, <1>3, <1>5, <1>7, <1>8

(* The calls of t after its innermost one calls another. *)
LEMMA PushShape ==
    ASSUME TypeInv, TypeInv', NEW t \in Threads, stack[t] # << >>, NEW f, NEW g, SetTopAndPush(t, f, g)
    PROVE  /\ Len(stack'[t]) = Len(stack[t]) + 1 /\ stack'[t] # << >>
           /\ stack'[t][Len(stack'[t])] = g /\ stack'[t][Len(stack[t])] = f
           /\ \A j \in 1..(Len(stack[t]) - 1) : stack'[t][j] = stack[t][j]
<1>1. PICK s : s = stack[t]
  OBVIOUS
<1>2. PICK r : r = stack'[t]
  OBVIOUS
<1>3. s \in Seq(CallType) /\ r \in Seq(CallType) /\ s # << >>
  BY <1>1, <1>2 DEF TypeInv, Types
<1>4. PICK S : S = CallType \cup {f, g}
  OBVIOUS
<1>5. PICK q : q = [s EXCEPT ![Len(s)] = f]
  OBVIOUS
<1>6. Len(s) \in Nat \ {0} /\ DOMAIN s = 1..Len(s)
  BY <1>3
<1>e. PICK n \in Nat \ {0} : n = Len(s)
  BY <1>6
<1>a. Len(s) \in DOMAIN s /\ \A j \in DOMAIN s : s[j] \in CallType
  BY <1>3, <1>6
<1>b. DOMAIN q = DOMAIN s /\ q[Len(s)] = f /\ \A j \in DOMAIN s : j # Len(s) => q[j] = s[j]
  BY <1>5, <1>a
<1>c. q \in [DOMAIN s -> S]
  BY <1>4, <1>5, <1>a, <1>b
<1>d. ASSUME NEW j \in 1..(Len(s) - 1) PROVE j \in DOMAIN s /\ j # Len(s)
  <2>1. j \in 1..(n - 1) /\ DOMAIN s = 1..n
    BY <1>6, <1>d, <1>e
  <2>2. j \in 1..n /\ j # n
    BY <2>1
  <2> QED BY <1>e, <2>1, <2>2
<1>7. q \in [1..Len(s) -> S] /\ q[Len(s)] = f /\ \A j \in 1..(Len(s) - 1) : q[j] = s[j]
  BY <1>6, <1>b, <1>c, <1>d
<1>8. q \in Seq(S) /\ Len(q) = Len(s)
  BY <1>6, <1>7
<1>9. r = Append(q, g)
  BY <1>1, <1>2, <1>5 DEF SetTopAndPush, TypeInv, Types
<1>10. Len(r) = Len(s) + 1 /\ r[Len(s) + 1] = g /\ \A j \in 1..Len(s) : r[j] = q[j]
  BY <1>4, <1>6, <1>8, <1>9
<1>11. r[Len(s)] = f /\ \A j \in 1..(Len(s) - 1) : r[j] = s[j]
  BY <1>6, <1>7, <1>10
<1> QED BY <1>1, <1>2, <1>3, <1>6, <1>10, <1>11

(* The calls of t after its innermost one returns. *)
LEMMA PopShape ==
    ASSUME TypeInv, TypeInv', NEW t \in Threads, stack[t] # << >>, Pop(t)
    PROVE  /\ Len(stack'[t]) = Len(stack[t]) - 1
           /\ \A j \in 1..(Len(stack[t]) - 1) : stack'[t][j] = stack[t][j]
           /\ stack'[t] # << >> => Len(stack'[t]) \in 1..(Len(stack[t]) - 1)
<1>1. PICK s : s = stack[t]
  OBVIOUS
<1>2. PICK r : r = stack'[t]
  OBVIOUS
<1>3. s \in Seq(CallType) /\ r \in Seq(CallType) /\ s # << >> /\ r = SubSeq(s, 1, Len(s) - 1)
  BY <1>1, <1>2 DEF Pop, TypeInv, Types
<1>4. Len(s) \in Nat \ {0}
  BY <1>3
<1>5. PICK n \in Nat : n = Len(s) - 1
  BY <1>4
<1>6. r = SubSeq(s, 1, n) /\ n <= Len(s)
  BY <1>3, <1>4, <1>5
<1>7. Len(r) = n /\ \A j \in 1..n : r[j] = s[j]
  BY <1>3, <1>6
<1>8. r # << >> => Len(r) \in 1..(Len(s) - 1)
  BY <1>3, <1>4, <1>5, <1>7
<1> QED BY <1>1, <1>2, <1>5, <1>7, <1>8

(* A thread that runs has at least one call. *)
LEMMA DepthIs ==
    ASSUME TypeInv, NEW t \in Threads, stack[t] # << >>
    PROVE  Len(stack[t]) \in Nat /\ Len(stack[t]) >= 1
<1>1. PICK s \in Seq(CallType) : s = stack[t]
  BY DEF TypeInv, Types
<1> QED BY <1>1

(* The calls below a replaced one still wait. *)
LEMMA TopReplaced ==
    ASSUME TypeInv, TypeInv', NEW t \in Threads, stack[t] # << >>, Waits(stack[t]),
           NEW f, SetTop(t, f)
    PROVE  /\ Waits(stack'[t]) /\ stack'[t] # << >>
           /\ stack'[t][Len(stack'[t])] = f
BY SetShape DEF Waits

(* The calls below a new one wait. *)
LEMMA TopPushed ==
    ASSUME TypeInv, TypeInv', NEW t \in Threads, stack[t] # << >>, Waits(stack[t]),
           NEW f, NEW g, f.at \in Waiting, SetTopAndPush(t, f, g)
    PROVE  /\ Waits(stack'[t]) /\ stack'[t] # << >>
           /\ stack'[t][Len(stack'[t])] = g
<1>1. \A j \in 1..Len(stack[t]) : j = Len(stack[t]) \/ j \in 1..(Len(stack[t]) - 1)
  BY DepthIs
<1>2. Len(stack'[t]) - 1 = Len(stack[t])
  BY DepthIs, PushShape
<1>3. \A j \in 1..Len(stack[t]) : stack'[t][j].at \in Waiting
  BY <1>1, PushShape DEF Waits
<1> QED BY <1>2, <1>3, PushShape DEF Waits

(* A call that waited does not pend when it is returned to. *)
LEMMA TopPopped ==
    ASSUME TypeInv, TypeInv', NEW t \in Threads, stack[t] # << >>, Waits(stack[t]), Pop(t)
    PROVE  After(t)
<1>1. \A j \in 1..(Len(stack[t]) - 1) : stack'[t][j].at \in Waiting
  BY PopShape DEF Waits
<1>2. 1..(Len(stack'[t]) - 1) \subseteq 1..(Len(stack[t]) - 1)
  BY DepthIs, PopShape
<1>3. stack'[t] # << >> => stack'[t][Len(stack'[t])].at \in Waiting
  BY <1>1, PopShape
<1> QED BY <1>1, <1>2, <1>3 DEF After, Waits, Pending, Waiting

(* Nor does one that a raise leaves calls for. *)
LEMMA TopLeft ==
    ASSUME TypeInv, TypeInv', NEW t \in Threads, Waits(stack[t]), NEW n \in Relays(t),
           stack' = [stack EXCEPT ![t] = SubSeq(@, 1, n - 1)]
    PROVE  After(t)
<1>1. PICK s \in Seq(CallType) : s = stack[t]
  BY DEF TypeInv, Types
<1>2. PICK r : r = stack'[t]
  OBVIOUS
<1>3. n \in 1..Len(s) /\ Len(s) \in Nat
  BY <1>1 DEF Relays, Depth
<1>4. PICK m \in Nat : m = n - 1
  BY <1>3
<1>5. m <= Len(s) - 1 /\ m <= Len(s)
  BY <1>3, <1>4
<1>6. r = SubSeq(s, 1, m)
  BY <1>1, <1>2, <1>4 DEF TypeInv, Types
<1>7. r \in Seq(CallType) /\ Len(r) = m /\ \A j \in 1..m : r[j] = s[j]
  BY <1>1, <1>5, <1>6
<1>8. \A j \in 1..m : r[j].at \in Waiting
  <2>1. \A j \in 1..m : j \in 1..(Len(s) - 1)
    BY <1>3, <1>5
  <2> QED BY <1>1, <1>7, <2>1 DEF Waits
<1>9. r # << >> => m \in 1..m
  BY <1>7
<1>10. 1..(m - 1) \subseteq 1..m
  OBVIOUS
<1> QED BY <1>2, <1>7, <1>8, <1>9, <1>10 DEF After, Waits, Pending, Waiting

(* Nothing pends after the innermost call is replaced by one that does not. *)
LEMMA AfterSet ==
    ASSUME TypeInv, TypeInv', NEW t \in Threads, stack[t] # << >>, Waits(stack[t]),
           NEW f, SetTop(t, f), ~Pending(f)
    PROVE  After(t)
BY TopReplaced DEF After

(* Nothing pends after a call that does not is added. *)
LEMMA AfterPush ==
    ASSUME TypeInv, TypeInv', NEW t \in Threads, stack[t] # << >>, Waits(stack[t]),
           NEW f, NEW g, f.at \in Waiting, SetTopAndPush(t, f, g), ~Pending(g)
    PROVE  After(t)
BY TopPushed DEF After

(* Ledgers that stay, shrink or are new and empty. *)
Ledgers ==
    \A j \in DOMAIN obj' :
        \/ obj'[j].ledger = << >>
        \/ j \in DOMAIN obj /\ obj'[j].ledger = obj[j].ledger

(* Entries of applied dispatches stay so. *)
LEMMA CleanKept == ASSUME Clean, Ledgers, applied \subseteq applied' PROVE Clean'
BY DEF Clean, Ledgers, AllApplied

(* LedgerInv is kept by a step that adds no entry and answers nothing. *)
LEMMA LedgerKept ==
    ASSUME OneThread, LedgerInv, NEW t \in Threads, ~TopPends(t), After(t), Ledgers,
           UNCHANGED <<undone, applied>>
    PROVE  LedgerInv'
<1>1. Clean
  BY DEF LedgerInv
<1>2. Clean'
  BY <1>1, CleanKept
<1>3. \A u \in Threads : u = t
  BY DEF OneThread
<1>4. Waits(stack[t])' /\ ~TopPends(t)'
  BY DEF After, TopPends, Top, Depth
<1> QED BY <1>2, <1>3, <1>4 DEF LedgerInv

(* An instance whose ledger is kept leaves every ledger as it was. *)
LEMMA LedgersChanged ==
    ASSUME TypeInv, NEW c \in DOMAIN obj, NEW p, p.ledger = obj[c].ledger, obj' = [obj EXCEPT ![c] = p]
    PROVE  Ledgers
<1>1. DOMAIN obj' = DOMAIN obj /\ \A j \in DOMAIN obj : obj'[j] = IF j = c THEN p ELSE obj[j]
  BY DEF TypeInv, Types
<1> QED BY <1>1 DEF Ledgers

(* Unchanged instances keep their ledgers. *)
LEMMA LedgersSame == UNCHANGED obj => Ledgers
BY DEF Ledgers

(* Leg#take keeps the ledger. *)
LEMMA MovedLedgers ==
    ASSUME TypeInv, NEW c \in DOMAIN obj, NEW h, obj' = [obj EXCEPT ![c] = Moved(@, h)]
    PROVE  Ledgers
<1>1. obj[c] \in InstanceType
  BY DEF TypeInv, Types
<1>2. PICK p : p = Moved(obj[c], h)
  OBVIOUS
<1>3. p.ledger = obj[c].ledger
  BY <1>1, <1>2 DEF Moved, InstanceType
<1>4. obj' = [obj EXCEPT ![c] = p]
  BY <1>2
<1> QED BY <1>3, <1>4, LedgersChanged

(* An advance keeps LedgerInv. *)
LEMMA AdvLedger ==
    ASSUME OneThread, TypeInv, TypeInv', LedgerInv, NEW t \in Threads,
           ClaimEvent(t) \/ BeginSaga(t) \/ AdvanceSaga(t) \/ EndSaga(t)
    PROVE  LedgerInv'
<1>0. stack[t] # << >> /\ Top(t).k = "adv" /\ Waits(stack[t]) /\ UNCHANGED <<undone, applied>>
  BY DEF ClaimEvent, BeginSaga, AdvanceSaga, EndSaga, At, LedgerInv, history
<1>a. ~TopPends(t)
  BY <1>0 DEF TopPends, Pending
<1>b. \A at : ~Pending(Goto(t, at)) /\ Goto(t, at).at = at
  BY <1>0, GotoIs DEF Pending
<1>1. SUFFICES After(t) /\ Ledgers
  BY <1>0, <1>a, LedgerKept
<1>2. CASE ClaimEvent(t)
  <2>1. SetTop(t, Goto(t, "begin")) \/ Pop(t)
    BY <1>2 DEF ClaimEvent
  <2>2. After(t)
    BY <1>0, <1>b, <2>1, AfterSet, TopPopped
  <2> QED BY <1>2, <2>2, LedgersSame DEF ClaimEvent
<1>3. CASE BeginSaga(t)
  <2>1. After(t)
    BY <1>0, <1>3, <1>b, AfterSet DEF BeginSaga
  <2>2. CASE UNCHANGED obj
    BY <2>1, <2>2, LedgersSame
  <2>3. CASE obj' = Append(obj, Newborn)
    <3>1. obj \in Seq(InstanceType) /\ Newborn \in InstanceType /\ Newborn.ledger = << >>
      BY SagaAssumption, InstanceTypes, NothingTypes DEF Newborn, TypeInv, Types, Instance, InstanceType, Held
    <3>2. \A j \in DOMAIN obj' : obj'[j] = Newborn \/ (j \in DOMAIN obj /\ obj'[j] = obj[j])
      BY <2>3, <3>1
    <3> QED BY <2>1, <3>1, <3>2 DEF Ledgers
  <2> QED BY <1>3, <2>2, <2>3 DEF BeginSaga, Newborn
<1>4. CASE AdvanceSaga(t)
  <2>1. CASE SetTop(t, Goto(t, "end")) /\ UNCHANGED obj
    BY <1>0, <1>b, <2>1, AfterSet, LedgersSame
  <2>2. CASE ~(SetTop(t, Goto(t, "end")) /\ UNCHANGED obj)
    <3>1. PICK h : SetTopAndPush(t, Goto(t, "end"), Leg(h.on, Top(t).ev, h, cur, 0))
                   /\ obj' = [obj EXCEPT ![cur] = Moved(@, h)] /\ cur # 0
      BY <1>4, <2>2 DEF AdvanceSaga
    <3>2. ~Pending(Leg(h.on, Top(t).ev, h, cur, 0))
      BY DEF Pending, Leg, Call
    <3>3. After(t)
      BY <1>0, <1>b, <3>1, <3>2, AfterPush DEF Waiting
    <3>4. cur \in DOMAIN obj
      BY <3>1 DEF TypeInv, Types
    <3> QED BY <3>1, <3>3, <3>4, MovedLedgers
  <2> QED BY <2>1, <2>2
<1>5. CASE EndSaga(t)
  BY <1>0, <1>5, TopPopped, LedgersSame DEF EndSaga
<1> QED BY <1>2, <1>3, <1>4, <1>5

(* A leg between dispatches keeps LedgerInv. *)
LEMMA LegLedger ==
    ASSUME OneThread, TypeInv, TypeInv', RecInv, LedgerInv, NEW t \in Threads,
           StartDispatch(t) \/ StartRaised(t) \/ SettleDispatch(t) \/ FinishLeg(t) \/ DrainDone(t)
           \/ Unwind(t)
    PROVE  LedgerInv'
<1>0. stack[t] # << >> /\ Top(t).k = "leg" /\ Waits(stack[t]) /\ UNCHANGED <<undone, applied>>
  BY DEF StartDispatch, StartRaised, SettleDispatch, FinishLeg, DrainDone, Draining, Unwind, At,
         LedgerInv, history
<1>a. ~TopPends(t)
  BY DEF StartDispatch, StartRaised, SettleDispatch, FinishLeg, DrainDone, Draining, Unwind, At,
         TopPends, Pending
<1>b. \A at : Goto(t, at).at = at
  BY <1>0, GotoIs
<1>c. Top(t) \in CallType
  BY <1>0, RecTop
<1>1. SUFFICES After(t) /\ Ledgers
  BY <1>0, <1>a, LedgerKept
<1>2. CASE StartDispatch(t)
  <2>1. SetTop(t, Goto(t, "unwind")) \/ SetTop(t, Goto(t, "record"))
    BY <1>2 DEF StartDispatch
  <2>2. ~Pending(Goto(t, "unwind")) /\ ~Pending(Goto(t, "record"))
    BY <1>b DEF Pending
  <2>3. After(t)
    BY <1>0, <2>1, <2>2, AfterSet
  <2> QED BY <1>2, <2>3, LedgersSame DEF StartDispatch
<1>3. CASE SettleDispatch(t)
  <2>1. SettledCall(t).at = "start"
    BY <1>c DEF SettledCall, Goto, CallType
  <2>2. ~Pending(SettledCall(t)) /\ SetTop(t, SettledCall(t))
    BY <1>3, <2>1 DEF Pending, SettleDispatch, SettledCall
  <2>3. After(t)
    BY <1>0, <2>2, AfterSet
  <2> QED BY <1>3, <2>3, LedgersSame DEF SettleDispatch
<1>4. CASE FinishLeg(t)
  BY <1>0, <1>4, TopPopped, LedgersSame DEF FinishLeg
<1>7. CASE StartRaised(t)
  BY <1>0, <1>7, TopLeft, LedgersSame DEF StartRaised
<1>5. CASE DrainDone(t)
  <2>0. PICK e \in CallType : e = NextEntry(Top(t))
    BY <1>5, DrainedCalls
  <2>1. PICK g : g = Saving(obj[Top(t).inst], e, "start")
    OBVIOUS
  <2>2. g.then = "start" /\ g.at = "save"
    BY <2>1 DEF Saving, CallType
  <2>3. SetTop(t, g) /\ ~Pending(g)
    BY <1>5, <2>0, <2>1, <2>2 DEF DrainDone, CopyThen, Saving, Pending
  <2>4. After(t)
    BY <1>0, <2>3, AfterSet
  <2> QED BY <1>5, <2>4, LedgersSame DEF DrainDone
<1>6. CASE Unwind(t)
  <2>1. ~Pending(Goto(t, "settle"))
    BY <1>b DEF Pending
  <2>2. CASE SetTop(t, Goto(t, "settle")) /\ UNCHANGED obj
    BY <1>0, <2>1, <2>2, AfterSet, LedgersSame
  <2>3. CASE ~(SetTop(t, Goto(t, "settle")) /\ UNCHANGED obj)
    <3>1. PICK h : SetTopAndPush(t, Goto(t, "settle"), Leg(Refused, Top(t).ev, h, Top(t).inst, 0))
                   /\ obj' = [obj EXCEPT ![Top(t).inst] = Moved(@, h)]
      BY <1>6, <2>3 DEF Unwind
    <3>2. ~Pending(Leg(Refused, Top(t).ev, h, Top(t).inst, 0))
      BY DEF Pending, Leg, Call
    <3>3. After(t)
      BY <1>0, <1>b, <3>1, <3>2, AfterPush DEF Waiting
    <3>4. Top(t).inst \in DOMAIN obj
      BY <1>0, LegTop
    <3> QED BY <3>1, <3>3, <3>4, MovedLedgers
  <2> QED BY <2>2, <2>3
<1> QED BY <1>2, <1>3, <1>4, <1>5, <1>6, <1>7

(* The ledger without its newest entry. *)
LEMMA PoppedLedger ==
    ASSUME NEW o \in InstanceType, o.ledger # << >>
    PROVE  /\ Popped(o).ledger = SubSeq(o.ledger, 1, Len(o.ledger) - 1)
           /\ DOMAIN Popped(o).ledger \subseteq DOMAIN o.ledger
           /\ \A n \in DOMAIN Popped(o).ledger : Popped(o).ledger[n] = o.ledger[n]
<1>1. PICK l \in Seq(EntryType) : l = o.ledger
  BY DEF InstanceType
<1>a. l # << >> /\ Len(l) \in Nat
  BY <1>1
<1>b. Len(l) # 0
  BY <1>1, <1>a
<1>2. PICK m \in Nat : m = Len(l) - 1
  BY <1>a, <1>b
<1>3. Popped(o).ledger = SubSeq(l, 1, m)
  BY <1>1, <1>2 DEF Popped, InstanceType
<1>4. PICK q : q = SubSeq(l, 1, m)
  OBVIOUS
<1>5. q \in Seq(EntryType) /\ Len(q) = m /\ \A n \in 1..m : q[n] = l[n]
  BY <1>1, <1>2, <1>4
<1>6. DOMAIN q \subseteq DOMAIN l /\ \A n \in DOMAIN q : q[n] = l[n]
  BY <1>1, <1>2, <1>5
<1> QED BY <1>1, <1>2, <1>3, <1>4, <1>6

(* Only applied dispatches are left once the pending entry is popped. *)
LEMMA OneEntryLess ==
    ASSUME TypeInv, NEW c \in DOMAIN obj, obj[c].ledger # << >>, applied \subseteq applied',
           obj' = [obj EXCEPT ![c] = Popped(obj[c])],
           AllApplied(SubSeq(obj[c].ledger, 1, Len(obj[c].ledger) - 1)),
           \A j \in DOMAIN obj : j # c => AllApplied(obj[j].ledger)
    PROVE  Clean'
<1>1. obj[c] \in InstanceType
  BY DEF TypeInv, Types
<1>2. PICK p : p = Popped(obj[c])
  OBVIOUS
<1>3. DOMAIN obj' = DOMAIN obj /\ \A j \in DOMAIN obj : obj'[j] = IF j = c THEN p ELSE obj[j]
  BY <1>2 DEF TypeInv, Types
<1>4. AllApplied(p.ledger)
  BY <1>1, <1>2, PoppedLedger
<1> QED BY <1>3, <1>4 DEF Clean, AllApplied

(* Every entry but the newest, when all are applied. *)
LEMMA AllButNewest ==
    ASSUME NEW o \in InstanceType, o.ledger # << >>, AllApplied(o.ledger)
    PROVE  /\ AllApplied(SubSeq(o.ledger, 1, Len(o.ledger) - 1))
           /\ o.ledger[Len(o.ledger)].of \in applied
<1>1. Len(o.ledger) \in DOMAIN o.ledger
  <2>1. PICK l \in Seq(EntryType) : l = o.ledger
    BY DEF InstanceType
  <2> QED BY <2>1
<1> QED BY <1>1, PoppedLedger DEF AllApplied

(* Whatever entry is popped, the others are of applied dispatches. *)
LEMMA PoppedClean ==
    ASSUME TypeInv, NEW c \in DOMAIN obj, Clean, applied \subseteq applied',
           obj' = [obj EXCEPT ![c] = Popped(obj[c])]
    PROVE  Clean'
<1>1. obj[c] \in InstanceType
  BY DEF TypeInv, Types
<1>2. CASE obj[c].ledger # << >>
  <2>1. AllApplied(SubSeq(obj[c].ledger, 1, Len(obj[c].ledger) - 1))
    BY <1>1, <1>2, AllButNewest DEF Clean
  <2> QED BY <1>2, <2>1, OneEntryLess DEF Clean
<1>3. CASE obj[c].ledger = << >>
  <2>1. PICK p : p = Popped(obj[c])
    OBVIOUS
  <2>2. p.ledger = obj[c].ledger
    BY <1>1, <1>3, <2>1 DEF Popped, InstanceType
  <2>3. Ledgers
    BY <2>1, <2>2, LedgersChanged
  <2> QED BY <2>3, CleanKept
<1> QED BY <1>2, <1>3

(* What is left to show when the ledger changes and no dispatch pends. *)
LEMMA LedgerCleaned ==
    ASSUME OneThread, NEW t \in Threads, After(t), Clean', undone' \subseteq applied'
    PROVE  LedgerInv'
<1>1. \A u \in Threads : u = t
  BY DEF OneThread
<1>2. Waits(stack[t])' /\ ~TopPends(t)'
  BY DEF After, TopPends, Top, Depth
<1> QED BY <1>1, <1>2 DEF LedgerInv

(* A drain takes an entry of an applied dispatch. *)
LEMMA DrainLedger ==
    ASSUME OneThread, TypeInv, TypeInv', LedgerInv, NEW t \in Threads, Drain(t)
    PROVE  LedgerInv'
<1>0. stack[t] # << >> /\ Top(t).k = "leg" /\ Waits(stack[t]) /\ UNCHANGED <<undone, applied>>
  BY DEF Drain, Draining, At, LedgerInv, history
<1>a. Clean /\ undone \subseteq applied
  BY DEF LedgerInv, Drain, Draining, At, TopPends, Pending
<1>1. Clean'
  BY <1>0, <1>a, DrainPops, PoppedClean DEF Pops
<1>2. PICK f \in CallType : f = Top(t)
  BY <1>0, TopKnown
<1>3. PICK e : e = Newest(obj[f.inst])
  OBVIOUS
<1>4. PICK g : g = [f EXCEPT !.at = "compensate", !.entry = e, !.tries = 0]
  OBVIOUS
<1>5. g.at = "compensate"
  BY <1>4 DEF CallType
<1>6. SetTop(t, g) /\ ~Pending(g)
  BY <1>2, <1>3, <1>4, <1>5 DEF Drain, Pending
<1>7. After(t)
  BY <1>0, <1>6, AfterSet
<1> QED BY <1>0, <1>1, <1>7, <1>a, LedgerCleaned

(* A compensation that commits is of an applied dispatch. *)
LEMMA RepayLedger ==
    ASSUME OneThread, TypeInv, TypeInv', LedgerInv, Repaid, NEW t \in Threads,
           Compensate(t) \/ CompensationFails(t) \/ CompensationRaised(t) \/ CompensateLost(t)
    PROVE  LedgerInv'
<1>0. /\ stack[t] # << >> /\ Top(t).k = "leg" /\ Repaying(Top(t)) /\ Waits(stack[t])
      /\ UNCHANGED <<obj, applied>>
  BY DEF Compensate, CompensationFails, CompensationRaised, CompensateLost, At, Repaying, LedgerInv,
         history
<1>a. Clean /\ undone \subseteq applied
  BY <1>0 DEF LedgerInv, TopPends, Pending, Repaying
<1>1. Clean'
  BY <1>0, <1>a, CleanKept, LedgersSame
<1>2. PICK f \in CallType : f = Top(t)
  BY <1>0, TopKnown
<1>3. f.entry.of \in applied
  BY <1>0, <1>2, TopKnown DEF Known, Repaid
<1>4. undone' \subseteq undone \cup {f.entry.of}
  BY <1>2 DEF Compensate, CompensationFails, CompensationRaised, CompensateLost, Undo, history
<1>5. NextEntry(f).at = "drain" /\ Again(t).at = "compensate" /\ Goto(t, "compensated").at = "compensated"
  BY <1>2 DEF NextEntry, Again, Goto, CallType
<1>6. ~Pending(NextEntry(Top(t))) /\ ~Pending(Again(t)) /\ ~Pending(Adv(NextOcc))
  BY <1>2, <1>5 DEF Pending, Adv, Call
<1>7. \/ SetTop(t, NextEntry(Top(t))) \/ SetTop(t, Again(t))
      \/ SetTopAndPush(t, Goto(t, "compensated"), Adv(NextOcc))
  BY DEF Compensate, CompensationFails, CompensationRaised, CompensateLost, CompensateAgain, Again, ReactTo
<1>8. After(t)
  BY <1>0, <1>5, <1>6, <1>7, AfterSet, AfterPush DEF Waiting
<1>9. undone' \subseteq applied'
  BY <1>0, <1>3, <1>4, <1>a
<1> QED BY <1>1, <1>8, <1>9, LedgerCleaned

(* record_compensation's entry is the newest, and its dispatch pends. *)
LEMMA RecordLedger ==
    ASSUME OneThread, TypeInv, TypeInv', RecInv, LedgerInv, NEW t \in Threads, RecordCompensation(t)
    PROVE  LedgerInv'
<1>0. /\ stack[t] # << >> /\ Top(t).k = "leg" /\ Top(t).at = "record" /\ Waits(stack[t])
      /\ UNCHANGED <<undone, applied>>
  BY DEF RecordCompensation, At, LedgerInv, history
<1>a. ~TopPends(t) /\ Clean /\ undone \subseteq applied
  BY <1>0 DEF TopPends, Pending, LedgerInv
<1>b. Top(t) \in CallType /\ ~Top(t).rec
  BY <1>0, RecTop DEF RecOK
<1>1. CASE SetTop(t, Goto(t, "send")) /\ UNCHANGED obj
  <2>1. ~Pending(Goto(t, "send"))
    BY <1>0, <1>b, GotoIs DEF Pending
  <2>2. After(t) /\ Ledgers
    BY <1>0, <1>1, <2>1, AfterSet, LedgersSame
  <2> QED BY <1>0, <1>a, <2>2, LedgerKept
<1>2. CASE ~(SetTop(t, Goto(t, "send")) /\ UNCHANGED obj)
  <2>1. PICK c : c = Top(t).inst
    OBVIOUS
  <2>2. c \in DOMAIN obj /\ obj[c] \in InstanceType
    BY <1>0, <2>1, LegTop
  <2>3. PICK e : e = EntryOf(Top(t))
    OBVIOUS
  <2>4. PICK f : f = [Top(t) EXCEPT !.rec = TRUE]
    OBVIOUS
  <2>5. f.on = Top(t).on /\ f.ev = Top(t).ev /\ f.i = Top(t).i /\ f.inst = c /\ f.rec /\ f.k = "leg"
        /\ f \in CallType
    BY <1>0, <1>b, <2>1, <2>4 DEF CallType
  <2>6. PICK g : g = Saving(obj'[c], f, "send")
    OBVIOUS
  <2>7. /\ obj' = [obj EXCEPT ![c].ledger = Append(@, e)] /\ SetTop(t, g)
    BY <1>2, <2>1, <2>3, <2>4, <2>6 DEF RecordCompensation, CopyThen, Saving, EntryOf
  <2>8. /\ g.on = f.on /\ g.ev = f.ev /\ g.i = f.i /\ g.inst = c /\ g.rec /\ g.k = "leg"
        /\ g.at = "save" /\ g.then = "send"
    BY <2>5, <2>6 DEF Saving, CallType
  <2>9. Pending(g) /\ DispatchOf(g) = e.of
    BY <2>3, <2>5, <2>8 DEF Pending, DispatchOf, EntryOf
  <2>10. Waits(stack'[t]) /\ stack'[t] # << >> /\ stack'[t][Len(stack'[t])] = g
    BY <1>0, <2>7, TopReplaced
  <2>11. PICK l \in Seq(EntryType) : l = obj[c].ledger
    BY <2>2 DEF InstanceType
  <2>12. DOMAIN obj' = DOMAIN obj /\ obj'[c].ledger = Append(l, e)
         /\ \A j \in DOMAIN obj : j # c => obj'[j] = obj[j]
    BY <2>2, <2>7, <2>11 DEF InstanceType, TypeInv, Types
  <2>13. PICK m : m = Append(l, e)
    OBVIOUS
  <2>14. m # << >> /\ m[Len(m)] = e /\ SubSeq(m, 1, Len(m) - 1) = l
    <3>1. PICK S : S = EntryType \cup {e}
      OBVIOUS
    <3>2. l \in Seq(S) /\ e \in S /\ Len(l) \in Nat
      BY <2>11, <3>1
    <3>3. m \in Seq(S) /\ Len(m) = Len(l) + 1 /\ m[Len(l) + 1] = e /\ \A n \in 1..Len(l) : m[n] = l[n]
      BY <2>13, <3>2
    <3>4. PICK n \in Nat : n = Len(l)
      BY <3>2
    <3>5. Len(m) - 1 = n /\ n <= Len(m)
      BY <3>2, <3>3, <3>4
    <3>6. PICK q : q = SubSeq(m, 1, n)
      OBVIOUS
    <3>7. q \in Seq(S) /\ Len(q) = n /\ \A k \in 1..n : q[k] = m[k]
      BY <3>3, <3>5, <3>6
    <3>8. q = l
      BY <3>2, <3>3, <3>4, <3>7
    <3> QED BY <3>2, <3>3, <3>5, <3>6, <3>8
  <2>15. AllApplied(l) /\ \A j \in DOMAIN obj : AllApplied(obj[j].ledger)
    BY <1>a, <2>2, <2>11 DEF Clean
  <2>16. Owns(g)'
    BY <1>0, <2>8, <2>9, <2>12, <2>13, <2>14, <2>15 DEF Owns, AllApplied, DispatchOf
  <2>17. \A u \in Threads : u = t
    BY DEF OneThread
  <2>18. Top(t)' = g /\ TopPends(t)'
    BY <2>9, <2>10 DEF TopPends, Top, Depth
  <2> QED BY <1>0, <1>a, <2>10, <2>16, <2>17, <2>18 DEF LedgerInv, Owns
<1> QED BY <1>1, <1>2

(* Writing a copy keeps LedgerInv. *)
LEMMA SaveLedger ==
    ASSUME OneThread, TypeInv, TypeInv', LedgerInv, NEW t \in Threads, SaveCopy(t)
    PROVE  LedgerInv'
<1>0. /\ stack[t] # << >> /\ Top(t).k = "leg" /\ Top(t).at = "save" /\ Waits(stack[t])
      /\ UNCHANGED <<undone, applied, obj>> /\ undone \subseteq applied
  BY DEF SaveCopy, At, LedgerInv, history
<1>a. Top(t) \in CallType
  BY <1>0, TopKnown
<1>b. PICK g : g = [Top(t) EXCEPT !.at = Top(t).then, !.copy = NoRow, !.then = "start"]
  OBVIOUS
<1>c. g.at = Top(t).then /\ g.then = "start" /\ g.k = Top(t).k /\ g.rec = Top(t).rec
  BY <1>a, <1>b DEF CallType
<1>d. g.on = Top(t).on /\ g.ev = Top(t).ev /\ g.i = Top(t).i /\ g.inst = Top(t).inst
  BY <1>a, <1>b DEF CallType
<1>e. SetTop(t, g)
  BY <1>b DEF SaveCopy
<1>1. CASE ~TopPends(t)
  <2>1. ~Pending(g)
    BY <1>0, <1>1, <1>c DEF TopPends, Pending
  <2>2. After(t) /\ Ledgers
    BY <1>0, <1>e, <2>1, AfterSet, LedgersSame
  <2> QED BY <1>0, <1>1, <2>2, LedgerKept
<1>2. CASE TopPends(t)
  <2>1. Waits(stack'[t]) /\ stack'[t] # << >> /\ stack'[t][Len(stack'[t])] = g
    BY <1>0, <1>e, TopReplaced
  <2>2. Pending(g) /\ DispatchOf(g) = DispatchOf(Top(t))
    BY <1>0, <1>2, <1>c, <1>d DEF TopPends, Pending, DispatchOf
  <2>3. Owns(Top(t))
    BY <1>2 DEF LedgerInv
  <2>4. Owns(g)'
    BY <1>0, <1>d, <2>2, <2>3 DEF Owns, AllApplied, DispatchOf
  <2>5. Top(t)' = g /\ TopPends(t)'
    BY <2>1, <2>2 DEF TopPends, Top, Depth
  <2>6. \A u \in Threads : u = t
    BY DEF OneThread
  <2> QED BY <1>0, <2>1, <2>4, <2>5, <2>6 DEF LedgerInv, Owns
<1> QED BY <1>1, <1>2

(* The pending dispatch turns out applied. *)
LEMMA OwnedApplied ==
    ASSUME TypeInv, NEW f, f.inst \in DOMAIN obj, Owns(f), UNCHANGED obj,
           applied \subseteq applied', DispatchOf(f) \in applied'
    PROVE  Clean'
<1>1. PICK l : l = obj[f.inst].ledger
  OBVIOUS
<1>3. obj[f.inst] \in InstanceType
  BY DEF TypeInv, Types
<1>a. l # << >> /\ l[Len(l)].of = DispatchOf(f) /\ AllApplied(SubSeq(l, 1, Len(l) - 1))
  BY <1>1 DEF Owns
<1>b. l \in Seq(EntryType)
  BY <1>1, <1>3 DEF InstanceType
<1>2. /\ l \in Seq(EntryType) /\ l # << >> /\ l[Len(l)].of = DispatchOf(f)
      /\ AllApplied(SubSeq(l, 1, Len(l) - 1))
  BY <1>a, <1>b
<1>4. PICK q : q = SubSeq(l, 1, Len(l) - 1)
  OBVIOUS
<1>5. PICK m \in Nat : m = Len(l) - 1 /\ Len(l) = m + 1
  <2>1. Len(l) \in Nat /\ Len(l) # 0
    BY <1>2
  <2> QED BY <2>1
<1>6. DOMAIN q = 1..m /\ \A n \in 1..m : q[n] = l[n]
  BY <1>2, <1>4, <1>5
<1>7. ASSUME NEW n \in DOMAIN l PROVE l[n].of \in applied'
  <2>1. n \in 1..m \/ n = Len(l)
    BY <1>2, <1>5
  <2>2. CASE n \in 1..m
    BY <1>2, <1>4, <1>6, <2>2 DEF AllApplied
  <2> QED BY <1>2, <2>1, <2>2
<1>8. \A j \in DOMAIN obj : j # f.inst => AllApplied(obj[j].ledger)
  BY DEF Owns
<1> QED BY <1>1, <1>7, <1>8 DEF Clean, AllApplied

(* A dispatch that commits, or is answered as applied, leaves an entry that is due. *)
LEMMA AnsweredLedger ==
    ASSUME OneThread, TypeInv, TypeInv', ClaimedInv', LedgerInv, NEW t \in Threads,
           SendDelivered(t) \/ SendSkipped(t)
    PROVE  LedgerInv'
<1>0. /\ stack[t] # << >> /\ Top(t).k = "leg" /\ Top(t).at = "send" /\ Waits(stack[t])
      /\ UNCHANGED <<undone, obj>> /\ undone \subseteq applied
  BY DEF SendDelivered, SendSkipped, At, LedgerInv
<1>1. applied \subseteq applied' /\ DispatchOf(Top(t)) \in applied'
  <2>1. CASE SendDelivered(t)
    BY <2>1 DEF SendDelivered, Commits, DispatchOf
  <2>2. CASE SendSkipped(t)
    BY <2>2 DEF SendSkipped, DispatchOf, ClaimedInv
  <2> QED BY <2>1, <2>2
<1>2. Clean'
  <2>1. CASE TopPends(t)
    <3>1. Owns(Top(t)) /\ Top(t).inst \in DOMAIN obj
      BY <1>0, <2>1, LegTop DEF LedgerInv
    <3> QED BY <1>0, <1>1, <3>1, OwnedApplied
  <2>2. CASE ~TopPends(t)
    <3>1. Clean
      BY <2>2 DEF LedgerInv
    <3> QED BY <1>0, <1>1, <3>1, CleanKept, LedgersSame
  <2> QED BY <2>1, <2>2
<1>3. Goto(t, "settle").at = "settle" /\ Goto(t, "sent").at = "sent"
  BY <1>0, GotoIs
<1>4. ~Pending(Goto(t, "settle")) /\ ~Pending(Adv(NextOcc))
  BY <1>3 DEF Pending, Adv, Call
<1>5. SetTop(t, Goto(t, "settle")) \/ SetTopAndPush(t, Goto(t, "sent"), Adv(NextOcc))
  BY DEF SendDelivered, SendSkipped, ReactTo
<1>6. After(t)
  BY <1>0, <1>3, <1>4, <1>5, AfterSet, AfterPush DEF Waiting
<1>7. undone' \subseteq applied'
  BY <1>0, <1>1
<1> QED BY <1>2, <1>6, <1>7, LedgerCleaned

(* A dispatch that fails takes its own entry off, or, once applied, another  *)
(* that was.                                                                 *)
LEMMA FailLedger ==
    ASSUME OneThread, TypeInv, TypeInv', LedgerInv, NEW t \in Threads,
           SendRefused(t) \/ SendRaised(t) \/ SendLost(t)
    PROVE  LedgerInv'
<1>0. /\ stack[t] # << >> /\ Top(t).k = "leg" /\ Waits(stack[t])
      /\ UNCHANGED undone /\ applied \subseteq applied' /\ undone \subseteq applied
  BY DEF SendRefused, SendRaised, SendLost, Commits, At, LedgerInv, history
<1>a. Top(t) \in CallType
  BY <1>0, TopKnown
<1>b. PICK g, next : g \in {Top(t), [Top(t) EXCEPT !.tries = @ + 1]} /\ FailDispatch(t, g, next)
                     /\ next \in {"record", "unwind"}
  BY DEF SendRefused, SendRaised, SendLost, TryAgain
<1>c. g \in CallType /\ g.inst = Top(t).inst /\ g.rec = Top(t).rec
  BY <1>a, <1>b DEF CallType
<1>1. CASE ~g.rec
  <2>1. PICK f : f = [g EXCEPT !.at = next]
    OBVIOUS
  <2>2. ~f.rec
    BY <1>1, <1>c, <2>1 DEF CallType
  <2>3. SetTop(t, f) /\ ~Pending(f) /\ UNCHANGED obj
    BY <1>1, <1>b, <2>1, <2>2 DEF FailDispatch, Pending
  <2>4. After(t) /\ Ledgers /\ ~TopPends(t)
    BY <1>0, <1>1, <1>c, <2>3, AfterSet, LedgersSame DEF TopPends, Pending
  <2>5. Clean' /\ undone' \subseteq applied'
    BY <1>0, <2>4, CleanKept DEF LedgerInv
  <2> QED BY <2>4, <2>5, LedgerCleaned
<1>2. CASE g.rec
  <2>2. Top(t).inst \in DOMAIN obj
    BY <1>0, LegTop
  <2>3. PICK c : c = Top(t).inst
    OBVIOUS
  <2>4. obj' = [obj EXCEPT ![c] = Popped(obj[c])]
    BY <1>2, <1>b, <1>c, <2>2, <2>3 DEF FailDispatch
  <2>5. Clean'
    <3>1. CASE TopPends(t)
      BY <1>0, <2>2, <2>3, <2>4, <3>1, OneEntryLess DEF Owns, LedgerInv
    <3>2. CASE ~TopPends(t)
      BY <1>0, <2>2, <2>3, <2>4, <3>2, PoppedClean DEF LedgerInv
    <3> QED BY <3>1, <3>2
  <2>6. PICK f : f = Saving(obj'[c], [g EXCEPT !.rec = FALSE], next)
    OBVIOUS
  <2>7. ~f.rec
    BY <1>c, <2>6 DEF Saving, CallType
  <2>8. SetTop(t, f) /\ ~Pending(f)
    BY <1>2, <1>b, <1>c, <2>3, <2>6, <2>7 DEF FailDispatch, CopyThen, Saving, Pending
  <2>9. After(t) /\ undone' \subseteq applied'
    BY <1>0, <2>8, AfterSet
  <2> QED BY <2>5, <2>9, LedgerCleaned
<1> QED BY <1>1, <1>2, <1>c DEF CallType

(* A redrive keeps LedgerInv. *)
LEMMA BootLedger ==
    ASSUME OneThread, TypeInv, TypeInv', LedgerInv, NEW t \in Threads, BootRow(t) \/ RedriveSaga(t)
    PROVE  LedgerInv'
<1>0. stack[t] # << >> /\ Top(t).k = "boot" /\ Waits(stack[t]) /\ UNCHANGED <<undone, applied>>
  BY DEF BootRow, RedriveSaga, At, LedgerInv, history
<1>a. ~TopPends(t)
  BY <1>0 DEF TopPends, Pending
<1>b. Top(t) \in CallType
  BY <1>0, TopKnown
<1>1. SUFFICES After(t) /\ Ledgers
  BY <1>0, <1>a, LedgerKept
<1>2. CASE BootRow(t)
  <2>1. CASE SetTop(t, Goto(t, "sagas"))
    <3>1. ~Pending(Goto(t, "sagas"))
      BY <1>0, GotoIs DEF Pending
    <3> QED BY <1>0, <1>2, <2>1, <3>1, AfterSet, LedgersSame DEF BootRow
  <2>2. CASE ~SetTop(t, Goto(t, "sagas"))
    <3>1. PICK ev : SetTopAndPush(t, [Top(t) EXCEPT !.todo = @ \ {ev}], Adv(ev)) /\ Top(t).at = "rows"
      BY <1>2, <2>2 DEF BootRow, At
    <3>2. PICK f : f = [Top(t) EXCEPT !.todo = @ \ {ev}]
      OBVIOUS
    <3>3. f.at \in Waiting /\ ~Pending(Adv(ev))
      BY <1>b, <3>1, <3>2 DEF CallType, Waiting, Pending, Adv, Call
    <3>4. After(t)
      BY <1>0, <3>1, <3>2, <3>3, AfterPush
    <3> QED BY <1>2, <3>4, LedgersSame DEF BootRow
  <2> QED BY <2>1, <2>2
<1>3. CASE RedriveSaga(t)
  <2>1. Ledgers
    <3>1. CASE UNCHANGED obj
      BY <3>1, LedgersSame
    <3>2. CASE cur # 0 /\ obj' = [obj EXCEPT ![cur].stalled = NoMarker]
      <4>1. cur \in DOMAIN obj /\ obj \in Seq(InstanceType)
        BY <3>2 DEF TypeInv, Types
      <4>2. PICK p : p = [obj[cur] EXCEPT !.stalled = NoMarker]
        OBVIOUS
      <4>3. p.ledger = obj[cur].ledger
        BY <4>1, <4>2 DEF InstanceType
      <4>4. obj' = [obj EXCEPT ![cur] = p]
        BY <3>2, <4>1, <4>2
      <4> QED BY <4>1, <4>3, <4>4, LedgersChanged
    <3> QED BY <1>3, <3>1, <3>2 DEF RedriveSaga
  <2>2. \A on, ev, h, c, i : ~Pending(Leg(on, ev, h, c, i))
    BY DEF Pending, Leg, Call
  <2>3. Pop(t) \/ \E on, ev, h, c, i : SetTop(t, Leg(on, ev, h, c, i))
    BY <1>3 DEF RedriveSaga
  <2>4. After(t)
    BY <1>0, <2>2, <2>3, TopPopped, AfterSet
  <2> QED BY <2>1, <2>4
<1> QED BY <1>2, <1>3

(* A resume keeps LedgerInv. *)
LEMMA ResumeLedger ==
    ASSUME OneThread, TypeInv, TypeInv', LedgerInv, NEW t \in Threads, ResumeRestore(t) \/ ResumeStore(t)
    PROVE  LedgerInv'
<1>0. stack[t] # << >> /\ Top(t).k = "resume" /\ Waits(stack[t]) /\ UNCHANGED <<undone, applied>>
  BY DEF ResumeRestore, ResumeStore, At, LedgerInv, history
<1>a. ~TopPends(t)
  BY <1>0 DEF TopPends, Pending
<1>1. SUFFICES After(t) /\ Ledgers
  BY <1>0, <1>a, LedgerKept
<1>2. CASE ResumeRestore(t)
  <2>1. PICK f \in CallType : f = Top(t)
    BY <1>0, TopKnown
  <2>2. PICK c : c = f.inst
    OBVIOUS
  <2>3. c \in DOMAIN obj /\ obj' = [obj EXCEPT ![c] = Restored(obj[c])]
    BY <1>2, <2>1, <2>2, RestoreCalls DEF Restores
  <2>4. obj[c] \in InstanceType
    BY <2>3 DEF TypeInv, Types
  <2>5. PICK p : p = Restored(obj[c])
    OBVIOUS
  <2>6. p.ledger = obj[c].ledger
    BY <2>4, <2>5 DEF Restored, InstanceType
  <2>7. PICK r : r = RowOf(obj'[f.inst], NoMarker)
    OBVIOUS
  <2>8. PICK g : g = [f EXCEPT !.at = "store", !.copy = r]
    OBVIOUS
  <2>9. g.at = "store"
    BY <2>8 DEF CallType
  <2>10. SetTop(t, g) /\ ~Pending(g)
    BY <1>2, <2>1, <2>7, <2>8, <2>9 DEF ResumeRestore, Pending
  <2> QED BY <1>0, <2>3, <2>5, <2>6, <2>10, AfterSet, LedgersChanged
<1>3. CASE ResumeStore(t)
  BY <1>0, <1>3, TopPopped, LedgersSame DEF ResumeStore
<1> QED BY <1>2, <1>3

(* A person and a caller keep LedgerInv. *)
LEMMA OutsideLedger ==
    ASSUME OneThread, TypeInv, TypeInv', LedgerInv, NEW t \in Threads,
           Resume(t) \/ \E e \in Entry : Enter(t, e)
    PROVE  LedgerInv'
<1>0. stack[t] = << >> /\ UNCHANGED <<undone, applied>>
  BY DEF Resume, Enter, history
<1>a. ~TopPends(t)
  BY <1>0 DEF TopPends
<1>1. SUFFICES After(t) /\ Ledgers
  BY <1>0, <1>a, LedgerKept
<1>2. CASE Resume(t)
  <2>1. PICK g : g = ResumeCall
    OBVIOUS
  <2>2. stack'[t] = <<g>>
    BY <1>2, <2>1 DEF Resume, ResumeCall, TypeInv, Types
  <2>3. ~Pending(g)
    BY <2>1 DEF Pending, ResumeCall, Call
  <2> QED BY <1>2, <2>2, <2>3, LedgersSame DEF After, Waits, Resume
<1>3. ASSUME NEW e \in Entry, Enter(t, e) PROVE After(t) /\ Ledgers
  <2>1. PICK g : g = Adv(NextOcc)
    OBVIOUS
  <2>2. stack'[t] = <<g>>
    BY <1>3, <2>1 DEF Enter, TypeInv, Types
  <2>3. ~Pending(g)
    BY <2>1 DEF Pending, Adv, Call
  <2> QED BY <1>3, <2>2, <2>3, LedgersSame DEF After, Waits, Enter
<1> QED BY <1>2, <1>3

(* What of Repaid is left to show of a step, from the calls it adds. *)
Pays(F) == Calls(F) /\ \A f \in F : Repaying(f) => f.entry.of \in applied'

(* A compensation on its way stays one of a dispatch applied. *)
LEMMA PaysKept == ASSUME Repaid, NEW F, Pays(F), applied \subseteq applied' PROVE Repaid'
<1>1. \A f : Known(f) /\ Repaying(f) => f.entry.of \in applied
  BY DEF Known, Repaid
<1> QED BY <1>1 DEF Pays, Calls, Repaid, Repaying

(* A step that adds no call to deliver a compensation keeps Repaid. *)
LEMMA PaysNothing ==
    ASSUME Repaid, applied \subseteq applied', NEW F, Calls(F), \A f \in F : ~Repaying(f)
    PROVE  Repaid'
BY PaysKept DEF Pays

(* An advance delivers no compensation. *)
LEMMA AdvRepaid ==
    ASSUME TypeInv, Repaid, NEW t \in Threads,
           ClaimEvent(t) \/ BeginSaga(t) \/ AdvanceSaga(t) \/ EndSaga(t)
    PROVE  Repaid'
<1>0. stack[t] # << >> /\ applied \subseteq applied'
  BY DEF ClaimEvent, BeginSaga, AdvanceSaga, EndSaga, At, history
<1>1. \A at : at \notin {"compensate", "compensated"} => ~Repaying(Goto(t, at))
  BY <1>0, GotoIs DEF Repaying
<1>2. \A on, ev, h, c, i : ~Repaying(Leg(on, ev, h, c, i))
  BY DEF Repaying, Leg, Call
<1>3. ASSUME NEW h \in Handlers, TakesLeg(t, h) PROVE Repaid'
  <2>1. PICK leg : leg = Leg(h.on, Top(t).ev, h, cur, 0)
    OBVIOUS
  <2>2. Calls({Goto(t, "end"), leg}) /\ \A f \in {Goto(t, "end"), leg} : ~Repaying(f)
    BY <1>1, <1>2, <1>3, <2>1 DEF TakesLeg
  <2> QED BY <1>0, <2>2, PaysNothing
<1>4. ASSUME NEW at, at \notin {"compensate", "compensated"}, Calls({Goto(t, at)}) PROVE Repaid'
  <2>1. \A f \in {Goto(t, at)} : ~Repaying(f)
    BY <1>1, <1>4
  <2> QED BY <1>0, <1>4, <2>1, PaysNothing
<1>5. Calls({}) => Repaid'
  BY <1>0, PaysNothing
<1> QED BY <1>3, <1>4, <1>5, ClaimCalls, BeginCalls, AdvanceCalls, EndCalls

(* A leg that dispatches delivers no compensation. *)
LEMMA LegRepaid ==
    ASSUME TypeInv, Repaid, NEW t \in Threads,
           StartDispatch(t) \/ StartRaised(t) \/ SettleDispatch(t) \/ FinishLeg(t) \/ SaveCopy(t)
           \/ Unwind(t) \/ RecordCompensation(t) \/ SendDelivered(t) \/ SendSkipped(t)
           \/ SendRefused(t) \/ SendRaised(t) \/ SendLost(t)
    PROVE  Repaid'
<1>0. stack[t] # << >> /\ Top(t).k = "leg" /\ applied \subseteq applied'
  BY DEF StartDispatch, StartRaised, SettleDispatch, FinishLeg, SaveCopy, Unwind, RecordCompensation,
     SendDelivered, SendSkipped, SendRefused, SendRaised, SendLost, Commits, At, history
<1>a. PICK f \in CallType : f = Top(t)
  BY <1>0, TopKnown
<1>1. \A at : at \notin {"compensate", "compensated"} => ~Repaying(Goto(t, at))
  BY <1>0, GotoIs DEF Repaying
<1>2. ASSUME NEW g, ~Repaying(g), Calls({g}) PROVE Repaid'
  BY <1>0, <1>2, PaysNothing
<1>3. ASSUME NEW g, NEW e, ~Repaying(g), ~Repaying(e), Calls({g, e}) PROVE Repaid'
  BY <1>0, <1>3, PaysNothing
<1>4. \A o, e, next : e \in CallType => ~Repaying(Saving(o, e, next))
  BY DEF Repaying, Saving, CallType
<1>5. Calls({}) => Repaid'
  BY <1>0, PaysNothing
<1>6. CASE StartDispatch(t)
  BY <1>1, <1>3, <1>6, StartCalls
<1>7. CASE StartRaised(t) \/ FinishLeg(t)
  BY <1>5, <1>7, RaisedCalls, FinishCalls
<1>8. CASE SettleDispatch(t)
  <2>1. SettledCall(t).at = "start"
    BY <1>0, <1>a DEF SettledCall, Goto, CallType
  <2> QED BY <1>2, <1>8, <2>1, SettleCalls DEF Repaying
<1>9. CASE SaveCopy(t)
  <2>1. PICK g : g = [f EXCEPT !.at = f.then, !.copy = NoRow, !.then = "start"]
    OBVIOUS
  <2>2. f.then \notin {"compensate", "compensated"} /\ g.at = f.then
    BY <1>0, <1>9, <1>a, <2>1, TopKnown DEF Fits, SaveCopy, At, CallType
  <2> QED BY <1>2, <1>9, <1>a, <2>1, <2>2, SaveCalls DEF Repaying
<1>10. CASE Unwind(t)
  <2>1. ASSUME NEW h \in Handlers, Reverses(t, h) PROVE Repaid'
    <3>1. PICK leg : leg = Leg(Refused, Top(t).ev, h, Top(t).inst, 0)
      OBVIOUS
    <3>2. ~Repaying(leg)
      BY <3>1 DEF Repaying, Leg, Call
    <3> QED BY <1>1, <1>3, <2>1, <3>1, <3>2 DEF Reverses
  <2> QED BY <1>1, <1>2, <1>10, <2>1, UnwindCalls
<1>11. CASE RecordCompensation(t)
  <2>1. CASE Records(t)
    <3>1. PICK e \in CallType : e = [f EXCEPT !.rec = TRUE]
      BY DEF CallType
    <3> QED BY <1>2, <1>4, <1>a, <2>1, <3>1 DEF Records
  <2> QED BY <1>1, <1>2, <1>11, <2>1, RecordCalls
<1>12. CASE SendDelivered(t)
  <2>1. ~Repaying(Adv(NextOcc))
    BY DEF Repaying, Adv, Call
  <2> QED BY <1>1, <1>2, <1>3, <1>12, <2>1, DeliveredCalls DEF Reacts
<1>13. CASE SendSkipped(t)
  BY <1>1, <1>2, <1>13, SkippedCalls
<1>14. CASE SendRefused(t) \/ SendRaised(t) \/ SendLost(t)
  <2>0. PICK n \in Nat, next \in {"record", "unwind"} : Fails(t, n, next)
    BY <1>14, FailedCalls
  <2>1. PICK g \in CallType : g = Tried(t, n)
    BY <1>a DEF Tried, CallType
  <2>2. CASE Calls({[g EXCEPT !.at = next]})
    <3>1. [g EXCEPT !.at = next].at = next
      BY DEF CallType
    <3> QED BY <1>2, <2>2, <3>1 DEF Repaying
  <2>3. CASE Unrecords(t, g, next)
    <3>1. PICK e \in CallType : e = [g EXCEPT !.rec = FALSE]
      BY DEF CallType
    <3> QED BY <1>2, <1>4, <2>3, <3>1 DEF Unrecords
  <2> QED BY <2>0, <2>1, <2>2, <2>3 DEF Fails
<1> QED BY <1>6, <1>7, <1>8, <1>9, <1>10, <1>11, <1>12, <1>13, <1>14

(* A drain delivers the newest entry, which is of a dispatch applied. *)
LEMMA DrainRepaid ==
    ASSUME TypeInv, Repaid, LedgerInv, NEW t \in Threads,
           DrainDone(t) \/ Drain(t) \/ CompensationFails(t) \/ Compensate(t)
           \/ CompensationRaised(t) \/ CompensateLost(t)
    PROVE  Repaid'
<1>0. stack[t] # << >> /\ Top(t).k = "leg" /\ UNCHANGED applied
  BY DEF DrainDone, Drain, Draining, CompensationFails, Compensate, CompensationRaised, CompensateLost, At,
     history
<1>1. PICK f \in CallType : f = Top(t)
  BY <1>0, TopKnown
<1>2. NextEntry(f).at = "drain"
  BY DEF NextEntry, CallType
<1>3. CASE DrainDone(t)
  <2>1. PICK e \in CallType : e = NextEntry(f)
    BY <1>1, <1>3, DrainedCalls
  <2>2. PICK g : g = Saving(obj[f.inst], e, "start")
    OBVIOUS
  <2>3. g.at = "save"
    BY <2>2 DEF Saving, CallType
  <2>4. Calls({g}) /\ \A x \in {g} : ~Repaying(x)
    BY <1>1, <1>3, <2>1, <2>2, <2>3, DrainedCalls DEF Repaying
  <2> QED BY <1>0, <2>4, PaysNothing
<1>4. CASE Drain(t)
  <2>1. PICK o \in InstanceType : o = obj[f.inst]
    BY <1>0, <1>1, LegTop
  <2>2. Clean /\ f.inst \in DOMAIN obj
    BY <1>0, <1>1, <1>4, LegTop DEF LedgerInv, Drain, Draining, At, TopPends, Pending
  <2>3. o.ledger # << >> /\ AllApplied(o.ledger)
    BY <1>1, <1>4, <2>1, <2>2 DEF Clean, Drain
  <2>4. PICK e : e = Newest(o)
    OBVIOUS
  <2>5. e.of \in applied
    BY <2>3, <2>4, AllButNewest DEF Newest
  <2>6. PICK g : g = [f EXCEPT !.at = "compensate", !.entry = e, !.tries = 0]
    OBVIOUS
  <2>7. g.entry = e
    BY <2>6 DEF CallType
  <2>8. Calls({g})
    BY <1>1, <1>4, <2>1, <2>4, <2>6, DrainPops DEF Pops
  <2>9. Pays({g})
    BY <1>0, <2>5, <2>7, <2>8 DEF Pays
  <2> QED BY <1>0, <2>9, PaysKept
<1>5. ASSUME Repaying(f) PROVE f.entry.of \in applied
  BY <1>0, <1>1, <1>5, TopKnown DEF Known, Repaid
<1>6. CASE CompensationFails(t) \/ CompensationRaised(t) \/ CompensateLost(t)
  <2>1. Again(t).entry = f.entry
    BY <1>1 DEF Again, CallType
  <2>2. Pays({NextEntry(Top(t)), Again(t)})
    BY <1>0, <1>1, <1>2, <1>5, <1>6, <2>1, UncompensatedCalls DEF Pays, Repaying
  <2> QED BY <1>0, <2>2, PaysKept
<1>7. CASE Compensate(t)
  <2>1. Goto(t, "compensated").entry = f.entry
    BY <1>1 DEF Goto, CallType
  <2>2. ~Repaying(Adv(NextOcc)) /\ ~Repaying(NextEntry(Top(t))) /\ Repaying(f)
    BY <1>1, <1>2, <1>7 DEF Repaying, Adv, Call, Compensate, At
  <2>3. Pays({NextEntry(Top(t))}) \/ Pays({Goto(t, "compensated"), Adv(NextOcc)})
    BY <1>0, <1>5, <1>7, <2>1, <2>2, CompensateCalls DEF Reacts, Pays
  <2> QED BY <1>0, <2>3, PaysKept
<1> QED BY <1>3, <1>4, <1>6, <1>7

(* Nor does a resume or a caller deliver one. *)
LEMMA OutsideRepaid ==
    ASSUME TypeInv, Repaid, NEW t \in Threads,
           Resume(t) \/ ResumeRestore(t) \/ ResumeStore(t) \/ \E e \in Entry : Enter(t, e)
    PROVE  Repaid'
<1>0. applied \subseteq applied'
  BY DEF Resume, ResumeRestore, ResumeStore, Enter, history
<1>1. ASSUME NEW g, g.at \notin {"compensate", "compensated"}, Calls({g}) PROVE Repaid'
  BY <1>0, <1>1, PaysNothing DEF Repaying
<1>2. CASE Resume(t)
  <2>1. ResumeCall.at = "restore"
    BY DEF ResumeCall, Call
  <2> QED BY <1>1, <1>2, <2>1, ResumeCalls
<1>3. CASE ResumeRestore(t)
  <2>1. PICK f \in CallType : f = Top(t)
    BY <1>3, TopKnown DEF ResumeRestore, At
  <2>2. PICK r : r = RowOf(Restored(obj[f.inst]), NoMarker)
    OBVIOUS
  <2>3. Restoring(t).at = "store"
    BY <2>1, <2>2 DEF Restoring, CallType
  <2> QED BY <1>1, <1>3, <2>3, RestoreCalls DEF Restores
<1>4. CASE ResumeStore(t)
  <2>1. Calls({})
    BY <1>4, PopCalls DEF ResumeStore, At, TypeInv, Types
  <2> QED BY <1>0, <2>1, PaysNothing
<1>5. ASSUME NEW e \in Entry, Enter(t, e) PROVE Repaid'
  <2>1. Adv(NextOcc).at = "claim"
    BY DEF Adv, Call
  <2> QED BY <1>1, <1>5, <2>1, EnterCalls
<1> QED BY <1>2, <1>3, <1>4, <1>5

(* The calls of t change at the innermost end, and each keeps its kind. *)
Shaped(t) ==
    \/ Pop(t)
    \/ \E f : f.k = Top(t).k /\ (SetTop(t, f) \/ \E g : g.k # "boot" /\ SetTopAndPush(t, f, g))
    \/ \E n \in Relays(t) : stack' = [stack EXCEPT ![t] = SubSeq(@, 1, n - 1)]

(* The outermost call keeps its kind, and no boot is added. *)
LEMMA ShapedUnbooted ==
    ASSUME OneThread, TypeInv, TypeInv', Unbooted, NEW t \in Threads, stack[t] # << >>, Shaped(t)
    PROVE  Unbooted'
<1>1. PICK s \in Seq(CallType) : s = stack[t]
  BY DEF TypeInv, Types
<1>2. PICK r \in Seq(CallType) : r = stack'[t]
  BY DEF TypeInv, Types
<1>a. Len(s) \in Nat /\ Len(s) >= 1
  BY <1>1, DepthIs
<1>3. SUFFICES /\ \A j \in DOMAIN r : r[j].k # "boot"
               /\ r # << >> => r[1].k # "leg"
  <2>1. \A u \in Threads : u = t
    BY DEF OneThread
  <2>2. r # << >> => 1 \in DOMAIN r
    OBVIOUS
  <2> QED BY <1>2, <1>3, <2>1, <2>2 DEF Unbooted, Booting
<1>4. s[1].k # "leg" /\ \A j \in DOMAIN s : s[j].k # "boot"
  BY <1>1 DEF Unbooted, Booting
<1>b. Len(s) \in DOMAIN s /\ Top(t) = s[Len(s)]
  BY <1>1, <1>a DEF Top, Depth
<1>5. ASSUME \A j \in DOMAIN r : j \in DOMAIN s /\ r[j] = s[j]
      PROVE  (\A j \in DOMAIN r : r[j].k # "boot") /\ (r # << >> => r[1].k # "leg")
  BY <1>4, <1>5
<1>6. CASE Pop(t)
  <2>1. Len(r) = Len(s) - 1 /\ \A j \in 1..(Len(s) - 1) : r[j] = s[j]
    BY <1>1, <1>2, <1>6, PopShape
  <2>2. \A j \in DOMAIN r : j \in DOMAIN s /\ r[j] = s[j]
    BY <1>a, <2>1
  <2> QED BY <1>5, <2>2
<1>7. ASSUME NEW n \in Relays(t), stack' = [stack EXCEPT ![t] = SubSeq(@, 1, n - 1)]
      PROVE  (\A j \in DOMAIN r : r[j].k # "boot") /\ (r # << >> => r[1].k # "leg")
  <2>1. n \in 1..Len(s) /\ r = SubSeq(s, 1, n - 1)
    BY <1>1, <1>2, <1>7 DEF Relays, Depth, TypeInv, Types
  <2>2. \A j \in DOMAIN r : j \in DOMAIN s /\ r[j] = s[j]
    BY <1>a, <2>1
  <2> QED BY <1>5, <2>2
<1>8. ASSUME NEW f, f.k = Top(t).k, SetTop(t, f)
      PROVE  (\A j \in DOMAIN r : r[j].k # "boot") /\ (r # << >> => r[1].k # "leg")
  <2>1. Len(r) = Len(s) /\ r[Len(r)] = f /\ \A j \in 1..(Len(s) - 1) : r[j] = s[j]
    BY <1>1, <1>2, <1>8, SetShape
  <2>2. \A j \in DOMAIN r : j \in DOMAIN s /\ r[j].k = s[j].k
    <3>1. \A j \in DOMAIN r : j = Len(s) \/ j \in 1..(Len(s) - 1)
      BY <1>a, <2>1
    <3> QED BY <1>8, <1>a, <1>b, <2>1, <3>1
  <2> QED BY <1>4, <2>2
<1>9. ASSUME NEW f, NEW g, f.k = Top(t).k, g.k # "boot", SetTopAndPush(t, f, g)
      PROVE  (\A j \in DOMAIN r : r[j].k # "boot") /\ (r # << >> => r[1].k # "leg")
  <2>1. /\ Len(r) = Len(s) + 1 /\ r[Len(r)] = g /\ r[Len(s)] = f
        /\ \A j \in 1..(Len(s) - 1) : r[j] = s[j]
    BY <1>1, <1>2, <1>9, PushShape
  <2>2. \A j \in 1..Len(s) : r[j].k = s[j].k
    <3>1. \A j \in 1..Len(s) : j = Len(s) \/ j \in 1..(Len(s) - 1)
      BY <1>a
    <3> QED BY <1>9, <1>b, <2>1, <3>1
  <2>3. r[1].k # "leg" /\ \A j \in 1..Len(s) : r[j].k # "boot"
    BY <1>4, <1>a, <2>2
  <2>4. \A j \in DOMAIN r : j \in 1..Len(s) \/ j = Len(r)
    BY <1>a, <2>1
  <2> QED BY <1>9, <2>1, <2>3, <2>4
<1> QED BY <1>6, <1>7, <1>8, <1>9 DEF Shaped

(* Changing one of its other fields leaves a call's kind. *)
LEMMA KindKept ==
    ASSUME NEW f \in CallType
    PROVE  /\ \A x : [f EXCEPT !.at = x].k = f.k /\ [f EXCEPT !.rec = x].k = f.k /\ [f EXCEPT !.tries = x].k = f.k
           /\ \A o, x : Saving(o, f, x).k = f.k
           /\ NextEntry(f).k = f.k
<1>1. \A r, x : [f EXCEPT !.at = "save", !.copy = r, !.then = x].k = f.k
  BY DEF CallType
<1>2. \A o, x : Saving(o, f, x).k = f.k
  BY <1>1 DEF Saving
<1>3. NextEntry(f).k = f.k
  BY DEF NextEntry, CallType
<1>4. \A x : [f EXCEPT !.at = x].k = f.k /\ [f EXCEPT !.rec = x].k = f.k /\ [f EXCEPT !.tries = x].k = f.k
  BY DEF CallType
<1> QED BY <1>2, <1>3, <1>4

(* An advance changes the innermost end. *)
LEMMA AdvShaped ==
    ASSUME TypeInv, NEW t \in Threads, ClaimEvent(t) \/ BeginSaga(t) \/ AdvanceSaga(t) \/ EndSaga(t)
    PROVE  Shaped(t)
<1>0. stack[t] # << >>
  BY DEF ClaimEvent, BeginSaga, AdvanceSaga, EndSaga, At
<1>1. \A at : Goto(t, at).k = Top(t).k
  BY <1>0, GotoIs
<1>2. \A on, ev, h, c, i : Leg(on, ev, h, c, i).k # "boot"
  BY DEF Leg, Call
<1>3. CASE ClaimEvent(t) \/ BeginSaga(t) \/ EndSaga(t)
  BY <1>1, <1>3 DEF ClaimEvent, BeginSaga, EndSaga, Shaped
<1>4. CASE AdvanceSaga(t)
  <2>1. SetTop(t, Goto(t, "end")) \/ \E h : SetTopAndPush(t, Goto(t, "end"), Leg(h.on, Top(t).ev, h, cur, 0))
    BY <1>4 DEF AdvanceSaga
  <2> QED BY <1>1, <1>2, <2>1 DEF Shaped
<1> QED BY <1>3, <1>4

(* So does a leg. *)
LEMMA LegShaped ==
    ASSUME TypeInv, NEW t \in Threads,
           StartDispatch(t) \/ StartRaised(t) \/ SettleDispatch(t) \/ FinishLeg(t) \/ SaveCopy(t)
           \/ Unwind(t) \/ RecordCompensation(t) \/ SendDelivered(t) \/ SendSkipped(t)
           \/ SendRefused(t) \/ SendRaised(t) \/ SendLost(t)
    PROVE  Shaped(t)
<1>0. stack[t] # << >>
  BY DEF StartDispatch, StartRaised, SettleDispatch, FinishLeg, SaveCopy, Unwind, RecordCompensation,
     SendDelivered, SendSkipped, SendRefused, SendRaised, SendLost, At
<1>a. PICK f \in CallType : f = Top(t)
  BY <1>0, TopKnown
<1>1. \A at : Goto(t, at).k = Top(t).k
  BY <1>0, GotoIs
<1>2. ASSUME NEW g, g.k = f.k, SetTop(t, g) PROVE Shaped(t)
  BY <1>2, <1>a DEF Shaped
<1>3. ASSUME NEW g, NEW e, g.k = f.k, e.k # "boot", SetTopAndPush(t, g, e) PROVE Shaped(t)
  BY <1>3, <1>a DEF Shaped
<1>6. CASE StartDispatch(t) \/ SendSkipped(t)
  <2>1. \E at : SetTop(t, Goto(t, at))
    BY <1>6 DEF StartDispatch, SendSkipped
  <2> QED BY <1>1, <1>2, <1>a, <2>1
<1>7. CASE StartRaised(t) \/ FinishLeg(t)
  BY <1>7 DEF Shaped, StartRaised, FinishLeg
<1>8. CASE SettleDispatch(t)
  <2>1. SettledCall(t).k = f.k
    BY <1>a DEF SettledCall, Goto, CallType
  <2> QED BY <1>2, <1>8, <2>1 DEF SettleDispatch, SettledCall
<1>9. CASE SaveCopy(t)
  <2>1. PICK g : g = [f EXCEPT !.at = f.then, !.copy = NoRow, !.then = "start"]
    OBVIOUS
  <2>2. g.k = f.k
    BY <2>1 DEF CallType
  <2> QED BY <1>2, <1>9, <1>a, <2>1, <2>2 DEF SaveCopy
<1>10. CASE Unwind(t)
  <2>1. \A on, ev, h, c, i : Leg(on, ev, h, c, i).k # "boot"
    BY DEF Leg, Call
  <2>2. \/ SetTop(t, Goto(t, "settle"))
        \/ \E h : SetTopAndPush(t, Goto(t, "settle"), Leg(Refused, Top(t).ev, h, Top(t).inst, 0))
    BY <1>10 DEF Unwind
  <2> QED BY <1>1, <1>2, <1>3, <1>a, <2>1, <2>2
<1>11. CASE RecordCompensation(t)
  <2>1. PICK e \in CallType : e = [f EXCEPT !.rec = TRUE]
    BY DEF CallType
  <2>2. e.k = f.k
    BY <2>1, KindKept
  <2>3. SetTop(t, Goto(t, "send")) \/ \E o : SetTop(t, Saving(o, e, "send"))
    BY <1>11, <1>a, <2>1 DEF RecordCompensation, CopyThen, Saving
  <2>4. \A o : Saving(o, e, "send").k = f.k
    BY <2>2, KindKept
  <2> QED BY <1>1, <1>2, <1>a, <2>3, <2>4
<1>12. CASE SendDelivered(t)
  <2>1. Adv(NextOcc).k # "boot"
    BY DEF Adv, Call
  <2>2. SetTop(t, Goto(t, "settle")) \/ SetTopAndPush(t, Goto(t, "sent"), Adv(NextOcc))
    BY <1>12 DEF SendDelivered, ReactTo
  <2> QED BY <1>1, <1>2, <1>3, <1>a, <2>1, <2>2
<1>14. CASE SendRefused(t) \/ SendRaised(t) \/ SendLost(t)
  <2>1. PICK n \in Nat, next \in {"record", "unwind"} : FailDispatch(t, Tried(t, n), next)
    <3>1. f.tries \in Nat /\ f.tries + 1 \in Nat /\ [f EXCEPT !.tries = f.tries] = f
      BY DEF CallType
    <3> QED BY <1>14, <1>a, <3>1 DEF SendRefused, SendRaised, SendLost, TryAgain, Tried
  <2>a. [f EXCEPT !.tries = n] \in CallType
    BY DEF CallType
  <2>b. [f EXCEPT !.tries = n].k = f.k
    BY KindKept
  <2>2. PICK g \in CallType : g = Tried(t, n) /\ g.k = f.k
    BY <1>a, <2>a, <2>b DEF Tried
  <2>3. PICK e \in CallType : e = [g EXCEPT !.rec = FALSE]
    BY DEF CallType
  <2>4. e.k = f.k /\ [g EXCEPT !.at = next].k = f.k
    BY <2>2, <2>3, KindKept
  <2>5. SetTop(t, [g EXCEPT !.at = next]) \/ \E o : SetTop(t, Saving(o, e, next))
    BY <2>1, <2>2, <2>3 DEF FailDispatch, CopyThen, Saving
  <2>6. \A o : Saving(o, e, next).k = f.k
    BY <2>4, KindKept
  <2> QED BY <1>2, <2>4, <2>5, <2>6
<1> QED BY <1>6, <1>7, <1>8, <1>9, <1>10, <1>11, <1>12, <1>14

(* So do a reversal and a resume. *)
LEMMA DrainShaped ==
    ASSUME TypeInv, NEW t \in Threads,
           DrainDone(t) \/ Drain(t) \/ CompensationFails(t) \/ Compensate(t)
           \/ CompensationRaised(t) \/ CompensateLost(t) \/ ResumeRestore(t) \/ ResumeStore(t)
    PROVE  Shaped(t)
<1>0. stack[t] # << >>
  BY DEF DrainDone, Drain, Draining, CompensationFails, Compensate, CompensationRaised, CompensateLost,
     ResumeRestore, ResumeStore, At
<1>a. PICK f \in CallType : f = Top(t)
  BY <1>0, TopKnown
<1>2. ASSUME NEW g, g.k = f.k, SetTop(t, g) PROVE Shaped(t)
  BY <1>2, <1>a DEF Shaped
<1>b. NextEntry(f).k = f.k /\ Again(t).k = f.k /\ Goto(t, "compensated").k = f.k
  BY <1>0, <1>a, KindKept, GotoIs DEF Again, CallType
<1>3. CASE DrainDone(t)
  <2>1. PICK e \in CallType : e = NextEntry(f)
    BY <1>a, <1>3, DrainedCalls
  <2>2. SetTop(t, Saving(obj[f.inst], e, "start"))
    BY <1>3, <1>a, <2>1 DEF DrainDone, CopyThen, Saving
  <2> QED BY <1>2, <1>b, <2>1, <2>2, KindKept
<1>4. CASE Drain(t)
  <2>1. PICK e : e = Newest(obj[f.inst])
    OBVIOUS
  <2>2. PICK g : g = [f EXCEPT !.at = "compensate", !.entry = e, !.tries = 0]
    OBVIOUS
  <2>3. g.k = f.k
    BY <2>2 DEF CallType
  <2> QED BY <1>2, <1>4, <1>a, <2>1, <2>2, <2>3 DEF Drain
<1>5. CASE CompensationFails(t) \/ Compensate(t) \/ CompensationRaised(t) \/ CompensateLost(t)
  <2>1. Adv(NextOcc).k # "boot"
    BY DEF Adv, Call
  <2>2. \/ SetTop(t, NextEntry(f)) \/ SetTop(t, Again(t))
        \/ SetTopAndPush(t, Goto(t, "compensated"), Adv(NextOcc))
    BY <1>5, <1>a DEF Compensate, CompensationFails, CompensationRaised, CompensateLost, CompensateAgain,
       Again, ReactTo
  <2> QED BY <1>2, <1>a, <1>b, <2>1, <2>2 DEF Shaped
<1>6. CASE ResumeRestore(t)
  <2>1. PICK r : r = RowOf(obj'[f.inst], NoMarker)
    OBVIOUS
  <2>2. PICK g : g = [f EXCEPT !.at = "store", !.copy = r]
    OBVIOUS
  <2>3. g.k = f.k
    BY <2>2 DEF CallType
  <2> QED BY <1>2, <1>6, <1>a, <2>1, <2>2, <2>3 DEF ResumeRestore
<1>7. CASE ResumeStore(t)
  BY <1>7 DEF Shaped, ResumeStore
<1> QED BY <1>3, <1>4, <1>5, <1>6, <1>7

(* No step of a process that never died is a boot's. *)
LEMMA UnbootedStep ==
    ASSUME OneThread, TypeInv, TypeInv', Unbooted, NEW t \in Threads, Step(t)
    PROVE  Unbooted' /\ ~BootRaised(t) /\ ~BootRow(t) /\ ~RedriveSaga(t)
<1>0. stack[t] # << >>
  BY StepAt DEF At
<1>1. Top(t).k # "boot"
  BY <1>0, TopKnown DEF Known, Unbooted
<1>2. ~BootRow(t) /\ ~RedriveSaga(t)
  BY <1>1 DEF BootRow, RedriveSaga, At
<1>3. ~BootRaised(t)
  <2>1. stack[t][1].k # "leg" /\ 1 \in 1..Depth(t)
    BY <1>0, DepthIs DEF Unbooted, Booting, Depth
  <2> QED BY <2>1 DEF BootRaised
<1>4. Shaped(t)
  BY <1>2, <1>3, AdvShaped, LegShaped, DrainShaped DEF Step
<1> QED BY <1>0, <1>2, <1>3, <1>4, ShapedUnbooted

(* PhantomInv is inductive for a saga one thread runs. *)
LEMMA PhantomStep ==
    ASSUME OneThread, TypeInv, TypeInv', RecInv, ClaimedInv', PhantomInv, [Next]_vars
    PROVE  PhantomInv'
<1>1. ASSUME NEW t \in Threads, Step(t), crashes = 0 PROVE LedgerInv' /\ Repaid' /\ Unbooted' /\ up' = up
  <2>1. LedgerInv /\ Repaid /\ Unbooted
    BY <1>1 DEF PhantomInv
  <2>2. Unbooted' /\ ~BootRaised(t) /\ ~BootRow(t) /\ ~RedriveSaga(t)
    BY <1>1, <2>1, UnbootedStep
  <2>3. LedgerInv'
    BY <1>1, <2>1, <2>2, AdvLedger, LegLedger, DrainLedger, RepayLedger, RecordLedger, SaveLedger,
       AnsweredLedger, FailLedger, ResumeLedger DEF Step
  <2>4. Repaid'
    BY <1>1, <2>1, <2>2, AdvRepaid, LegRepaid, DrainRepaid, OutsideRepaid DEF Step
  <2> QED BY <1>1, <2>2, <2>3, <2>4, StepUp
<1>2. ASSUME NEW t \in Threads, Step(t) PROVE UNCHANGED crashes
  <2>1. ClaimEvent(t) \/ BeginSaga(t) \/ AdvanceSaga(t) \/ EndSaga(t) \/ StartDispatch(t)
        \/ StartRaised(t) \/ BootRaised(t) \/ RecordCompensation(t) => UNCHANGED crashes
    BY DEF ClaimEvent, BeginSaga, AdvanceSaga, EndSaga, StartDispatch, StartRaised, BootRaised,
       RecordCompensation
  <2>2. SendDelivered(t) \/ SendSkipped(t) \/ SendRefused(t) \/ SendRaised(t) \/ SendLost(t)
        \/ Unwind(t) \/ SettleDispatch(t) \/ FinishLeg(t) \/ SaveCopy(t) => UNCHANGED crashes
    BY DEF SendDelivered, SendSkipped, SendRefused, SendRaised, SendLost, Unwind, SettleDispatch,
       FinishLeg, SaveCopy
  <2>3. DrainDone(t) \/ Drain(t) \/ Compensate(t) \/ CompensationFails(t) \/ CompensationRaised(t)
        \/ CompensateLost(t) => UNCHANGED crashes
    BY DEF DrainDone, Drain, Compensate, CompensationFails, CompensationRaised, CompensateLost
  <2>4. BootRow(t) \/ RedriveSaga(t) \/ ResumeRestore(t) \/ ResumeStore(t) => UNCHANGED crashes
    BY DEF BootRow, RedriveSaga, ResumeRestore, ResumeStore
  <2> QED BY <1>2, <2>1, <2>2, <2>3, <2>4 DEF Step
<1>3. ASSUME NEW t \in Threads, Step(t) PROVE PhantomInv'
  BY <1>1, <1>2, <1>3 DEF PhantomInv
<1>4. CASE Crash
  BY <1>4 DEF Crash, PhantomInv
<1>5. ASSUME NEW t \in Threads, Boot(t) PROVE PhantomInv'
  BY <1>5 DEF Boot, PhantomInv
<1>6. ASSUME NEW t \in Threads, Resume(t) \/ \E e \in Entry : Enter(t, e) PROVE PhantomInv'
  <2>1. UNCHANGED <<crashes, up>>
    BY <1>6 DEF Resume, Enter
  <2>2. ASSUME Unbooted PROVE Unbooted'
    <3>1. PICK g : stack'[t] = <<g>> /\ g.k \notin {"boot", "leg"}
      BY <1>6 DEF Resume, Enter, Adv, Call, TypeInv, Types
    <3>2. \A u \in Threads : u = t
      BY DEF OneThread
    <3> QED BY <3>1, <3>2 DEF Unbooted, Booting
  <2> QED BY <1>6, <2>1, <2>2, OutsideLedger, OutsideRepaid DEF PhantomInv
<1>7. CASE UNCHANGED vars
  BY <1>7 DEF vars, PhantomInv, LedgerInv, Waits, TopPends, Top, Depth, Owns, Clean, AllApplied, Repaid,
     Unbooted, Booting
<1> QED BY <1>3, <1>4, <1>5, <1>6, <1>7 DEF Next

(* In a process that never died, and that runs a saga's reactions on one     *)
(* thread, only a dispatch that was applied is compensated: a refused or     *)
(* failed one takes its own entry off the ledger, however its retries,       *)
(* nested reactions and nested reversals interleave on that thread           *)
(* (compensation.rb record_compensation, unrecord_compensation).             *)
THEOREM CompensatesApplied ==
    ASSUME OneThread PROVE Spec /\ []KeysDistinct => []NoPhantomCompensation
<1>1. Init => RecInv /\ MoveInv /\ ClaimedInv /\ PhantomInv
  BY DEF Init, RecInv, MoveInv, ClaimedInv, Marks, NoRow, PhantomInv, LedgerInv, Waits, TopPends, Clean,
     Repaid, Unbooted, Booting
<1>2. TypeInv /\ TypeInv' /\ RecInv /\ ClaimedInv' /\ PhantomInv /\ [Next]_vars => PhantomInv'
  BY PhantomStep
<1>3. TypeInv /\ Down /\ MoveInv /\ ClaimedInv /\ KeysDistinct /\ [Next]_vars => ClaimedInv'
  BY ClaimedStep
<1>4. PhantomInv => NoPhantomCompensation
  BY DEF PhantomInv, LedgerInv, NoPhantomCompensation
<1> QED BY <1>1, <1>2, <1>3, <1>4, TypeStart, TypeStep, MoveStep, RecStep, PTL DEF Spec

----------------------------------------------------------------------------
(* The legs a death cut short, for a saga one thread runs, whose commands    *)
(* emit nothing it hears and have no compensations.                          *)

Plain == OneThread /\ Compensations = {} /\ \A c \in Commands : EmitsOf[c] = None

(* The forward legs that are neither finished, reversed, reported nor failed. *)
Owing == {l \in taken : ~Unwound(l.ev) /\ ~AllAnswered(l) /\ l.ev \notin reported \cup failed}

(* A marker that names leg l, and settles only what was answered. *)
Answers(l, n) == \A i \in 1..n : <<l.on, l.ev, i>> \in answered
Names(m, l) == m.on = l.on /\ m.ev = l.ev /\ m.from = l.h.from /\ Answers(l, m.settled)

(* The call that is running l, and the boot that will. *)
Runs(f, l) ==
    /\ f.k = "leg" /\ f.on = l.on /\ f.ev = l.ev /\ f.h = l.h /\ f.inst = cur
    /\ f.at \in {"start", "record", "send", "unwind", "settle"} /\ ~f.rec
    /\ Answers(l, f.i - 1) /\ (f.at = "settle" => Answers(l, f.i))
Restarts(f, l) == f.k = "boot" /\ f.todo = {} /\ cur # 0 /\ Names(obj[cur].stalled, l)

(* A row is owed only to the innermost call, which is about to claim it or   *)
(* to redrive it.                                                            *)
OwedTo(f) ==
    IF f.k = "adv" /\ f.at = "claim" THEN owed \subseteq {f.ev}
    ELSE IF f.k = "boot" /\ f.at = "rows" THEN owed = f.todo
    ELSE owed = {}
Lower(f) ==
    \/ f.k = "adv" /\ f.at = "end"
    \/ f.k = "leg" /\ f.at = "settle"
    \/ f.k = "boot" /\ f.at = "rows" /\ f.todo = {}
OwedInv ==
    /\ \A a, b \in owed : a = b
    /\ up => \A t \in Threads :
                 /\ \A j \in 1..(Len(stack[t]) - 1) : Lower(stack[t][j])
                 /\ IF stack[t] = << >> THEN owed = {} ELSE OwedTo(Top(t))

(* A leg taken was declared for its trigger, and moved on an event that was  *)
(* emitted.                                                                  *)
Declared(l) ==
    /\ l.h \in Handlers /\ l.on = l.h.on /\ l.ev \in 1..Len(occ)
    /\ l.on # Refused => l.on = occ[l.ev]
TakenInv == \A l \in taken : Declared(l)

(* The leg is named by the row on disk, and run by the innermost call.       *)
Stored(l) == owed = {} /\ disk.there /\ Names(disk.marker, l)
Run(t, l) == stack[t] # << >> /\ (Runs(Top(t), l) \/ Restarts(Top(t), l))
OwingInv == \A l \in Owing : Stored(l) /\ (up => \E t \in Threads : Run(t, l))

(* Nothing is owed once the innermost call moves on. *)
Moves(t) ==
    \/ \E f : SetTop(t, f) /\ ~(f.k = "boot" /\ f.at = "rows")
    \/ \E f, g : SetTopAndPush(t, f, g) /\ Lower(f) /\ g.k # "boot"
    \/ Pop(t)
    \/ \E n \in Relays(t) : stack' = [stack EXCEPT ![t] = SubSeq(@, 1, n - 1)]

(* OwedInv is kept by a step of the innermost call that leaves nothing owed. *)
LEMMA OwedKept ==
    ASSUME OneThread, TypeInv, TypeInv', OwedInv, NEW t \in Threads, up, stack[t] # << >>,
           Moves(t), owed' = {}
    PROVE  OwedInv'
<1>0. \A j \in 1..(Len(stack[t]) - 1) : Lower(stack[t][j])
  BY DEF OwedInv
<1>a. Len(stack[t]) \in Nat /\ Len(stack[t]) >= 1
  BY DepthIs
<1>1. SUFFICES /\ \A j \in 1..(Len(stack'[t]) - 1) : Lower(stack'[t][j])
               /\ stack'[t] # << >> => ~(stack'[t][Len(stack'[t])].k = "boot"
                                         /\ stack'[t][Len(stack'[t])].at = "rows")
                                       \/ stack'[t][Len(stack'[t])].todo = {}
  <2>1. \A u \in Threads : u = t
    BY DEF OneThread
  <2>2. IF stack'[t] = << >> THEN owed' = {} ELSE OwedTo(Top(t))'
    BY <1>1 DEF OwedTo, Top, Depth
  <2> QED BY <1>1, <2>1, <2>2 DEF OwedInv
<1>2. ASSUME NEW f, SetTop(t, f), ~(f.k = "boot" /\ f.at = "rows")
      PROVE  /\ \A j \in 1..(Len(stack'[t]) - 1) : Lower(stack'[t][j])
             /\ ~(stack'[t][Len(stack'[t])].k = "boot" /\ stack'[t][Len(stack'[t])].at = "rows")
  BY <1>0, <1>2, SetShape
<1>3. ASSUME NEW f, NEW g, SetTopAndPush(t, f, g), Lower(f), g.k # "boot"
      PROVE  /\ \A j \in 1..(Len(stack'[t]) - 1) : Lower(stack'[t][j])
             /\ stack'[t][Len(stack'[t])].k # "boot"
  <2>1. \A j \in 1..Len(stack[t]) : j = Len(stack[t]) \/ j \in 1..(Len(stack[t]) - 1)
    BY <1>a
  <2>2. Len(stack'[t]) - 1 = Len(stack[t])
    BY <1>3, <1>a, PushShape
  <2>3. \A j \in 1..Len(stack[t]) : Lower(stack'[t][j])
    BY <1>0, <1>3, <2>1, PushShape
  <2> QED BY <1>3, <2>2, <2>3, PushShape
<1>4. ASSUME Pop(t)
      PROVE  /\ \A j \in 1..(Len(stack'[t]) - 1) : Lower(stack'[t][j])
             /\ stack'[t] # << >> => Lower(stack'[t][Len(stack'[t])])
  <2>1. \A j \in 1..(Len(stack[t]) - 1) : Lower(stack'[t][j])
    BY <1>0, <1>4, PopShape
  <2>2. 1..(Len(stack'[t]) - 1) \subseteq 1..(Len(stack[t]) - 1)
    BY <1>4, <1>a, PopShape
  <2> QED BY <1>4, <2>1, <2>2, PopShape
<1>5. ASSUME NEW n \in Relays(t), stack' = [stack EXCEPT ![t] = SubSeq(@, 1, n - 1)]
      PROVE  /\ \A j \in 1..(Len(stack'[t]) - 1) : Lower(stack'[t][j])
             /\ stack'[t] # << >> => Lower(stack'[t][Len(stack'[t])])
  <2>1. PICK s \in Seq(CallType) : s = stack[t]
    BY DEF TypeInv, Types
  <2>2. PICK r : r = stack'[t]
    OBVIOUS
  <2>3. n \in 1..Len(s) /\ Len(s) \in Nat
    BY <2>1 DEF Relays, Depth
  <2>4. PICK m \in Nat : m = n - 1
    BY <2>3
  <2>5. m <= Len(s) - 1 /\ m <= Len(s)
    BY <2>3, <2>4
  <2>6. r = SubSeq(s, 1, m)
    BY <1>5, <2>1, <2>2, <2>4 DEF TypeInv, Types
  <2>7. r \in Seq(CallType) /\ Len(r) = m /\ \A j \in 1..m : r[j] = s[j]
    BY <2>1, <2>5, <2>6
  <2>8. \A j \in 1..m : Lower(r[j])
    <3>1. \A j \in 1..m : j \in 1..(Len(s) - 1)
      BY <2>3, <2>5
    <3> QED BY <1>0, <2>1, <2>7, <3>1
  <2>9. r # << >> => m \in 1..m
    BY <2>7
  <2>10. 1..(m - 1) \subseteq 1..m
    OBVIOUS
  <2> QED BY <2>2, <2>7, <2>8, <2>9, <2>10
<1> QED BY <1>2, <1>3, <1>4, <1>5 DEF Moves, Lower

(* An advance claims its event's row and leaves nothing owed. *)
LEMMA AdvOwed ==
    ASSUME OneThread, TypeInv, TypeInv', OwedInv, NEW t \in Threads,
           ClaimEvent(t) \/ BeginSaga(t) \/ AdvanceSaga(t) \/ EndSaga(t)
    PROVE  OwedInv'
<1>0. stack[t] # << >> /\ Top(t).k = "adv" /\ up /\ OwedTo(Top(t))
  BY DEF ClaimEvent, BeginSaga, AdvanceSaga, EndSaga, At, OwedInv
<1>1. \A at : Goto(t, at).k = "adv" /\ Goto(t, at).at = at
  BY <1>0, GotoIs
<1>2. owed' = {}
  <2>1. CASE ClaimEvent(t)
    BY <1>0, <2>1 DEF ClaimEvent, At, OwedTo
  <2>2. CASE BeginSaga(t) \/ AdvanceSaga(t) \/ EndSaga(t)
    BY <1>0, <2>2 DEF BeginSaga, AdvanceSaga, EndSaga, At, OwedTo
  <2> QED BY <2>1, <2>2
<1>3. Moves(t)
  <2>1. CASE ClaimEvent(t)
    BY <1>1, <2>1 DEF ClaimEvent, Moves
  <2>2. CASE BeginSaga(t)
    BY <1>1, <2>2 DEF BeginSaga, Moves
  <2>3. CASE AdvanceSaga(t)
    <3>1. CASE SetTop(t, Goto(t, "end"))
      BY <1>1, <3>1 DEF Moves
    <3>2. CASE ~SetTop(t, Goto(t, "end"))
      <4>1. PICK h : SetTopAndPush(t, Goto(t, "end"), Leg(h.on, Top(t).ev, h, cur, 0))
        BY <2>3, <3>2 DEF AdvanceSaga
      <4>2. Leg(h.on, Top(t).ev, h, cur, 0).k # "boot"
        BY DEF Leg, Call
      <4>3. Lower(Goto(t, "end"))
        BY <1>1 DEF Lower
      <4> QED BY <4>1, <4>2, <4>3 DEF Moves
    <3> QED BY <3>1, <3>2
  <2>4. CASE EndSaga(t)
    BY <2>4 DEF EndSaga, Moves
  <2> QED BY <2>1, <2>2, <2>3, <2>4
<1> QED BY <1>0, <1>2, <1>3, OwedKept

(* Without compensations nothing is recorded or drained. *)
LEMMA NeverCompensates ==
    ASSUME Compensations = {}, TypeInv, NEW t \in Threads
    PROVE  /\ ~Drain(t) /\ ~Compensate(t) /\ ~CompensationFails(t) /\ ~CompensationRaised(t)
           /\ ~CompensateLost(t)
           /\ RecordCompensation(t) => SetTop(t, Goto(t, "send")) /\ UNCHANGED obj
<1>1. EntryType = {}
  BY DEF EntryType
<1>2. ~Drain(t)
  BY <1>1, DrainPops DEF Pops
<1>4. ~(stack[t] # << >> /\ Top(t).k = "leg" /\ Repaying(Top(t)))
  BY <1>1, Repays
<1>5. ~Compensate(t) /\ ~CompensationFails(t) /\ ~CompensationRaised(t) /\ ~CompensateLost(t)
  BY <1>4 DEF Compensate, CompensationFails, CompensationRaised, CompensateLost, At, Repaying
<1>3. ASSUME RecordCompensation(t) PROVE SetTop(t, Goto(t, "send")) /\ UNCHANGED obj
  <2>0. stack[t] # << >> /\ Top(t).k = "leg" /\ Top(t).at = "record"
    BY <1>3 DEF RecordCompensation, At
  <2>1. Top(t) \in CallType /\ Fits(Top(t), Len(obj), Len(occ))
    BY <2>0, TopKnown
  <2>2. Top(t).i >= 1 /\ Top(t).i <= Len(Top(t).h.does)
    BY <2>0, <2>1 DEF Fits, Aimed
  <2>3. Top(t).h.does \in Seq(Commands) /\ Top(t).i \in Nat
    BY <2>1 DEF CallType, HandlerType
  <2>4. CommandAt(Top(t)) \in Commands
    BY <2>2, <2>3 DEF CommandAt
  <2>5. CompOf[CommandAt(Top(t))] = None
    BY <2>4 DEF Compensations
  <2> QED BY <1>3, <2>5 DEF RecordCompensation
<1> QED BY <1>2, <1>3, <1>5

(* A leg whose commands emit nothing the saga hears leaves nothing owed. *)
LEMMA LegOwed ==
    ASSUME Plain, TypeInv, TypeInv', RecInv, OwedInv, NEW t \in Threads,
           StartDispatch(t) \/ StartRaised(t) \/ SettleDispatch(t) \/ FinishLeg(t) \/ SaveCopy(t)
           \/ DrainDone(t) \/ Unwind(t) \/ RecordCompensation(t) \/ SendDelivered(t) \/ SendSkipped(t)
           \/ SendRefused(t) \/ SendRaised(t) \/ SendLost(t)
    PROVE  OwedInv'
<1>0. stack[t] # << >> /\ Top(t).k = "leg" /\ up /\ OwedTo(Top(t)) /\ OneThread
  BY DEF StartDispatch, StartRaised, SettleDispatch, FinishLeg, SaveCopy, DrainDone, Draining, Unwind,
         RecordCompensation, SendDelivered, SendSkipped, SendRefused, SendRaised, SendLost, At,
         OwedInv, Plain
<1>a. owed = {}
  BY <1>0 DEF OwedTo
<1>b. Top(t) \in CallType
  BY <1>0, RecTop
<1>1. \A at : Goto(t, at).k = "leg" /\ Goto(t, at).at = at
  BY <1>0, GotoIs
<1>2. ASSUME NEW f, SetTop(t, f), f.k = "leg" PROVE Moves(t)
  BY <1>2 DEF Moves
<1>3. owed' = {} /\ Moves(t)
  <2>1. CASE StartDispatch(t)
    BY <1>1, <1>2, <1>a, <2>1 DEF StartDispatch
  <2>2. CASE SettleDispatch(t)
    <3>1. SettledCall(t).k = "leg"
      BY <1>0, <1>b DEF SettledCall, Goto, CallType
    <3> QED BY <1>2, <1>a, <2>2, <3>1 DEF SettleDispatch, SettledCall
  <2>3. CASE FinishLeg(t)
    BY <1>a, <2>3 DEF FinishLeg, Moves
  <2>11. CASE StartRaised(t)
    BY <1>a, <2>11 DEF StartRaised, Moves
  <2>4. CASE SaveCopy(t)
    <3>1. PICK g : g = [Top(t) EXCEPT !.at = Top(t).then, !.copy = NoRow, !.then = "start"]
      OBVIOUS
    <3>2. g.k = "leg"
      BY <1>0, <1>b, <3>1 DEF CallType
    <3> QED BY <1>2, <1>a, <2>4, <3>1, <3>2 DEF SaveCopy
  <2>5. CASE DrainDone(t)
    <3>0. PICK e \in CallType : e = NextEntry(Top(t))
      BY <2>5, DrainedCalls
    <3>1. PICK g : g = Saving(obj[Top(t).inst], e, "start")
      OBVIOUS
    <3>2. g.k = "leg"
      BY <1>0, <1>b, <3>0, <3>1, KindKept
    <3> QED BY <1>2, <1>a, <2>5, <3>0, <3>1, <3>2 DEF DrainDone, CopyThen, Saving
  <2>6. CASE Unwind(t)
    <3>1. CASE SetTop(t, Goto(t, "settle"))
      BY <1>1, <1>2, <1>a, <2>6, <3>1 DEF Unwind
    <3>2. CASE ~SetTop(t, Goto(t, "settle"))
      <4>1. PICK h : SetTopAndPush(t, Goto(t, "settle"), Leg(Refused, Top(t).ev, h, Top(t).inst, 0))
        BY <2>6, <3>2 DEF Unwind
      <4>2. Leg(Refused, Top(t).ev, h, Top(t).inst, 0).k # "boot"
        BY DEF Leg, Call
      <4>3. Lower(Goto(t, "settle"))
        BY <1>1 DEF Lower
      <4> QED BY <1>a, <2>6, <4>1, <4>2, <4>3 DEF Moves, Unwind
    <3> QED BY <3>1, <3>2
  <2>7. CASE RecordCompensation(t)
    BY <1>1, <1>2, <1>a, <2>7, NeverCompensates DEF RecordCompensation, Plain
  <2>8. CASE SendDelivered(t)
    <3>1. EmitsOf[CommandAt(Top(t))] = None
      BY <2>8, SendCommand DEF SendDelivered, Plain
    <3> QED BY <1>1, <1>2, <1>a, <2>8, <3>1 DEF SendDelivered, Commits, Emits, ReactTo
  <2>9. CASE SendSkipped(t)
    BY <1>1, <1>2, <1>a, <2>9 DEF SendSkipped
  <2>10. CASE SendRefused(t) \/ SendRaised(t) \/ SendLost(t)
    <3>0. owed' = owed
      <4>1. CASE SendLost(t)
        <5>1. EmitsOf[CommandAt(Top(t))] = None
          BY <4>1, SendCommand DEF SendLost, Plain
        <5> QED BY <4>1, <5>1 DEF SendLost, Commits, Emits
      <4> QED BY <2>10, <4>1 DEF SendRefused, SendRaised
    <3>1. PICK g, next : g \in {Top(t), [Top(t) EXCEPT !.tries = @ + 1]} /\ FailDispatch(t, g, next)
      BY <2>10 DEF SendRefused, SendRaised, SendLost, TryAgain
    <3>2. g \in CallType /\ g.k = "leg"
      BY <1>0, <1>b, <3>1 DEF CallType
    <3>3. PICK f : f = IF g.rec THEN Saving(obj'[g.inst], [g EXCEPT !.rec = FALSE], next) ELSE [g EXCEPT !.at = next]
      OBVIOUS
    <3>4. f.k = "leg"
      BY <3>2, <3>3 DEF CallType, Saving
    <3>5. SetTop(t, f)
      BY <3>1, <3>3 DEF FailDispatch, CopyThen, Saving
    <3> QED BY <1>2, <1>a, <3>0, <3>4, <3>5
  <2> QED BY <2>1, <2>2, <2>3, <2>4, <2>5, <2>6, <2>7, <2>8, <2>9, <2>10, <2>11
<1> QED BY <1>0, <1>3, OwedKept

(* A redrive advances on the one row owed. *)
LEMMA BootOwed ==
    ASSUME OneThread, TypeInv, TypeInv', OwedInv, NEW t \in Threads, BootRow(t) \/ RedriveSaga(t)
    PROVE  OwedInv'
<1>0. stack[t] # << >> /\ Top(t).k = "boot" /\ up /\ OwedTo(Top(t)) /\ UNCHANGED owed
  BY DEF BootRow, RedriveSaga, At, OwedInv
<1>b. Top(t) \in CallType
  BY <1>0, TopKnown
<1>1. CASE BootRow(t) /\ Top(t).todo = {}
  <2>1. owed' = {}
    BY <1>0, <1>1 DEF BootRow, At, OwedTo
  <2>2. Moves(t)
    BY <1>0, <1>1, GotoIs DEF BootRow, Moves
  <2> QED BY <1>0, <2>1, <2>2, OwedKept
<1>2. CASE BootRow(t) /\ Top(t).todo # {}
  <2>1. Top(t).at = "rows" /\ owed = Top(t).todo
    BY <1>0, <1>2 DEF BootRow, At, OwedTo
  <2>2. PICK ev \in Top(t).todo : SetTopAndPush(t, [Top(t) EXCEPT !.todo = @ \ {ev}], Adv(ev))
    BY <1>2 DEF BootRow
  <2>3. owed = {ev}
    BY <2>1, <2>2 DEF OwedInv
  <2>4. PICK f : f = [Top(t) EXCEPT !.todo = @ \ {ev}]
    OBVIOUS
  <2>5. f.k = "boot" /\ f.at = "rows" /\ f.todo = {}
    BY <1>0, <1>b, <2>1, <2>3, <2>4 DEF CallType
  <2>6. PICK g : g = Adv(ev)
    OBVIOUS
  <2>7. g.k = "adv" /\ g.at = "claim" /\ g.ev = ev
    BY <2>6 DEF Adv, Call
  <2>8. \A j \in 1..(Len(stack[t]) - 1) : Lower(stack[t][j])
    BY <1>0 DEF OwedInv
  <2>9. /\ Len(stack'[t]) = Len(stack[t]) + 1 /\ stack'[t] # << >>
        /\ stack'[t][Len(stack'[t])] = g /\ stack'[t][Len(stack[t])] = f
        /\ \A j \in 1..(Len(stack[t]) - 1) : stack'[t][j] = stack[t][j]
    BY <1>0, <2>2, <2>4, <2>6, PushShape
  <2>10. \A j \in 1..(Len(stack'[t]) - 1) : j = Len(stack[t]) \/ j \in 1..(Len(stack[t]) - 1)
    BY <1>0, <2>9, DepthIs
  <2>11. \A j \in 1..(Len(stack'[t]) - 1) : Lower(stack'[t][j])
    BY <2>5, <2>8, <2>9, <2>10 DEF Lower
  <2>12. OwedTo(Top(t))'
    BY <1>0, <2>3, <2>7, <2>9 DEF OwedTo, Top, Depth
  <2>13. \A u \in Threads : u = t
    BY DEF OneThread
  <2> QED BY <1>0, <2>3, <2>9, <2>11, <2>12, <2>13 DEF OwedInv
<1>3. CASE RedriveSaga(t)
  <2>1. owed' = {}
    BY <1>0, <1>3 DEF RedriveSaga, At, OwedTo
  <2>2. \A on, ev, h, c, i : Leg(on, ev, h, c, i).k = "leg"
    BY DEF Leg, Call
  <2>3. Pop(t) \/ \E on, ev, h, c, i : SetTop(t, Leg(on, ev, h, c, i))
    BY <1>3 DEF RedriveSaga
  <2>4. Moves(t)
    BY <2>2, <2>3 DEF Moves
  <2> QED BY <1>0, <2>1, <2>4, OwedKept
<1> QED BY <1>1, <1>2, <1>3

(* A caller's event, and the rows a boot reads, are owed to the call they start. *)
LEMMA OutsideOwed ==
    ASSUME OneThread, TypeInv, TypeInv', Down, OwedInv, NEW t \in Threads,
           Boot(t) \/ Resume(t) \/ Crash \/ \E e \in Entry : Enter(t, e)
    PROVE  OwedInv'
<1>0. \A u \in Threads : u = t
  BY DEF OneThread
<1>1. CASE Crash
  BY <1>1 DEF Crash, Gone, OwedInv
<1>3. ASSUME NEW g, stack'[t] = <<g>>, OwedTo(g)', \A a, b \in owed' : a = b PROVE OwedInv'
  <2>1. Len(stack'[t]) = 1 /\ stack'[t] # << >> /\ stack'[t][1] = g
    BY <1>3
  <2>2. \A j \in 1..(Len(stack'[t]) - 1) : Lower(stack'[t][j])
    BY <2>1
  <2>3. Top(t)' = g
    BY <2>1 DEF Top, Depth
  <2>4. OwedTo(Top(t))'
    BY <1>3, <2>3 DEF OwedTo
  <2> QED BY <1>0, <1>3, <2>1, <2>2, <2>4 DEF OwedInv
<1>2. CASE Resume(t)
  <2>1. PICK g : g = ResumeCall
    OBVIOUS
  <2>2. g.k = "resume"
    BY <2>1 DEF ResumeCall, Call
  <2>3. stack'[t] = <<g>> /\ owed' = owed /\ owed = {}
    BY <1>2, <2>1 DEF Resume, ResumeCall, OwedInv, TypeInv, Types
  <2>4. OwedTo(g)'
    BY <2>2, <2>3 DEF OwedTo
  <2>5. \A a, b \in owed' : a = b
    BY <2>3
  <2> QED BY <1>3, <2>3, <2>4, <2>5
<1>4. CASE Boot(t)
  <2>1. PICK g : g = BootCall(owed)
    OBVIOUS
  <2>2. g.k = "boot" /\ g.at = "rows" /\ g.todo = owed
    BY <2>1 DEF BootCall, Call
  <2>3. stack'[t] = <<g>> /\ owed' = owed
    BY <1>4, <2>1 DEF Boot, TypeInv, Types
  <2>4. OwedTo(g)'
    BY <2>2, <2>3 DEF OwedTo
  <2>5. \A a, b \in owed' : a = b
    BY <2>3 DEF OwedInv
  <2> QED BY <1>3, <2>3, <2>4, <2>5
<1>5. ASSUME NEW e \in Entry, Enter(t, e) PROVE OwedInv'
  <2>1. PICK g : g = Adv(NextOcc)
    OBVIOUS
  <2>2. g.k = "adv" /\ g.at = "claim" /\ g.ev = NextOcc
    BY <2>1 DEF Adv, Call
  <2>3. owed = {}
    BY <1>5 DEF Enter, OwedInv
  <2>4. stack'[t] = <<g>> /\ owed' = {NextOcc}
    BY <1>5, <2>1, <2>3 DEF Enter, TypeInv, Types
  <2>5. OwedTo(g)'
    BY <2>2, <2>4 DEF OwedTo
  <2> QED BY <1>3, <2>4, <2>5
<1> QED BY <1>1, <1>2, <1>4, <1>5

(* A resume claims and owes nothing. *)
LEMMA ResumeOwed ==
    ASSUME OneThread, TypeInv, TypeInv', OwedInv, NEW t \in Threads, ResumeRestore(t) \/ ResumeStore(t)
    PROVE  OwedInv'
<1>0. stack[t] # << >> /\ Top(t).k = "resume" /\ up /\ OwedTo(Top(t)) /\ UNCHANGED owed
  BY DEF ResumeRestore, ResumeStore, At, OwedInv
<1>1. owed' = {}
  BY <1>0 DEF OwedTo
<1>2. CASE ResumeRestore(t)
  <2>1. PICK f \in CallType : f = Top(t)
    BY <1>0, TopKnown
  <2>2. PICK r : r = RowOf(obj'[f.inst], NoMarker)
    OBVIOUS
  <2>3. PICK g : g = [f EXCEPT !.at = "store", !.copy = r]
    OBVIOUS
  <2>4. g.at = "store"
    BY <2>3 DEF CallType
  <2>5. Moves(t)
    BY <1>2, <2>1, <2>2, <2>3, <2>4 DEF ResumeRestore, Moves
  <2> QED BY <1>0, <1>1, <2>5, OwedKept
<1>3. CASE ResumeStore(t)
  <2>1. Moves(t)
    BY <1>3 DEF ResumeStore, Moves
  <2> QED BY <1>0, <1>1, <2>1, OwedKept
<1> QED BY <1>2, <1>3

(* OwedInv is inductive for a plain saga. *)
LEMMA OwedStep ==
    ASSUME Plain, TypeInv, TypeInv', Down, RecInv, OwedInv, [Next]_vars PROVE OwedInv'
<1>0. OneThread
  BY DEF Plain
<1>1. ASSUME NEW t \in Threads, Step(t) PROVE OwedInv'
  <2>1. /\ ~Drain(t) /\ ~Compensate(t) /\ ~CompensationFails(t) /\ ~CompensationRaised(t)
        /\ ~CompensateLost(t)
    BY NeverCompensates DEF Plain
  <2>2. BootRaised(t) => OwedInv'
    BY DEF BootRaised, Gone, OwedInv
  <2> QED BY <1>0, <1>1, <2>1, <2>2, AdvOwed, LegOwed, BootOwed, ResumeOwed DEF Step
<1>2. CASE Crash
  BY <1>2 DEF Crash, Gone, OwedInv
<1>3. CASE UNCHANGED vars
  BY <1>3 DEF vars, OwedInv, OwedTo, Top, Depth
<1> QED BY <1>0, <1>1, <1>2, <1>3, OutsideOwed DEF Next

(* An event keeps its name. *)
LEMMA EventKept ==
    ASSUME TypeInv, [Next]_vars, NEW ev \in 1..Len(occ)
    PROVE  ev \in 1..Len(occ') /\ occ'[ev] = occ[ev]
<1>1. occ \in Seq(Events) /\ (occ' = occ \/ \E e \in Events : occ' = Append(occ, e))
  BY EventsAdded DEF TypeInv, Types
<1>2. Len(occ') >= Len(occ) /\ occ'[ev] = occ[ev] /\ Len(occ') \in Nat /\ Len(occ) \in Nat
  BY <1>1
<1> QED BY <1>2

(* A leg taken stays declared. *)
LEMMA DeclaredKept ==
    ASSUME TypeInv, [Next]_vars, NEW l, Declared(l) PROVE Declared(l)'
<1>1. l.ev \in 1..Len(occ') /\ occ'[l.ev] = occ[l.ev]
  BY EventKept DEF Declared
<1> QED BY <1>1 DEF Declared

(* The legs a step takes. *)
LEMMA TakenBy ==
    ASSUME TypeInv, [Next]_vars, NEW l \in taken', l \notin taken
    PROVE  /\ Declared(l)
           /\ \/ l.on = Refused
              \/ \E t \in Threads : AdvanceSaga(t) /\ TakesLeg(t, l.h) /\ l.ev = Top(t).ev
<1>1. PICK t \in Threads : AdvanceSaga(t) \/ Unwind(t)
  <2>1. ASSUME NEW t \in Threads, Step(t), ~AdvanceSaga(t), ~Unwind(t) PROVE taken' = taken
    BY <2>1 DEF Step, ClaimEvent, BeginSaga, EndSaga, StartDispatch, StartRaised, BootRaised, Gone,
      RecordCompensation, SendDelivered, SendSkipped, SendRefused, SendRaised, SendLost,
      SettleDispatch, FinishLeg, SaveCopy, DrainDone, Drain, Compensate, CompensationFails,
      CompensationRaised, CompensateLost, BootRow, RedriveSaga, ResumeRestore, ResumeStore, history
  <2>2. ~(\E t \in Threads : Step(t)) => taken' = taken
    BY DEF Next, Boot, Resume, Enter, Crash, Gone, history, vars
  <2> QED BY <2>1, <2>2
<1>2. CASE AdvanceSaga(t)
  <2>1. PICK h \in Handlers : TakesLeg(t, h)
    BY <1>2, AdvanceCalls
  <2>2. l = [on |-> h.on, ev |-> Top(t).ev, h |-> h] /\ h.on = occ[Top(t).ev]
    BY <2>1 DEF TakesLeg
  <2>3. Top(t).ev \in 1..Len(occ)
    BY <1>2, TopKnown DEF AdvanceSaga, At, Fits
  <2> QED BY <1>2, <2>1, <2>2, <2>3 DEF Declared
<1>3. CASE Unwind(t)
  <2>1. PICK h \in HandlerFor(Refused, obj[Top(t).inst].state) :
            taken' = taken \cup {[on |-> Refused, ev |-> Top(t).ev, h |-> h]}
    BY <1>3 DEF Unwind
  <2>2. l = [on |-> Refused, ev |-> Top(t).ev, h |-> h] /\ h.on = Refused /\ h \in Handlers
    BY <2>1 DEF HandlerFor
  <2>3. Top(t).ev \in 1..Len(occ)
    BY <1>3, LegTop DEF Unwind, At
  <2> QED BY <2>2, <2>3 DEF Declared
<1> QED BY <1>1, <1>2, <1>3

(* TakenInv is inductive. *)
LEMMA TakenStep == TypeInv /\ TakenInv /\ [Next]_vars => TakenInv'
<1>1. ASSUME TypeInv, TakenInv, [Next]_vars, NEW l \in taken' PROVE Declared(l)'
  <2>1. Declared(l)
    BY <1>1, TakenBy DEF TakenInv
  <2> QED BY <1>1, <2>1, DeclaredKept
<1> QED BY <1>1 DEF TakenInv

(* What was answered, taken, reported and failed stays so. *)
Grows ==
    /\ taken \subseteq taken' /\ answered \subseteq answered'
    /\ reported \subseteq reported' /\ failed \subseteq failed'

(* No step forgets any of it. *)
LEMMA HistoryGrows == ASSUME [Next]_vars PROVE Grows
<1>1. ASSUME NEW t \in Threads, Step(t) PROVE Grows
  <2>1. ClaimEvent(t) \/ BeginSaga(t) \/ AdvanceSaga(t) \/ EndSaga(t) \/ StartDispatch(t)
        \/ StartRaised(t) \/ BootRaised(t) \/ RecordCompensation(t) => Grows
    BY DEF ClaimEvent, BeginSaga, AdvanceSaga, EndSaga, StartDispatch, StartRaised, BootRaised, Gone,
       RecordCompensation, history, Grows
  <2>2. SendDelivered(t) \/ SendSkipped(t) \/ SendRefused(t) \/ SendRaised(t) \/ SendLost(t)
        \/ Unwind(t) \/ SettleDispatch(t) \/ FinishLeg(t) \/ SaveCopy(t) => Grows
    BY DEF SendDelivered, SendSkipped, SendRefused, SendRaised, SendLost, Unwind, SettleDispatch,
       FinishLeg, SaveCopy, history, Grows
  <2>3. DrainDone(t) \/ Drain(t) \/ Compensate(t) \/ CompensationFails(t) \/ CompensationRaised(t)
        \/ CompensateLost(t) => Grows
    BY DEF DrainDone, Drain, Compensate, CompensationFails, CompensationRaised, CompensateLost, history,
       Grows
  <2>4. BootRow(t) \/ RedriveSaga(t) \/ ResumeRestore(t) \/ ResumeStore(t) => Grows
    BY DEF BootRow, RedriveSaga, ResumeRestore, ResumeStore, history, Grows
  <2> QED BY <1>1, <2>1, <2>2, <2>3, <2>4 DEF Step
<1> QED BY <1>1 DEF Next, Boot, Resume, Enter, Crash, Gone, history, vars, Grows

(* A leg of earlier that is unsettled was unsettled before the step. *)
LEMMA OwingBefore ==
    ASSUME [Next]_vars, NEW l \in taken, l \in Owing'
    PROVE  /\ l \in Owing /\ l.on # Refused
           /\ l.ev \notin reported' /\ l.ev \notin failed' /\ ~AllAnswered(l)' /\ ~Unwound(l.ev)'
<1>1. Grows
  BY HistoryGrows
<1>2. l.ev \notin reported' /\ l.ev \notin failed' /\ ~AllAnswered(l)' /\ ~Unwound(l.ev)'
  BY DEF Owing
<1>3. ~AllAnswered(l)
  BY <1>1, <1>2 DEF AllAnswered, Grows
<1>4. ~Unwound(l.ev) /\ l.on # Refused
  BY <1>1, <1>2 DEF Unwound, Grows
<1> QED BY <1>1, <1>2, <1>3, <1>4 DEF Owing, Grows

(* Answered dispatches stay answered. *)
LEMMA AnswersLast ==
    ASSUME [Next]_vars, NEW l, NEW n, Answers(l, n) PROVE Answers(l, n)'
BY HistoryGrows DEF Answers, Grows

(* The innermost call becomes one that runs l. *)
LEMMA RunsNext ==
    ASSUME TypeInv, TypeInv', NEW t \in Threads, stack[t] # << >>, NEW l, NEW g, SetTop(t, g),
           Runs(g, l)'
    PROVE  Run(t, l)'
<1>1. stack'[t] # << >> /\ stack'[t][Len(stack'[t])] = g
  BY SetShape
<1>2. Top(t)' = g
  BY <1>1 DEF Top, Depth
<1>3. Runs(Top(t), l)'
  BY <1>2 DEF Runs, Answers
<1> QED BY <1>1, <1>3 DEF Run

(* The row a leg writes while its instance is live names the leg. *)
LEMMA RowNames ==
    ASSUME TypeInv, [Next]_vars, NEW l, Declared(l), l.on # Refused, NEW f, f.ev = l.ev, f.h = l.h,
           NEW n, NEW b, Answers(l, n)', NEW o, owed' = {},
           disk' = RowOf(o, MarkerOf(f, n, b))
    PROVE  Stored(l)'
<1>1. disk'.there /\ disk'.marker = MarkerOf(f, n, b)
  BY DEF RowOf
<1>2. PICK m : m = disk'.marker
  OBVIOUS
<1>3. m.on = occ[f.ev] /\ m.ev = f.ev /\ m.from = f.h.from /\ m.settled = n
  BY <1>1, <1>2 DEF MarkerOf
<1>4. m.on = l.on
  BY <1>3 DEF Declared
<1> QED BY <1>1, <1>2, <1>3, <1>4 DEF Stored, Names, Answers

(* A new leg starts with its row written. *)
LEMMA NewLeg ==
    ASSUME TypeInv, TypeInv', OwedInv, [Next]_vars, NEW l, Declared(l), l.on # Refused,
           NEW t \in Threads, AdvanceSaga(t), TakesLeg(t, l.h), l.ev = Top(t).ev
    PROVE  Stored(l)' /\ Run(t, l)'
<1>1. stack[t] # << >> /\ Top(t).k = "adv" /\ Top(t).at = "take" /\ up /\ cur' = cur /\ owed' = owed
  BY DEF AdvanceSaga, At
<1>2. owed' = {}
  BY <1>1 DEF OwedInv, OwedTo
<1>3. PICK f : f = Leg(l.h.on, l.ev, l.h, cur, 0)
  OBVIOUS
<1>4. /\ f.k = "leg" /\ f.at = "start" /\ f.on = l.on /\ f.ev = l.ev /\ f.h = l.h /\ f.inst = cur
      /\ f.i = 1 /\ f.rec = FALSE
  BY <1>3 DEF Leg, Call, Declared
<1>5. Answers(l, 0)'
  BY DEF Answers
<1>6. PICK o : disk' = RowOf(o, MarkerOf(f, 0, FALSE))
  BY <1>3 DEF TakesLeg
<1>7. Stored(l)'
  BY <1>2, <1>4, <1>5, <1>6, RowNames
<1>8. SetTopAndPush(t, Goto(t, "end"), f)
  <2>2. cur # 0 /\ l.h \in HandlerFor(occ[Top(t).ev], obj[cur].state)
    BY DEF TakesLeg, HandlerFor, TypeInv, Types
  <2>3. PICK h \in HandlerFor(occ[Top(t).ev], obj[cur].state) :
            SetTopAndPush(t, Goto(t, "end"), Leg(h.on, Top(t).ev, h, cur, 0))
    BY <2>2 DEF AdvanceSaga
  <2>4. h = l.h
    BY <2>2, <2>3, SagaAssumption DEF HandlerFor
  <2> QED BY <1>3, <2>3, <2>4
<1>9. stack'[t] # << >> /\ stack'[t][Len(stack'[t])] = f
  BY <1>1, <1>8, PushShape
<1>10. Top(t)' = f
  BY <1>9 DEF Top, Depth
<1>11. Runs(f, l)'
  <2>1. f.i - 1 = 0
    BY <1>4
  <2> QED BY <1>1, <1>4, <1>5, <2>1 DEF Runs, Answers
<1>12. Runs(Top(t), l)'
  BY <1>10, <1>11 DEF Runs, Answers
<1> QED BY <1>7, <1>9, <1>12 DEF Run

(* The boot that finds the row restarts the leg it names. *)
LEMMA BootFinds ==
    ASSUME TypeInv, TypeInv', NEW t \in Threads, Boot(t), Next, NEW l, Stored(l)
    PROVE  Stored(l)' /\ Run(t, l)'
<1>1. UNCHANGED <<disk, owed, answered>> /\ owed = {} /\ disk.there
  BY DEF Boot, Stored, history
<1>2. Names(disk.marker, l)'
  BY <1>1 DEF Stored, Names, Answers
<1>3. cur' = 1 /\ obj' = <<Instance(disk.state, disk.faulted, disk.ledger, disk.marker)>>
  BY <1>1 DEF Boot
<1>4. obj'[cur'].stalled = disk.marker
  BY <1>3 DEF Instance
<1>5. PICK g : g = BootCall({})
  OBVIOUS
<1>6. g.k = "boot" /\ g.todo = {}
  BY <1>5 DEF BootCall, Call
<1>7. stack'[t] = <<g>>
  BY <1>1, <1>5 DEF Boot, TypeInv, Types
<1>8. Top(t)' = g /\ stack'[t] # << >>
  BY <1>7 DEF Top, Depth
<1>9. Restarts(Top(t), l)'
  BY <1>1, <1>2, <1>3, <1>4, <1>6, <1>8 DEF Restarts, Names, Answers
<1> QED BY <1>1, <1>2, <1>8, <1>9 DEF Stored, Run
(* The boot redrives the leg, or reports it. *)
LEMMA RestartGoes ==
    ASSUME TypeInv, TypeInv', NEW t \in Threads, Step(t), [Next]_vars, stack[t] # << >>,
           NEW l, Declared(l), l.on # Refused, Stored(l), Restarts(Top(t), l), l.ev \notin reported'
    PROVE  Stored(l)' /\ Run(t, l)'
<1>0. Top(t).k = "boot" /\ Top(t).todo = {} /\ cur # 0 /\ Names(obj[cur].stalled, l)
  BY DEF Restarts
<1>1. BootRow(t) \/ RedriveSaga(t)
  BY <1>0 DEF Step, ClaimEvent, BeginSaga, AdvanceSaga, EndSaga, StartDispatch, StartRaised,
      BootRaised, RecordCompensation, SendDelivered, SendSkipped, SendRefused, SendRaised, SendLost,
      Unwind, SettleDispatch, FinishLeg, SaveCopy, Draining, DrainDone, Drain, Compensate,
      CompensationFails, CompensationRaised, CompensateLost, ResumeRestore, ResumeStore, At
<1>2. UNCHANGED <<cur, owed, answered>>
  BY <1>1 DEF BootRow, RedriveSaga, history
<1>3. CASE BootRow(t)
  <2>1. SetTop(t, Goto(t, "sagas")) /\ UNCHANGED <<obj, disk>>
    BY <1>0, <1>3 DEF BootRow
  <2>2. PICK g : g = Goto(t, "sagas")
    OBVIOUS
  <2>3. g.k = "boot" /\ g.todo = {}
    BY <1>0, <2>2, TopKnown DEF Goto, CallType
  <2>4. stack'[t] # << >> /\ stack'[t][Len(stack'[t])] = g
    BY <2>1, <2>2, SetShape
  <2>5. Top(t)' = g
    BY <2>4 DEF Top, Depth
  <2>6. Names(obj[cur].stalled, l)'
    BY <1>0, <1>2, <2>1 DEF Names, Answers
  <2>7. Restarts(Top(t), l)'
    BY <1>0, <1>2, <2>3, <2>5, <2>6 DEF Restarts
  <2>8. Stored(l)'
    BY <1>2, <2>1 DEF Stored, Names, Answers
  <2> QED BY <2>4, <2>7, <2>8 DEF Run
<1>4. CASE RedriveSaga(t)
  <2>1. PICK m : m = obj[cur].stalled
    OBVIOUS
  <2>2. m.on = l.on /\ m.ev = l.ev /\ m.from = l.h.from /\ Answers(l, m.settled)
    BY <1>0, <2>1 DEF Names
  <2>c. cur \in DOMAIN obj
    BY <1>0 DEF TypeInv, Types
  <2>d. obj[cur] \in InstanceType
    BY <2>c DEF TypeInv, Types
  <2>3. m \in MarkerType
    BY <2>1, <2>d DEF InstanceType
  <2>4. m.settled \in Nat
    BY <2>3 DEF MarkerType
  <2>5. m # NoMarker
    <3>1. l.on \in Events
      BY SagaAssumption DEF Declared, HandlerType
    <3>2. l.on # None
      BY <3>1, SagaAssumption
    <3> QED BY <2>2, <3>2 DEF NoMarker
  <2>6. m.ev \notin reported'
    BY <2>2
  <2>7. PICK h \in StalledLeg(obj[cur], m) :
            SetTop(t, Leg(m.on, m.ev, h, cur, m.settled + 1)) /\ UNCHANGED disk
    BY <1>0, <1>4, <2>1, <2>5, <2>6 DEF RedriveSaga
  <2>8. h \in Handlers /\ h.on = m.on /\ h.from = m.from
    BY <2>7 DEF StalledLeg, HandlerFor
  <2>9. h = l.h
    BY <2>2, <2>8, SagaAssumption DEF Declared
  <2>10. PICK g : g = Leg(m.on, m.ev, h, cur, m.settled + 1)
    OBVIOUS
  <2>11. m.settled + 1 # 0 /\ (m.settled + 1) - 1 = m.settled
    BY <2>4
  <2>12. /\ g.k = "leg" /\ g.at = "start" /\ g.on = l.on /\ g.ev = l.ev /\ g.h = l.h /\ g.inst = cur
         /\ g.i = m.settled + 1 /\ g.rec = FALSE
    BY <2>2, <2>9, <2>10, <2>11 DEF Leg, Call
  <2>13. Answers(l, g.i - 1)'
    BY <1>2, <2>2, <2>11, <2>12 DEF Answers
  <2>14. Runs(g, l)'
    BY <1>2, <2>12, <2>13 DEF Runs
  <2>15. Run(t, l)'
    BY <2>7, <2>10, <2>14, RunsNext
  <2>16. Stored(l)'
    BY <1>2, <2>7 DEF Stored, Names, Answers
  <2> QED BY <2>15, <2>16
<1> QED BY <1>1, <1>3, <1>4

(* The running call steps on, and the row keeps naming the leg until every   *)
(* dispatch is answered, the leg is unwound or its event's row failed; a     *)
(* boot that a raise ends leaves the row naming it.                          *)
LEMMA RunGoes ==
    ASSUME Plain, TypeInv, TypeInv', NEW t \in Threads, Step(t), [Next]_vars, stack[t] # << >>,
           NEW l, Declared(l), l.on # Refused, Stored(l), Runs(Top(t), l),
           ~AllAnswered(l)', ~Unwound(l.ev)', l.ev \notin failed'
    PROVE  Stored(l)' /\ (up' => Run(t, l)')
<1>0. PICK f : f = Top(t)
  OBVIOUS
<1>1. /\ f.k = "leg" /\ f.on = l.on /\ f.ev = l.ev /\ f.h = l.h /\ f.inst = cur /\ f.rec = FALSE
      /\ f.at \in {"start", "record", "send", "unwind", "settle"}
      /\ Answers(l, f.i - 1) /\ (f.at = "settle" => Answers(l, f.i))
  <2>1. f \in CallType
    BY <1>0, TopKnown
  <2> QED BY <1>0, <2>1 DEF Runs, CallType
<1>2. f \in CallType /\ f.i \in Nat /\ f.i >= 1 /\ owed = {} /\ disk.there /\ Names(disk.marker, l)
  BY <1>0, <1>1, LegTop DEF Stored
<1>3. Answers(l, f.i - 1)' /\ (f.at = "settle" => Answers(l, f.i)')
  BY <1>1, AnswersLast
<1>4. ASSUME UNCHANGED <<owed, disk>> PROVE Stored(l)'
  <2>1. PICK n : n = disk.marker.settled
    OBVIOUS
  <2>2. Answers(l, n)'
    BY <1>2, <2>1, AnswersLast DEF Names
  <2>3. n = disk'.marker.settled
    BY <1>4, <2>1
  <2> QED BY <1>2, <1>4, <2>2, <2>3 DEF Stored, Names, Answers
<1>5. ASSUME NEW g, SetTop(t, g), UNCHANGED cur, g.k = "leg", g.on = f.on, g.ev = f.ev, g.h = f.h,
             g.inst = f.inst, g.i = f.i, g.rec = FALSE, g.at \in {"start", "record", "send", "unwind"}
      PROVE  Run(t, l)'
  <2>1. Answers(l, g.i - 1)'
    BY <1>3, <1>5
  <2>2. Runs(g, l)'
    BY <1>1, <1>5, <2>1 DEF Runs
  <2> QED BY <1>5, <2>2, RunsNext
<1>6. ASSUME SetTop(t, Goto(t, "settle")), UNCHANGED cur, <<f.on, f.ev, f.i>> \in answered'
      PROVE  Run(t, l)'
  <2>1. PICK g : g = Goto(t, "settle")
    OBVIOUS
  <2>2. /\ g.k = "leg" /\ g.on = f.on /\ g.ev = f.ev /\ g.h = f.h /\ g.inst = f.inst
        /\ g.i = f.i /\ g.rec = FALSE /\ g.at = "settle"
    BY <1>0, <1>1, <2>1, GotoIs
  <2>3. \A i \in 1..f.i : i = f.i \/ i \in 1..(f.i - 1)
    BY <1>2
  <2>4. Answers(l, f.i)'
    BY <1>1, <1>3, <1>6, <2>3 DEF Answers
  <2>5. Runs(g, l)'
    BY <1>1, <1>3, <1>6, <2>2, <2>4 DEF Runs
  <2> QED BY <1>6, <2>1, <2>5, RunsNext
<1>7. CASE StartDispatch(t)
  <2>1. UNCHANGED <<cur, owed>> /\ disk' = RowOf(obj[f.inst], MarkerOf(f, f.i - 1, TRUE))
    BY <1>0, <1>1, <1>7 DEF StartDispatch, WriteIfLive
  <2>2. Stored(l)'
    BY <1>1, <1>2, <1>3, <2>1, RowNames
  <2>3. PICK at \in {"unwind", "record"} : SetTop(t, Goto(t, at))
    BY <1>7 DEF StartDispatch
  <2>4. Run(t, l)'
    BY <1>0, <1>1, <1>5, <2>1, <2>3, GotoIs
  <2> QED BY <2>2, <2>4
<1>14. ~StartRaised(t)
  BY <1>0, <1>1 DEF StartRaised
<1>15. CASE BootRaised(t)
  <2>1. /\ UNCHANGED owed /\ disk' = RowOf(obj[f.inst], MarkerOf(f, f.i - 1, TRUE))
        /\ up' = FALSE
    BY <1>0, <1>1, <1>15 DEF BootRaised, Gone, WriteIfLive
  <2>2. Stored(l)'
    BY <1>1, <1>2, <1>3, <2>1, RowNames
  <2> QED BY <2>1, <2>2
<1>8. CASE RecordCompensation(t)
  <2>1. SetTop(t, Goto(t, "send")) /\ UNCHANGED <<cur, owed, disk>>
    BY <1>8, NeverCompensates DEF RecordCompensation, Plain
  <2> QED BY <1>0, <1>1, <1>4, <1>5, <2>1, GotoIs
<1>9. CASE SendDelivered(t) \/ SendSkipped(t)
  <2>1. SetTop(t, Goto(t, "settle")) /\ UNCHANGED <<cur, owed, disk>>
    BY <1>9, SendCommand DEF SendDelivered, SendSkipped, Commits, Emits, ReactTo, Plain
  <2>2. <<f.on, f.ev, f.i>> \in answered'
    BY <1>0, <1>9 DEF SendDelivered, SendSkipped
  <2> QED BY <1>4, <1>6, <2>1, <2>2
<1>10. CASE SendRefused(t) \/ SendRaised(t) \/ SendLost(t)
  <2>1. UNCHANGED <<cur, owed, disk>>
    <3>1. CASE SendLost(t)
      BY <3>1, SendCommand DEF SendLost, Commits, Emits, Plain
    <3> QED BY <1>10, <3>1 DEF SendRefused, SendRaised
  <2>2. PICK g, next : /\ g \in {f, [f EXCEPT !.tries = @ + 1]} /\ next \in {"record", "unwind"}
                       /\ FailDispatch(t, g, next)
    BY <1>0, <1>10 DEF SendRefused, SendRaised, SendLost, TryAgain
  <2>3. /\ g \in CallType /\ g.k = "leg" /\ g.on = f.on /\ g.ev = f.ev /\ g.h = f.h /\ g.inst = f.inst
        /\ g.i = f.i /\ g.rec = FALSE
    BY <1>1, <1>2, <2>2 DEF CallType
  <2>4. SetTop(t, [g EXCEPT !.at = next])
    BY <2>2, <2>3 DEF FailDispatch
  <2>5. PICK e : e = [g EXCEPT !.at = next]
    OBVIOUS
  <2>6. /\ e.k = "leg" /\ e.on = f.on /\ e.ev = f.ev /\ e.h = f.h /\ e.inst = f.inst
        /\ e.i = f.i /\ e.rec = FALSE /\ e.at = next
    BY <2>3, <2>5 DEF CallType
  <2> QED BY <1>4, <1>5, <2>1, <2>2, <2>4, <2>5, <2>6
<1>11. CASE Unwind(t)
  <2>1. UNCHANGED <<cur, owed>> /\ <<f.on, f.ev, f.i>> \in answered'
    BY <1>0, <1>11 DEF Unwind
  <2>2. CASE SetTop(t, Goto(t, "settle")) /\ UNCHANGED disk
    BY <1>4, <1>6, <2>1, <2>2
  <2>3. CASE ~(SetTop(t, Goto(t, "settle")) /\ UNCHANGED disk)
    <3>1. PICK h : taken' = taken \cup {[on |-> Refused, ev |-> f.ev, h |-> h]}
      BY <1>0, <1>11, <2>3 DEF Unwind
    <3>2. PICK r : r = [on |-> Refused, ev |-> f.ev, h |-> h]
      OBVIOUS
    <3>3. r \in taken' /\ r.on = Refused /\ r.ev = l.ev
      BY <1>1, <3>1, <3>2
    <3>4. Unwound(l.ev)'
      BY <3>3 DEF Unwound
    <3> QED BY <3>4
  <2> QED BY <2>2, <2>3
<1>12. CASE SettleDispatch(t)
  <2>1. UNCHANGED <<cur, owed>> /\ disk' = RowOf(obj[f.inst], MarkerOf(f, f.i, FALSE)) /\ f.at = "settle"
    BY <1>0, <1>1, <1>12 DEF SettleDispatch, WriteIfLive, At
  <2>2. Answers(l, f.i)'
    BY <1>3, <2>1
  <2>3. Stored(l)'
    BY <1>1, <1>2, <2>1, <2>2, RowNames
  <2>4. PICK e : e = Goto(t, "start")
    OBVIOUS
  <2>5. e \in CallType /\ e.k = "leg" /\ e.on = f.on /\ e.ev = f.ev /\ e.h = f.h /\ e.inst = f.inst /\ e.i = f.i /\ e.at = "start"
    BY <1>0, <1>1, <1>2, <2>4 DEF Goto, CallType, Steps
  <2>6. PICK g : g = [e EXCEPT !.i = @ + 1, !.tries = 0, !.rec = FALSE]
    OBVIOUS
  <2>7. /\ g.k = "leg" /\ g.on = f.on /\ g.ev = f.ev /\ g.h = f.h /\ g.inst = f.inst
        /\ g.i = f.i + 1 /\ g.rec = FALSE /\ g.at = "start"
    BY <2>5, <2>6 DEF CallType
  <2>8. g.i - 1 = f.i
    BY <1>2, <2>7
  <2>9. Runs(g, l)'
    BY <1>1, <2>1, <2>2, <2>7, <2>8 DEF Runs
  <2>10. SetTop(t, g)
    BY <1>12, <2>4, <2>6 DEF SettleDispatch
  <2>11. Run(t, l)'
    BY <2>9, <2>10, RunsNext
  <2> QED BY <2>3, <2>11
<1>13. ~FinishLeg(t)
  <2>1. SUFFICES ASSUME FinishLeg(t) PROVE FALSE
    OBVIOUS
  <2>2. f.i > Len(l.h.does)
    BY <1>0, <1>1, <2>1 DEF FinishLeg
  <2>3. PICK n \in Nat : n = Len(l.h.does)
    BY SagaAssumption DEF Declared, HandlerType
  <2>4. \A i \in 1..n : i \in 1..(f.i - 1)
    BY <1>2, <2>2, <2>3
  <2>5. AllAnswered(l)'
    BY <1>3, <2>3, <2>4 DEF AllAnswered, Answers
  <2> QED BY <2>5
<1> QED
  <2>1. \/ StartDispatch(t) \/ BootRaised(t) \/ RecordCompensation(t) \/ SendDelivered(t)
        \/ SendSkipped(t) \/ SendRefused(t) \/ SendRaised(t) \/ SendLost(t) \/ Unwind(t)
        \/ SettleDispatch(t) \/ FinishLeg(t)
    BY <1>0, <1>1, <1>14 DEF Step, ClaimEvent, BeginSaga, AdvanceSaga, EndSaga, SaveCopy, Draining,
        DrainDone, Drain, Compensate, CompensationFails, CompensationRaised, CompensateLost, BootRow,
        RedriveSaga, ResumeRestore, ResumeStore, At
  <2> QED BY <1>7, <1>8, <1>9, <1>10, <1>11, <1>12, <1>13, <1>15, <2>1

(* OwingInv is inductive for a plain saga. *)
LEMMA OwingStep ==
    ASSUME Plain, TypeInv, TypeInv', Down, OwedInv, TakenInv, OwingInv, [Next]_vars
    PROVE  OwingInv'
<1>0. \A t, u \in Threads : t = u
  BY DEF Plain, OneThread
<1>1. SUFFICES ASSUME NEW l \in Owing' PROVE Stored(l)' /\ (up' => \E t \in Threads : Run(t, l)')
  BY <1>1 DEF OwingInv
<1>2. l \in taken'
  BY <1>1 DEF Owing
<1>3. CASE l \notin taken
  <2>1. l.on # Refused
    BY <1>1, <1>2 DEF Owing, Unwound
  <2>2. PICK t \in Threads : AdvanceSaga(t) /\ TakesLeg(t, l.h) /\ l.ev = Top(t).ev
    BY <1>2, <1>3, <2>1, TakenBy
  <2>3. Declared(l)
    BY <1>2, <1>3, TakenBy
  <2> QED BY <2>1, <2>2, <2>3, NewLeg
<1>4. CASE l \in taken
  <2>1. /\ l \in Owing /\ l.on # Refused
        /\ l.ev \notin reported' /\ l.ev \notin failed' /\ ~AllAnswered(l)' /\ ~Unwound(l.ev)'
    BY <1>1, <1>4, OwingBefore
  <2>2. Declared(l) /\ Stored(l) /\ (up => \E t \in Threads : Run(t, l))
    BY <1>4, <2>1 DEF TakenInv, OwingInv
  <2>3. ASSUME NEW t \in Threads, Boot(t), Next PROVE Stored(l)' /\ Run(t, l)'
    BY <2>2, <2>3, BootFinds
  <2>4. CASE Crash
    <3>1. UNCHANGED <<disk, owed, answered>> /\ up' = FALSE
      BY <2>4 DEF Crash, Gone
    <3>2. Stored(l)'
      BY <2>2, <3>1 DEF Stored, Names, Answers
    <3> QED BY <3>1, <3>2
  <2>5. ASSUME NEW t \in Threads, Run(t, l), Step(t) PROVE Stored(l)' /\ (up' => Run(t, l)')
    <3>1. CASE Runs(Top(t), l)
      BY <2>1, <2>2, <2>5, <3>1, RunGoes DEF Run
    <3>2. CASE Restarts(Top(t), l)
      BY <2>1, <2>2, <2>5, <3>2, RestartGoes DEF Run
    <3> QED BY <2>5, <3>1, <3>2 DEF Run
  <2>6. CASE UNCHANGED vars
    <3>1. Stored(l)'
      BY <2>2, <2>6 DEF vars, Stored, Names, Answers
    <3>2. ASSUME NEW t \in Threads, Run(t, l) PROVE Run(t, l)'
      BY <2>6, <3>2 DEF vars, Run, Runs, Restarts, Names, Answers, Top, Depth
    <3>3. up' = up
      BY <2>6 DEF vars
    <3> QED BY <2>2, <3>1, <3>2, <3>3
  <2>7. ASSUME NEW t \in Threads, Step(t) PROVE Stored(l)' /\ (up' => Run(t, l)')
    <3>1. up
      BY <2>7, StepAt DEF At
    <3>2. Run(t, l)
      BY <1>0, <2>2, <3>1
    <3> QED BY <2>5, <2>7, <3>2
  <2>8. ASSUME NEW t \in Threads PROVE ~Resume(t) /\ \A e \in Entry : ~Enter(t, e)
    <3>1. ASSUME up PROVE stack[t] # << >>
      BY <1>0, <2>2, <3>1 DEF Run
    <3> QED BY <3>1 DEF Resume, Enter
  <2> QED BY <2>3, <2>4, <2>6, <2>7, <2>8 DEF Next
<1> QED BY <1>3, <1>4

(***************************************************************************)
(* At rest, every forward leg of a process manager without compensable or  *)
(* event-emitting dispatches, driven by one thread, has every dispatch     *)
(* answered, was reversed, was reported for a person, or left its event's  *)
(* outbox row failed when building a dispatch raised, wherever the process *)
(* died and however often a boot failed: the row a cut leg leaves behind   *)
(* always names it and counts as settled only what was answered, so the    *)
(* boot finds it (transitions.rb record_progress, redrive.rb               *)
(* redrive_stalled, relay.rb settle_failed).                               *)
(***************************************************************************)
THEOREM CutLegsAreSettled ==
    ASSUME Plain PROVE Spec => []LegFinishedOrReported
<1>1. Init => RecInv /\ OwedInv /\ TakenInv /\ OwingInv
  <2>1. Init => RecInv /\ TakenInv /\ OwingInv
    BY DEF Init, RecInv, TakenInv, OwingInv, Owing
  <2>2. Init => OwedInv
    <3>1. SUFFICES ASSUME Init PROVE OwedInv
      OBVIOUS
    <3>2. owed = {} /\ \A t \in Threads : stack[t] = << >> /\ Len(stack[t]) = 0
      BY <3>1 DEF Init
    <3> QED BY <3>2 DEF OwedInv
  <2> QED BY <2>1, <2>2
<1>2. TypeInv /\ TypeInv' /\ Down /\ RecInv /\ OwedInv /\ [Next]_vars => OwedInv'
  BY OwedStep
<1>3. TypeInv /\ TypeInv' /\ Down /\ OwedInv /\ TakenInv /\ OwingInv /\ [Next]_vars => OwingInv'
  BY OwingStep
<1>4. OwingInv => LegFinishedOrReported
  BY DEF OwingInv, Owing, Run, Quiescent, LegFinishedOrReported
<1> QED BY <1>1, <1>2, <1>3, <1>4, TypeStart, TypeStep, RecStep, TakenStep, PTL DEF Spec

=============================================================================
