-------------------------- MODULE MembershipProofs --------------------------
(***************************************************************************)
(* Proofs about Membership, for any people, founders, windows and number   *)
(* of requests in flight.                                                  *)
(***************************************************************************)
EXTENDS Membership, TLAPS

----------------------------------------------------------------------------
(* A request in flight is about a person. *)
AboutPerson == \A r \in Requests : pc[r] # "idle" => who[r] \in People

(* Requests about one person do not overlap. *)
OneRequest ==
    \A r, s \in Requests :
        pc[r] # "idle" /\ pc[s] # "idle" /\ who[r] = who[s] => r = s

(* A request that found nobody still finds nobody ... *)
AbsentStays == \A r \in Requests : pc[r] = "absent" => ~row[who[r]].here

(* ... and one that holds a row holds all of it that gives access. *)
SameStanding(x, y) ==
    x.here = y.here /\ x.role = y.role /\ x.disabled = y.disabled /\ x.ends = y.ends
HeldIsRow ==
    \A r \in Requests :
        pc[r] \in {"resolved", "registered", "linked"} => SameStanding(held[r], row[who[r]])

Inv ==
    /\ TypeOK /\ AboutPerson /\ OneRequest
    /\ AbsentStays /\ HeldIsRow /\ OpenAdminKept

----------------------------------------------------------------------------
(* An administrator's act writes one row. *)
Act(p) ==
    \E c \in People :
        \/ Disable(c, p) \/ Enable(c, p) \/ Delete(c, p)
        \/ \E role \in Roles \ {"none"} : SetRole(c, p, role)

(* A row with one field replaced is a row. *)
LEMMA RowFields ==
    ASSUME NEW x \in Row
    PROVE  /\ \A b \in BOOLEAN : [x EXCEPT !.disabled = b] \in Row
           /\ \A b \in BOOLEAN : [x EXCEPT !.deleted = b] \in Row
           /\ \A role \in Roles : [x EXCEPT !.role = role] \in Row
           /\ \A i \in Nat : [x EXCEPT !.identity = i] \in Row
           /\ \A role \in Roles, e \in Nat : [x EXCEPT !.role = role, !.ends = e] \in Row
BY DEF Row

(* Only a sign-in's write replaces the identity. *)
LEMMA RowIdentity ==
    ASSUME NEW x \in Row, NEW b, NEW c
    PROVE  /\ [x EXCEPT !.disabled = b].identity = x.identity
           /\ [x EXCEPT !.deleted = b].identity = x.identity
           /\ [x EXCEPT !.role = b].identity = x.identity
           /\ [x EXCEPT !.role = b, !.ends = c].identity = x.identity
BY DEF Row

(* Every step keeps the types. *)
LEMMA ActTypes ==
    ASSUME TypeOK, NEW p \in People, Act(p)
    PROVE  TypeOK'
<1>1. /\ \E after \in Row : row' = [row EXCEPT ![p] = after]
      /\ UNCHANGED <<mine, aside>>
  <2>1. row[p] \in Row
    BY DEF TypeOK
  <2>2. CASE \E c \in People : Disable(c, p)
    BY <2>1, <2>2, RowFields DEF Disable, Save
  <2>3. CASE \E c \in People : Enable(c, p)
    BY <2>1, <2>3, RowFields DEF Enable, Save
  <2>4. CASE \E c \in People : Delete(c, p)
    BY <2>1, <2>4, RowFields DEF Delete, Save
  <2>5. CASE \E c \in People, role \in Roles \ {"none"} : SetRole(c, p, role)
    BY <2>1, <2>5, RowFields DEF SetRole, Save
  <2> QED BY <2>2, <2>3, <2>4, <2>5 DEF Act
<1> QED BY <1>1 DEF TypeOK, mine, aside

(* A request that ends keeps the types. *)
LEMMA EndTypes ==
    ASSUME TypeOK, NEW r \in Requests, End(r)
    PROVE  /\ pc' \in [Requests -> Steps] /\ who' \in [Requests -> People \cup {Nobody}]
           /\ form' \in [Requests -> Form] /\ held' \in [Requests -> Row]
BY MembershipAssumption
   DEF TypeOK, End, NoForm, Absent, Row, Roles, Form, Steps

(* A request's own steps keep the types; a step after the first needs the   *)
(* person it is about.                                                      *)
LEMMA RequestTypes ==
    ASSUME TypeOK, AboutPerson, NEW r \in Requests,
           AdmitRead(r) \/ AdmitPut(r) \/ Grant(r) \/ Register(r)
               \/ LinkIdentity(r) \/ LinkMember(r) \/ Die(r)
    PROVE  TypeOK'
<1> USE MembershipAssumption DEF TypeOK, aside
<1>1. CASE AdmitRead(r)
  <2>1. CASE End(r)
    BY <1>1, <2>1, EndTypes DEF AdmitRead
  <2>2. CASE ~End(r)
    BY <1>1, <2>2 DEF AdmitRead, Steps
  <2> QED BY <2>1, <2>2
<1>2. CASE AdmitPut(r)
  <2>1. Fresh \in Row
    BY DEF Fresh, Absent, Row, Roles
  <2> QED BY <1>2, <2>1 DEF AdmitPut, Save, Steps
<1>3. CASE Grant(r)
  <2>1. who[r] \in People /\ form[r] \in Form
    BY <1>3 DEF Grant, AboutPerson
  <2>2. form[r].days \in Nat /\ form[r].role \in Roles
    BY <2>1 DEF Form
  <2>3. Until(form[r].days) \in Nat
    BY <2>2 DEF Until
  <2>4. [row[who[r]] EXCEPT !.role = form[r].role, !.ends = Until(form[r].days)] \in Row
    BY <2>1, <2>2, <2>3, RowFields
  <2>5. row' \in [People -> Row]
    BY <1>3, <2>1, <2>4 DEF Grant, Save
  <2> QED BY <1>3, <2>5, EndTypes DEF Grant
<1>4. CASE Register(r)
  <2>1. held' \in [Requests -> Row]
    BY <1>4 DEF Register, Row
  <2> QED BY <1>4, <2>1 DEF Register, Steps
<1>5. CASE LinkIdentity(r)
  <2>1. who[r] \in People /\ held[r].identity \in Nat
    BY <1>5 DEF LinkIdentity, AboutPerson, Row
  <2> QED BY <1>5, <2>1 DEF LinkIdentity, Steps
<1>6. CASE LinkMember(r)
  <2>1. row' \in [People -> Row]
    BY <1>6 DEF LinkMember, Save
  <2> QED BY <1>6, <2>1, EndTypes DEF LinkMember
<1>7. CASE Die(r)
  BY <1>7, EndTypes DEF Die
<1> QED BY <1>1, <1>2, <1>3, <1>4, <1>6, <1>7, <1>5

(* So do a request's first step and the clock. *)
LEMMA StartTypes ==
    ASSUME TypeOK,
           \/ \E r \in Requests, c, p \in People, f \in Form : AskToAdd(r, c, p, f)
           \/ \E r \in Requests, p \in People : SignIn(r, p)
           \/ Tick
    PROVE  TypeOK'
<1> USE MembershipAssumption DEF TypeOK, mine
<1>1. CASE \E r \in Requests, c, p \in People, f \in Form : AskToAdd(r, c, p, f)
  BY <1>1 DEF AskToAdd, Steps
<1>2. ASSUME NEW r \in Requests, NEW p \in People, SignIn(r, p) PROVE TypeOK'
  <2>1. PICK i \in links[p] \cup {0} :
            /\ held' = [held EXCEPT ![r] = [row[p] EXCEPT !.identity = i]]
            /\ pc' = [pc EXCEPT ![r] = IF links[p] = {} THEN "resolved" ELSE "linked"]
    BY <1>2 DEF SignIn, Resolved
  <2>2. i \in Nat
    BY <2>1
  <2>3. held' \in [Requests -> Row]
    BY <2>1, <2>2 DEF Row
  <2>4. pc' \in [Requests -> Steps]
    BY <2>1 DEF Steps
  <2> QED BY <1>2, <2>3, <2>4 DEF SignIn
<1>3. CASE Tick
  BY <1>3 DEF Tick
<1> QED BY <1>1, <1>2, <1>3

----------------------------------------------------------------------------
(* A request that ends leaves the others as they were. *)
LEMMA EndApart ==
    ASSUME TypeOK, AboutPerson, NEW r \in Requests, End(r)
    PROVE  /\ AboutPerson'
           /\ OneRequest => OneRequest'
           /\ pc'[r] = "idle"
           /\ \A s \in Requests \ {r} :
                 pc'[s] = pc[s] /\ who'[s] = who[s] /\ held'[s] = held[s]
BY DEF TypeOK, AboutPerson, OneRequest, End

(* A request in flight is about a person, whatever step is taken. *)
LEMMA PersonKept ==
    ASSUME TypeOK, AboutPerson, [Next]_vars
    PROVE  AboutPerson'
<1> USE DEF TypeOK, AboutPerson
<1>1. CASE UNCHANGED vars
  BY <1>1 DEF vars
<1>2. CASE \E p \in People : Act(p)
  BY <1>2 DEF Act, Disable, Enable, Delete, SetRole, mine
<1>3. ASSUME NEW r \in Requests, NEW c \in People, NEW p \in People, NEW f \in Form,
             AskToAdd(r, c, p, f)
      PROVE  AboutPerson'
  BY <1>3 DEF AskToAdd
<1>4. ASSUME NEW r \in Requests, AdmitRead(r) PROVE AboutPerson'
  <2>1. CASE End(r)
    BY <2>1, EndApart
  <2>2. CASE ~End(r)
    BY <1>4, <2>2 DEF AdmitRead
  <2> QED BY <2>1, <2>2
<1>5. ASSUME NEW r \in Requests, AdmitPut(r) PROVE AboutPerson'
  BY <1>5 DEF AdmitPut
<1>6. ASSUME NEW r \in Requests, Grant(r) \/ LinkMember(r) \/ Die(r) PROVE AboutPerson'
  BY <1>6, EndApart DEF Grant, LinkMember, Die
<1>7. ASSUME NEW r \in Requests, Register(r) \/ LinkIdentity(r) PROVE AboutPerson'
  BY <1>7 DEF Register, LinkIdentity
<1>8. ASSUME NEW r \in Requests, NEW p \in People, SignIn(r, p) PROVE AboutPerson'
  BY <1>8 DEF SignIn
<1>9. CASE Tick
  BY <1>9 DEF Tick, mine
<1> QED BY <1>1, <1>2, <1>3, <1>4, <1>5, <1>6, <1>7, <1>8, <1>9 DEF Next, Act

(* The types are inductive with AboutPerson. *)
LEMMA TypesKept ==
    ASSUME TypeOK, AboutPerson, [Next]_vars
    PROVE  TypeOK'
<1>1. CASE UNCHANGED vars
  BY <1>1 DEF vars, TypeOK
<1>2. CASE \E p \in People : Act(p)
  BY <1>2, ActTypes
<1>3. CASE \E r \in Requests : AdmitRead(r) \/ AdmitPut(r) \/ Grant(r)
                                 \/ Register(r) \/ LinkIdentity(r)
                                 \/ LinkMember(r) \/ Die(r)
  BY <1>3, RequestTypes
<1>4. CASE \/ \E r \in Requests, c, p \in People, f \in Form : AskToAdd(r, c, p, f)
           \/ \E r \in Requests, p \in People : SignIn(r, p)
           \/ Tick
  BY <1>4, StartTypes
<1> QED BY <1>1, <1>2, <1>3, <1>4 DEF Next, Act

(* The types, and nobody in any request, at the start. *)
LEMMA InitTypes == Init => TypeOK /\ AboutPerson
<1> SUFFICES ASSUME Init PROVE TypeOK /\ AboutPerson
  OBVIOUS
<1> USE MembershipAssumption DEF Init
<1>1. Absent \in Row /\ Fresh \in Row
  BY DEF Absent, Fresh, Row, Roles
<1>2. [Fresh EXCEPT !.role = "Admin"] \in Row
  BY <1>1, RowFields DEF Roles
<1>3. NoForm \in Form
  BY DEF NoForm, Form, Roles
<1> QED BY <1>1, <1>2, <1>3 DEF TypeOK, AboutPerson, Steps

(* Every behaviour of the membership keeps its variables in their types     *)
(* (auth.rs, rows and windows; the requests of web.rs).                     *)
THEOREM TypeCorrect == Spec => []TypeOK
<1>1. TypeOK /\ AboutPerson /\ [Next]_vars => TypeOK' /\ AboutPerson'
  BY TypesKept, PersonKept
<1> QED BY InitTypes, <1>1, PTL DEF Spec

----------------------------------------------------------------------------
(* What an administrator's act does to the rows: one person's row changes,  *)
(* about whom no request is in flight; the open-ended administrators do not *)
(* all go; and access is given by an enabling or a role.                    *)
LEMMA ActWrites ==
    ASSUME Inv, ~Overlap, NEW p \in People, Act(p)
    PROVE  /\ \A q \in People \ {p} : row'[q] = row[q]
           /\ \A r \in Requests : pc[r] # "idle" => who[r] # p
           /\ UNCHANGED <<pc, who, form, held, now>>
           /\ OpenAdminKept'
<1> USE DEF Inv, TypeOK
<1>1. PICK c \in People : Disable(c, p) \/ Enable(c, p) \/ Delete(c, p)
                             \/ \E role \in Roles \ {"none"} : SetRole(c, p, role)
  BY DEF Act
<1>2. /\ Free(p) /\ UNCHANGED <<pc, who, form, held, now>>
      /\ \E after : Save(p, after)
  BY <1>1 DEF Disable, Enable, Delete, SetRole, mine, aside
<1>3. PICK a \in People : OpenAdmin(row[a])
  BY DEF OpenAdminKept
<1>4. OpenAdminKept'
  <2>1. ASSUME NEW after, Save(p, after), ~Strands(p, after) PROVE OpenAdminKept'
    <3>1. OpenAdmin(after) \/ \E q \in People \ {p} : OpenAdmin(row[q])
      BY <1>3, <2>1 DEF Strands
    <3>2. CASE OpenAdmin(after)
      <4>1. row'[p] = after
        BY <2>1 DEF Save
      <4> QED BY <1>2, <3>2, <4>1 DEF OpenAdminKept, OpenAdmin, ActiveAdmin, Lapsed
    <3>3. ASSUME NEW q \in People \ {p}, OpenAdmin(row[q]) PROVE OpenAdminKept'
      <4>1. row'[q] = row[q]
        BY <2>1 DEF Save
      <4> QED BY <1>2, <3>3, <4>1 DEF OpenAdminKept, OpenAdmin, ActiveAdmin, Lapsed
    <3> QED BY <3>1, <3>2, <3>3
  <2>2. CASE Delete(c, p)
    <3>1. a # p
      BY <1>3, <2>2 DEF Delete, OpenAdmin, ActiveAdmin, Lapsed
    <3>2. row'[a] = row[a]
      BY <2>2, <3>1 DEF Delete, Save
    <3> QED BY <1>2, <1>3, <3>2 DEF OpenAdminKept, OpenAdmin, ActiveAdmin, Lapsed
  <2>3. CASE Disable(c, p) \/ Enable(c, p) \/ \E role \in Roles \ {"none"} : SetRole(c, p, role)
    BY <2>1, <2>3 DEF Disable, Enable, SetRole
  <2> QED BY <1>1, <2>2, <2>3
<1> QED BY <1>2, <1>4 DEF Free, Save

(* Requests stay apart when an administrator acts: the rows of the people   *)
(* they are about are as they were.                                         *)
LEMMA ActApart ==
    ASSUME Inv, ~Overlap, NEW p \in People, Act(p)
    PROVE  OneRequest' /\ AbsentStays' /\ HeldIsRow'
BY ActWrites DEF Inv, TypeOK, AboutPerson, OneRequest, AbsentStays, HeldIsRow, SameStanding

(* A request's end keeps the others apart, if it changed no row but its own *)
(* person's.                                                                *)
LEMMA EndStanding ==
    ASSUME Inv, NEW r \in Requests, pc[r] # "idle", End(r),
           \A q \in People \ {who[r]} : row'[q] = row[q]
    PROVE  OneRequest' /\ AbsentStays' /\ HeldIsRow'
<1>1. \A s \in Requests \ {r} : pc[s] # "idle" => row'[who[s]] = row[who[s]]
  BY DEF Inv, AboutPerson, OneRequest
<1> QED BY <1>1, EndApart DEF Inv, AbsentStays, HeldIsRow, SameStanding

(* Who is an open-ended administrator depends on the row, not on the clock. *)
LEMMA OpenAdminRow ==
    ASSUME Inv, NEW p \in People, SameStanding(row'[p], row[p]), now' \in Nat
    PROVE  OpenAdmin(row[p])' <=> OpenAdmin(row[p])
BY DEF Inv, OpenAdmin, ActiveAdmin, Lapsed, SameStanding

(* A step that leaves every row's standing leaves the administrators.       *)
LEMMA StandingKeeps ==
    ASSUME Inv, now' \in Nat, \A p \in People : SameStanding(row'[p], row[p])
    PROVE  OpenAdminKept'
BY OpenAdminRow DEF Inv, OpenAdminKept

(* A request's first step: nobody else's request is about the person.       *)
LEMMA StartKeeps ==
    ASSUME Inv, ~Overlap, TypeOK',
           \/ \E r \in Requests, c, p \in People, f \in Form : AskToAdd(r, c, p, f)
           \/ \E r \in Requests, p \in People : SignIn(r, p)
    PROVE  OneRequest' /\ AbsentStays' /\ HeldIsRow' /\ OpenAdminKept'
<1> USE DEF Inv, TypeOK, Free, OneRequest
<1>1. ASSUME NEW r \in Requests, NEW c \in People, NEW p \in People, NEW f \in Form,
             AskToAdd(r, c, p, f)
      PROVE  OneRequest' /\ AbsentStays' /\ HeldIsRow'
  BY <1>1 DEF AskToAdd, AbsentStays, HeldIsRow, SameStanding
<1>2. ASSUME NEW r \in Requests, NEW p \in People, SignIn(r, p)
      PROVE  OneRequest' /\ AbsentStays' /\ HeldIsRow'
  <2>1. PICK i \in links[p] \cup {0} :
            /\ held' = [held EXCEPT ![r] = [row[p] EXCEPT !.identity = i]]
            /\ pc' = [pc EXCEPT ![r] = IF links[p] = {} THEN "resolved" ELSE "linked"]
    BY <1>2 DEF SignIn, Resolved
  <2>2. OneRequest' /\ AbsentStays'
    BY <1>2, <2>1 DEF SignIn, AbsentStays
  <2>3. SameStanding(held'[r], row[p])
    BY <2>1 DEF SameStanding, Row
  <2>4. HeldIsRow'
    BY <1>2, <2>1, <2>3 DEF SignIn, HeldIsRow
  <2> QED BY <2>2, <2>4
<1>3. UNCHANGED <<row, now>>
  BY DEF AskToAdd, SignIn
<1>4. OpenAdminKept'
  BY <1>3, StandingKeeps DEF SameStanding
<1> QED BY <1>1, <1>2, <1>4

(* A grant that would leave the site without an open-ended administrator is *)
(* not written.                                                             *)
LEMMA GrantKeeps ==
    ASSUME Inv, NEW r \in Requests, Grant(r)
    PROVE  OneRequest' /\ AbsentStays' /\ HeldIsRow' /\ OpenAdminKept'
<1> DEFINE p == who[r]
           after == [row[p] EXCEPT !.role = form[r].role, !.ends = Until(form[r].days)]
<1>1. p \in People /\ pc[r] # "idle" /\ now' = now
  BY DEF Grant, Inv, AboutPerson, aside
<1>2. CASE UNCHANGED row
  <2>1. OpenAdminKept'
    BY <1>1, <1>2, StandingKeeps DEF Inv, TypeOK, SameStanding
  <2> QED BY <1>1, <1>2, <2>1, EndStanding DEF Grant
<1>3. CASE Save(p, after) /\ ~Strands(p, after)
  <2>1. row'[p] = after /\ \A q \in People \ {p} : row'[q] = row[q]
    BY <1>1, <1>3 DEF Save, Inv, TypeOK
  <2>2. OpenAdmin(after) \/ \E q \in People \ {p} : OpenAdmin(row[q])
    BY <1>3 DEF Strands, Inv, OpenAdminKept
  <2>3. OpenAdminKept'
    BY <1>1, <2>1, <2>2 DEF OpenAdminKept, OpenAdmin, ActiveAdmin, Lapsed
  <2> QED BY <1>1, <2>1, <2>3, EndStanding DEF Grant
<1> QED BY <1>2, <1>3 DEF Grant

(* The other steps of a request, and the clock.                             *)
LEMMA RequestKeeps ==
    ASSUME Inv, NEW r \in Requests,
           AdmitRead(r) \/ AdmitPut(r) \/ Register(r) \/ LinkIdentity(r)
               \/ LinkMember(r) \/ Die(r)
    PROVE  OneRequest' /\ AbsentStays' /\ HeldIsRow' /\ OpenAdminKept'
<1>1. now' = now /\ now' \in Nat /\ pc[r] # "idle" /\ who[r] \in People
  BY DEF AdmitRead, AdmitPut, Register, LinkIdentity, LinkMember, Die, aside, Inv,
        TypeOK, AboutPerson
<1>2. CASE UNCHANGED row /\ End(r)
  <2>1. OpenAdminKept'
    BY <1>1, <1>2, StandingKeeps DEF SameStanding
  <2> QED BY <1>1, <1>2, <2>1, EndStanding
<1>3. CASE AdmitRead(r) /\ ~End(r)
  <2>1. OpenAdminKept'
    BY <1>1, <1>3, StandingKeeps DEF SameStanding, AdmitRead
  <2> QED BY <1>1, <1>3, <2>1
          DEF AdmitRead, Inv, TypeOK, OneRequest, AbsentStays, HeldIsRow
<1>4. CASE AdmitPut(r)
  <2> USE DEF Inv, TypeOK
  <2>1. \A q \in People \ {who[r]} : row'[q] = row[q]
    BY <1>4 DEF AdmitPut, Save
  <2>2. ~OpenAdmin(row[who[r]])
    BY <1>4 DEF AdmitPut, AbsentStays, OpenAdmin, ActiveAdmin
  <2>3. OpenAdminKept'
    BY <1>1, <2>1, <2>2 DEF OpenAdminKept, OpenAdmin, ActiveAdmin, Lapsed
  <2>4. /\ pc'[r] = "admitted" /\ who' = who /\ held' = held
        /\ \A s \in Requests \ {r} : pc'[s] = pc[s]
    BY <1>4 DEF AdmitPut
  <2>5. \A s \in Requests \ {r} : pc[s] # "idle" => row'[who[s]] = row[who[s]]
    BY <1>1, <2>1 DEF AboutPerson, OneRequest
  <2> QED BY <1>1, <2>3, <2>4, <2>5 DEF OneRequest, AbsentStays, HeldIsRow
<1>5. CASE Register(r)
  <2>1. OpenAdminKept'
    BY <1>1, <1>5, StandingKeeps DEF SameStanding, Register
  <2>2. /\ pc[r] = "resolved" /\ pc' = [pc EXCEPT ![r] = "registered"] /\ who' = who
        /\ row' = row /\ held' = [held EXCEPT ![r].identity = ids + 1]
    BY <1>5 DEF Register
  <2>3. SameStanding(held'[r], held[r])
    BY <2>2 DEF Inv, TypeOK, Row, SameStanding
  <2> QED BY <2>1, <2>2, <2>3
          DEF Inv, TypeOK, OneRequest, AbsentStays, HeldIsRow, SameStanding
<1>6. CASE LinkIdentity(r)
  <2>1. OpenAdminKept'
    BY <1>1, <1>6, StandingKeeps DEF SameStanding, LinkIdentity
  <2>2. /\ pc[r] = "registered" /\ pc' = [pc EXCEPT ![r] = "linked"]
        /\ who' = who /\ row' = row /\ held' = held
    BY <1>6 DEF LinkIdentity
  <2> QED BY <2>1, <2>2 DEF Inv, TypeOK, OneRequest, AbsentStays, HeldIsRow, SameStanding
<1>7. CASE LinkMember(r)
  <2>1. /\ row'[who[r]] = held[r] /\ pc[r] = "linked"
        /\ \A q \in People \ {who[r]} : row'[q] = row[q]
    BY <1>1, <1>7 DEF LinkMember, Save, Inv, TypeOK
  <2>2. \A q \in People : SameStanding(row'[q], row[q])
    BY <1>1, <2>1 DEF Inv, HeldIsRow, SameStanding
  <2>3. OpenAdminKept'
    BY <1>1, <2>2, StandingKeeps
  <2> QED BY <1>1, <1>7, <2>1, <2>3, EndStanding DEF LinkMember
<1> QED BY <1>2, <1>3, <1>4, <1>5, <1>7, <1>6 DEF AdmitRead, Die

(* A founder is an open-ended administrator at the start. *)
LEMMA InvInit == Init => Inv
<1> SUFFICES ASSUME Init PROVE Inv
  OBVIOUS
<1>1. PICK p : p \in Founders /\ p \in People
  BY MembershipAssumption
<1>2. row[p] = [Fresh EXCEPT !.role = "Admin"]
  BY <1>1 DEF Init
<1>3. OpenAdmin(row[p])
  BY <1>2 DEF Fresh, Absent, OpenAdmin, ActiveAdmin, Lapsed
<1>4. OneRequest /\ AbsentStays /\ HeldIsRow
  BY DEF Init, OneRequest, AbsentStays, HeldIsRow
<1> QED BY InitTypes, <1>1, <1>3, <1>4 DEF Inv, OpenAdminKept

(* Every step keeps the invariant. *)
LEMMA InvKept ==
    ASSUME Inv, ~Overlap, [Next]_vars
    PROVE  Inv'
<1>1. TypeOK' /\ AboutPerson'
  BY TypesKept, PersonKept DEF Inv
<1>2. CASE UNCHANGED vars
  BY <1>1, <1>2 DEF vars, Inv, OneRequest, AbsentStays, HeldIsRow, SameStanding,
        OpenAdminKept, OpenAdmin, ActiveAdmin, Lapsed
<1>3. CASE \E p \in People : Act(p)
  BY <1>1, <1>3, ActWrites, ActApart DEF Inv
<1>4. CASE \/ \E r \in Requests, c, p \in People, f \in Form : AskToAdd(r, c, p, f)
           \/ \E r \in Requests, p \in People : SignIn(r, p)
  BY <1>1, <1>4, StartKeeps DEF Inv
<1>5. CASE \E r \in Requests : Grant(r)
  BY <1>1, <1>5, GrantKeeps DEF Inv
<1>6. CASE \E r \in Requests : AdmitRead(r) \/ AdmitPut(r) \/ Register(r)
                                 \/ LinkIdentity(r) \/ LinkMember(r) \/ Die(r)
  BY <1>1, <1>6, RequestKeeps DEF Inv
<1>7. CASE Tick
  <2>1. UNCHANGED <<row, pc, who, held>> /\ now' \in Nat
    BY <1>1, <1>7 DEF Tick, mine, TypeOK
  <2>2. OpenAdminKept'
    BY <2>1, StandingKeeps DEF SameStanding
  <2> QED BY <1>1, <2>1, <2>2 DEF Inv, OneRequest, AbsentStays, HeldIsRow, SameStanding
<1> QED BY <1>2, <1>3, <1>4, <1>5, <1>6, <1>7 DEF Next, Act

(* When requests about one person do not overlap, the site keeps an         *)
(* administrator without an end date, whatever the administrators do, and   *)
(* however windows lapse and requests die (auth.rs, strands_open_admin).    *)
THEOREM AdminStays ==
    ASSUME ~Overlap PROVE Spec => []OpenAdminKept
<1>1. Inv /\ [Next]_vars => Inv'
  BY InvKept
<1>2. Inv => OpenAdminKept
  BY DEF Inv
<1> QED BY InvInit, <1>1, <1>2, PTL DEF Spec

----------------------------------------------------------------------------
(* The standing that a row had gives no more access later. *)
LEMMA AccessLapses ==
    ASSUME NEW p \in People, SameStanding(row'[p], row[p]),
           now \in Nat, now' \in Nat, now <= now', row[p].ends \in Nat, HasAccess(row[p])'
    PROVE  HasAccess(row[p])
BY DEF HasAccess, Lapsed, SameStanding

(* Access that a step gives is given by an administrator's act. *)
LEMMA AccessStep ==
    ASSUME Inv, ~Overlap, Next, NEW p \in People, ~HasAccess(row[p]), HasAccess(row[p])'
    PROVE  Given(p)
<1> SUFFICES ASSUME ~Given(p) PROVE FALSE
  OBVIOUS
<1>0. TypeOK /\ row[p] \in Row /\ now \in Nat /\ row[p].ends \in Nat
  BY DEF Inv, TypeOK, Row
<1>1. ASSUME now' \in Nat, now <= now', SameStanding(row'[p], row[p]) PROVE FALSE
  BY <1>0, <1>1, AccessLapses
<1>2. ASSUME row' = row, now' = now PROVE FALSE
  BY <1>0, <1>1, <1>2 DEF SameStanding
<1>3. ASSUME NEW q \in People, Act(q) PROVE FALSE
  <2>1. CASE q # p
    BY <1>0, <1>1, <1>3, <2>1, ActWrites DEF SameStanding
  <2>2. CASE q = p
    <3>1. PICK c \in People : Disable(c, p) \/ Delete(c, p)
      BY <1>3, <2>2 DEF Act, Given
    <3>2. row'[p].disabled
      BY <1>0, <3>1 DEF Disable, Delete, Save, TypeOK, Row
    <3> QED BY <3>2 DEF HasAccess, Lapsed
  <2> QED BY <2>1, <2>2
<1>4. ASSUME NEW r \in Requests, AdmitPut(r) PROVE FALSE
  <2>1. who[r] \in People /\ now' = now
    BY <1>4 DEF AdmitPut, Inv, AboutPerson, aside
  <2>2. CASE who[r] = p
    BY <1>0, <1>4, <2>2 DEF AdmitPut, Save, TypeOK, Fresh, Absent, HasAccess
  <2>3. CASE who[r] # p
    <3>1. row'[p] = row[p]
      BY <1>0, <1>4, <2>3 DEF AdmitPut, Save, TypeOK
    <3> QED BY <1>0, <1>1, <2>1, <3>1 DEF SameStanding
  <2> QED BY <2>2, <2>3
<1>5. ASSUME NEW r \in Requests, Grant(r) PROVE FALSE
  <2>1. who[r] # p /\ now' = now
    BY <1>5 DEF Given, Grant, aside
  <2>2. row'[p] = row[p]
    BY <1>0, <1>5, <2>1 DEF Grant, Save, TypeOK
  <2> QED BY <1>0, <1>1, <2>1, <2>2 DEF SameStanding
<1>6. ASSUME NEW r \in Requests, LinkMember(r) PROVE FALSE
  <2>1. who[r] \in People /\ now' = now /\ pc[r] = "linked"
    BY <1>6 DEF LinkMember, Inv, AboutPerson, aside
  <2>2. SameStanding(row'[p], row[p])
    BY <1>0, <1>6, <2>1 DEF LinkMember, Save, TypeOK, Inv, HeldIsRow, SameStanding
  <2> QED BY <1>0, <1>1, <2>1, <2>2
<1>7. CASE Tick
  <2>1. row' = row /\ now' = now + 1
    BY <1>7 DEF Tick
  <2> QED BY <1>0, <1>1, <2>1 DEF SameStanding
<1>8. ASSUME NEW r \in Requests,
             AdmitRead(r) \/ Register(r) \/ LinkIdentity(r) \/ Die(r)
      PROVE  FALSE
  BY <1>2, <1>8 DEF AdmitRead, Register, LinkIdentity, Die, aside
<1>9. ASSUME NEW r \in Requests, NEW q \in People, SignIn(r, q) PROVE FALSE
  BY <1>2, <1>9 DEF SignIn
<1>10. ASSUME NEW r \in Requests, NEW c \in People, NEW q \in People, NEW f \in Form,
              AskToAdd(r, c, q, f)
       PROVE  FALSE
  BY <1>2, <1>10 DEF AskToAdd
<1> QED BY <1>3, <1>4, <1>5, <1>6, <1>7, <1>8, <1>9, <1>10 DEF Next, Act

(* When requests about one person do not overlap, nobody gains access but   *)
(* by an administrator's act: a sign-in that was in flight writes back only *)
(* what is still there (auth.rs, provision, has_access).                    *)
THEOREM OnlyAdminsGiveAccess ==
    ASSUME ~Overlap PROVE Spec => AccessIsGranted
<1>1. Inv /\ [Next]_vars => Inv'
  BY InvKept
<1>2. Inv /\ [Next]_vars =>
        [\A p \in People : ~HasAccess(row[p]) /\ HasAccess(row[p])' => Given(p)]_vars
  BY AccessStep
<1> QED BY InvInit, <1>1, <1>2, PTL DEF Spec, AccessIsGranted

----------------------------------------------------------------------------
(* An account has one identity at most, and a sign-in that has not yet      *)
(* written the member knows it.                                             *)
OneLink == \A p \in People : \A i, j \in links[p] : i = j
Resolving ==
    \A r \in Requests :
        /\ pc[r] \in {"resolved", "registered"} =>
              links[who[r]] = {} /\ row[who[r]].identity = 0
        /\ pc[r] = "linked" => links[who[r]] = {held[r].identity}
LinkInv == OneLink /\ Resolving /\ LinkedAsResolved

(* A step that changes no row's identity and no link, and begins no         *)
(* sign-in, keeps them.                                                     *)
LEMMA LinksUntouched ==
    ASSUME TypeOK, AboutPerson, LinkInv, links' = links,
           \A p \in People : row'[p].identity = row[p].identity,
           \A r \in Requests : pc'[r] \in {"resolved", "registered", "linked"} =>
               pc'[r] = pc[r] /\ who'[r] = who[r] /\ held'[r] = held[r]
    PROVE  LinkInv'
BY DEF LinkInv, OneLink, Resolving, LinkedAsResolved, AboutPerson, TypeOK

(* Every step keeps the links. *)
LEMMA LinkStep ==
    ASSUME Inv, ~Overlap, LinkInv, [Next]_vars
    PROVE  LinkInv'
<1>0. TypeOK /\ AboutPerson
  BY DEF Inv
<1> USE DEF Inv, TypeOK
<1>1. CASE UNCHANGED vars
  BY <1>0, <1>1, LinksUntouched DEF vars
<1>2. ASSUME NEW p \in People, Act(p) PROVE LinkInv'
  <2>1. links' = links /\ UNCHANGED <<pc, who, held>>
    BY <1>2 DEF Act, Disable, Enable, Delete, SetRole, mine, aside
  <2>2. \A q \in People : row'[q].identity = row[q].identity
    <3>1. row[p] \in Row
      OBVIOUS
    <3>2. ASSUME NEW after, Save(p, after), after.identity = row[p].identity
          PROVE  \A q \in People : row'[q].identity = row[q].identity
      BY <3>2 DEF Save
    <3>3. CASE \E c \in People : Disable(c, p)
      BY <3>1, <3>2, <3>3, RowIdentity DEF Disable
    <3>4. CASE \E c \in People : Enable(c, p)
      BY <3>1, <3>2, <3>4, RowIdentity DEF Enable
    <3>5. CASE \E c \in People : Delete(c, p)
      BY <3>1, <3>2, <3>5, RowIdentity DEF Delete
    <3>6. CASE \E c \in People, role \in Roles \ {"none"} : SetRole(c, p, role)
      BY <3>1, <3>2, <3>6, RowIdentity DEF SetRole
    <3> QED BY <1>2, <3>3, <3>4, <3>5, <3>6 DEF Act
  <2> QED BY <1>0, <2>1, <2>2, LinksUntouched
<1>3. ASSUME NEW r \in Requests, NEW c \in People, NEW p \in People, NEW f \in Form,
             AskToAdd(r, c, p, f)
      PROVE  LinkInv'
  BY <1>0, <1>3, LinksUntouched DEF AskToAdd
<1>4. ASSUME NEW r \in Requests, AdmitRead(r) \/ Die(r) PROVE LinkInv'
  <2>1. links' = links /\ row' = row
    BY <1>4 DEF AdmitRead, Die, aside
  <2>2. CASE End(r)
    BY <1>0, <2>1, <2>2, EndApart, LinksUntouched
  <2>3. CASE AdmitRead(r) /\ ~End(r)
    BY <1>0, <2>1, <2>3, LinksUntouched DEF AdmitRead
  <2> QED BY <1>4, <2>2, <2>3 DEF Die
<1>5. ASSUME NEW r \in Requests, AdmitPut(r) PROVE LinkInv'
  <2>1. /\ links' = links /\ pc' = [pc EXCEPT ![r] = "admitted"]
        /\ UNCHANGED <<who, held>> /\ row' = [row EXCEPT ![who[r]] = Fresh]
    BY <1>5 DEF AdmitPut, Save, aside
  <2>2. who[r] \in People /\ row'[who[r]].identity = 0
    BY <1>5, <2>1 DEF AdmitPut, AboutPerson, Fresh, Absent
  <2>3. \A s \in Requests \ {r} : pc[s] # "idle" => row'[who[s]] = row[who[s]]
    BY <1>5, <2>1 DEF AdmitPut, AboutPerson, OneRequest
  <2> QED BY <2>1, <2>2, <2>3 DEF LinkInv, OneLink, Resolving, LinkedAsResolved
<1>6. ASSUME NEW r \in Requests, Grant(r) PROVE LinkInv'
  <2>1. \A q \in People : row'[q].identity = row[q].identity
    <3>1. who[r] \in People /\ row[who[r]] \in Row
      BY <1>6 DEF Grant, AboutPerson
    <3>2. [row[who[r]] EXCEPT !.role = form[r].role, !.ends = Until(form[r].days)].identity
              = row[who[r]].identity
      BY <3>1, RowIdentity
    <3>3. CASE UNCHANGED row
      BY <3>3
    <3>4. CASE Save(who[r], [row[who[r]] EXCEPT !.role = form[r].role,
                                                !.ends = Until(form[r].days)])
      BY <3>1, <3>2, <3>4 DEF Save
    <3> QED BY <1>6, <3>3, <3>4 DEF Grant
  <2> QED BY <1>0, <1>6, <2>1, EndApart, LinksUntouched DEF Grant, aside
<1>7. ASSUME NEW r \in Requests, NEW p \in People, SignIn(r, p) PROVE LinkInv'
  <2>1. PICK i \in links[p] \cup {0} :
            /\ links[p] # {} => i \in links[p]
            /\ held' = [held EXCEPT ![r] = [row[p] EXCEPT !.identity = i]]
            /\ pc' = [pc EXCEPT ![r] = IF links[p] = {} THEN "resolved" ELSE "linked"]
    BY <1>7 DEF SignIn, Resolved
  <2>2. /\ row' = row /\ links' = links /\ row[p].identity = 0
        /\ who' = [who EXCEPT ![r] = p]
    BY <1>7 DEF SignIn
  <2>3. held'[r].identity = i
    BY <2>1 DEF Row
  <2>4. links[p] # {} => links[p] = {i}
    BY <2>1 DEF LinkInv, OneLink
  <2> QED BY <2>1, <2>2, <2>3, <2>4 DEF LinkInv, OneLink, Resolving, LinkedAsResolved
<1>8. ASSUME NEW r \in Requests, Register(r) PROVE LinkInv'
  <2>1. /\ pc[r] = "resolved" /\ row' = row /\ who' = who /\ links' = links
        /\ pc' = [pc EXCEPT ![r] = "registered"]
        /\ \A s \in Requests \ {r} : held'[s] = held[s]
    BY <1>8 DEF Register
  <2> QED BY <2>1 DEF LinkInv, OneLink, Resolving, LinkedAsResolved
<1>9. ASSUME NEW r \in Requests, LinkIdentity(r) PROVE LinkInv'
  <2>1. /\ pc[r] = "registered" /\ row' = row /\ who' = who /\ held' = held
        /\ links' = [links EXCEPT ![who[r]] = @ \cup {held[r].identity}]
        /\ pc' = [pc EXCEPT ![r] = "linked"] /\ who[r] \in People
    BY <1>9 DEF LinkIdentity, AboutPerson
  <2>2. links'[who[r]] = {held[r].identity} /\ row[who[r]].identity = 0
    BY <2>1 DEF LinkInv, Resolving
  <2>4. \A q \in People \ {who[r]} : links'[q] = links[q]
    BY <2>1
  <2>5. \A s \in Requests \ {r} : pc[s] # "idle" => links'[who[s]] = links[who[s]]
    BY <2>1, <2>4 DEF AboutPerson, OneRequest
  <2>6. OneLink' /\ LinkedAsResolved'
    BY <2>1, <2>2, <2>4 DEF LinkInv, OneLink, LinkedAsResolved
  <2>7. Resolving'
    BY <2>1, <2>2, <2>5 DEF LinkInv, Resolving
  <2> QED BY <2>6, <2>7 DEF LinkInv
<1>10. ASSUME NEW r \in Requests, LinkMember(r) PROVE LinkInv'
  <2>1. /\ pc[r] = "linked" /\ links' = links /\ who[r] \in People
        /\ row' = [row EXCEPT ![who[r]] = held[r]]
    BY <1>10 DEF LinkMember, Save, aside, AboutPerson
  <2>2. links[who[r]] = {held[r].identity}
    BY <2>1 DEF LinkInv, Resolving
  <2>3. \A s \in Requests \ {r} : pc[s] # "idle" => row'[who[s]] = row[who[s]]
    BY <2>1 DEF AboutPerson, OneRequest
  <2>4. /\ pc'[r] = "idle"
        /\ \A s \in Requests \ {r} :
              pc'[s] = pc[s] /\ who'[s] = who[s] /\ held'[s] = held[s]
    BY <1>0, <1>10, EndApart DEF LinkMember
  <2> QED BY <2>1, <2>2, <2>3, <2>4 DEF LinkInv, OneLink, Resolving, LinkedAsResolved
<1>11. CASE Tick
  BY <1>0, <1>11, LinksUntouched DEF Tick, mine
<1> QED BY <1>1, <1>2, <1>3, <1>4, <1>5, <1>6, <1>7, <1>9, <1>10, <1>11, <1>8
    DEF Next, Act

(* When requests about one person do not overlap, a member is linked to the *)
(* one identity their account resolves to, though sign-ins are cut short    *)
(* between registering, linking and writing (auth.rs, provision).           *)
THEOREM LinksAgree ==
    ASSUME ~Overlap PROVE Spec => []LinkedAsResolved
<1>1. Init => LinkInv
  <2> SUFFICES ASSUME Init PROVE LinkInv
    OBVIOUS
  <2>1. \A p \in People : row[p].identity = 0
    BY DEF Init, Fresh, Absent
  <2> QED BY <2>1 DEF Init, LinkInv, OneLink, Resolving, LinkedAsResolved
<1>2. Inv /\ LinkInv /\ [Next]_vars => Inv' /\ LinkInv'
  BY InvKept, LinkStep
<1>3. LinkInv => LinkedAsResolved
  BY DEF LinkInv
<1> QED BY InvInit, <1>1, <1>2, <1>3, PTL DEF Spec
=============================================================================
