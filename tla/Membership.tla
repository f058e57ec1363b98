----------------------------- MODULE Membership -----------------------------
(***************************************************************************)
(* The people of a site and who administers it: the membership part of     *)
(* rust/host/src/auth.rs and the routes of rust/host/src/web.rs over it.   *)
(*                                                                         *)
(* A person's row is a head of the lineage journal.  Granting, disabling,  *)
(* deleting and changing a role each read every row and write one under    *)
(* the domain's ordinal lock (Store::amend_head), so each is one step.     *)
(* Admitting a person, and linking one at the first sign-in, read a row,   *)
(* do other work, and write the row with put_head: requests that take      *)
(* several steps, that may overlap and may die between two of them.        *)
(*                                                                         *)
(* "Admin" stands for either role of ADMIN_ROLES.  A window is the instant *)
(* it ends, 0 when it is open.  Names are left out.                        *)
(***************************************************************************)
EXTENDS Integers

CONSTANTS
    People,      \* emails
    Founders,    \* the people who administer the site at first
    Requests,    \* requests in flight at once
    Overlap,     \* two requests about one person may overlap
    Days,        \* the windows a grant may carry, 0 for none
    MaxNow,      \* bound: the clock
    MaxIds,      \* bound: identities registered
    Nobody       \* the person of no request

ASSUME MembershipAssumption ==
    /\ Founders \subseteq People /\ Founders # {}
    /\ Overlap \in BOOLEAN /\ Nobody \notin People
    /\ Days \subseteq Nat /\ 0 \in Days /\ MaxNow \in Nat /\ MaxIds \in Nat

VARIABLES
    row,     \* per person, the membership head
    now,     \* the process clock
    links,   \* per person, the identities linked to their external account
    ids,     \* identities registered so far
    pc,      \* per request, its step
    who,     \* per request, the person it is about
    form,    \* per request, the role and window it grants, and its route
    held     \* per request, the row a sign-in read, and its identity

vars == <<row, now, links, ids, pc, who, form, held>>

Roles == {"none", "Member", "Admin"}
Row == [here: BOOLEAN, role: Roles, disabled: BOOLEAN, deleted: BOOLEAN,
        ends: Nat, identity: Nat]
Form == [role: Roles \ {"none"}, days: Days, route: {"members", "admin_page"}]
Steps == {"idle", "checked", "absent", "admitted", "resolved", "registered",
          "linked"}

Absent == [here |-> FALSE, role |-> "none", disabled |-> FALSE,
           deleted |-> FALSE, ends |-> 0, identity |-> 0]
Fresh == [Absent EXCEPT !.here = TRUE]

----------------------------------------------------------------------------
Lapsed(r) == r.disabled \/ (r.ends # 0 /\ r.ends <= now)
ActiveAdmin(r) == r.here /\ r.role = "Admin" /\ ~Lapsed(r)
OpenAdmin(r) == ActiveAdmin(r) /\ r.ends = 0
HasAccess(r) == r.here /\ r.role # "none" /\ ~Lapsed(r)

LastActiveAdmin(p) ==
    ActiveAdmin(row[p]) /\ \A q \in People : ActiveAdmin(row[q]) => q = p

(* Mutant: only the last admin of any kind is protected. *)
StrandsNobody(p, after) == FALSE

(* Whether replacing p's row would leave no open-ended admin where there was *)
(* one, or make the site's first admin one with an end date.                 *)
Strands(p, after) ==
    LET had == \E q \in People : OpenAdmin(row[q])
        keeps == OpenAdmin(after) \/ \E q \in People \ {p} : OpenAdmin(row[q])
        first == \A q \in People : row[q].role # "Admin"
    IN  ~keeps /\ (had \/ (first /\ after.role = "Admin"))

(* No other request is about p, unless requests may overlap. *)
Free(p) == Overlap \/ \A r \in Requests : pc[r] # "idle" => who[r] # p

Save(p, after) == row' = [row EXCEPT ![p] = after]

(* What a request keeps ends with it. *)
NoForm == [role |-> "Member", days |-> 0, route |-> "members"]
End(r) ==
    /\ pc' = [pc EXCEPT ![r] = "idle"] /\ who' = [who EXCEPT ![r] = Nobody]
    /\ form' = [form EXCEPT ![r] = NoForm] /\ held' = [held EXCEPT ![r] = Absent]
mine == <<pc, who, form, held>>
aside == <<now, links, ids>>

Init ==
    /\ row = [p \in People |->
                 IF p \in Founders THEN [Fresh EXCEPT !.role = "Admin"] ELSE Absent]
    /\ now = 0 /\ links = [p \in People |-> {}] /\ ids = 0
    /\ pc = [r \in Requests |-> "idle"]
    /\ who = [r \in Requests |-> Nobody]
    /\ form = [r \in Requests |-> NoForm]
    /\ held = [r \in Requests |-> Absent]

----------------------------------------------------------------------------
(* set_person_disabled, disabling. *)
Disable(c, p) ==
    LET after == [row[p] EXCEPT !.disabled = TRUE]
    IN  /\ Free(p) /\ ActiveAdmin(row[c]) /\ c # p
        /\ row[p].here /\ ~row[p].disabled
        /\ ~LastActiveAdmin(p) /\ ~Strands(p, after)
        /\ Save(p, after)
        /\ UNCHANGED <<mine, aside>>

(* set_person_disabled, enabling: the row keeps its role and its window. *)
Enable(c, p) ==
    LET after == [row[p] EXCEPT !.disabled = FALSE]
    IN  /\ Free(p) /\ ActiveAdmin(row[c]) /\ row[p].here /\ row[p].disabled
        /\ ~Strands(p, after)
        /\ Save(p, after)
        /\ UNCHANGED <<mine, aside>>

(* Mutant: deleting a person takes the place of disabling them. *)
DeleteEnabling(c, p) ==
    /\ Free(p) /\ ActiveAdmin(row[c]) /\ row[p].here
    /\ row[p].disabled /\ ~row[p].deleted
    /\ Save(p, [row[p] EXCEPT !.deleted = TRUE, !.disabled = FALSE])
    /\ UNCHANGED <<mine, aside>>

(* set_person_deleted: only a disabled person. *)
Delete(c, p) ==
    /\ Free(p) /\ ActiveAdmin(row[c]) /\ row[p].here
    /\ row[p].disabled /\ ~row[p].deleted
    /\ Save(p, [row[p] EXCEPT !.deleted = TRUE])
    /\ UNCHANGED <<mine, aside>>

(* set_person_role. *)
SetRole(c, p, role) ==
    LET after == [row[p] EXCEPT !.role = role]
    IN  /\ Free(p) /\ ActiveAdmin(row[c]) /\ row[p].here /\ row[p].role # role
        /\ ~(role # "Admin" /\ LastActiveAdmin(p)) /\ ~Strands(p, after)
        /\ Save(p, after)
        /\ UNCHANGED <<mine, aside>>

----------------------------------------------------------------------------
(* add_member_route, admin_members_route: an admin asks to add p.  The       *)
(* caller is the member's session; the routes also take a Governance session *)
(* (members_page_caller), a cookie that nothing in the host issues.          *)
AskToAdd(r, c, p, f) ==
    /\ pc[r] = "idle" /\ Free(p) /\ ActiveAdmin(row[c])
    /\ pc' = [pc EXCEPT ![r] = "checked"]
    /\ who' = [who EXCEPT ![r] = p] /\ form' = [form EXCEPT ![r] = f]
    /\ UNCHANGED <<row, now, links, ids, held>>

(* admit_person reads the rows: a person already there ends the members      *)
(* route, and is granted the role by the admin page's.                       *)
AdmitRead(r) ==
    /\ pc[r] = "checked"
    /\ IF row[who[r]].here /\ form[r].route = "members" THEN End(r)
       ELSE /\ pc' = [pc EXCEPT ![r] = IF row[who[r]].here THEN "admitted" ELSE "absent"]
            /\ UNCHANGED <<who, form, held>>
    /\ UNCHANGED <<row, aside>>

(* admit_person writes the new row. *)
AdmitPut(r) ==
    /\ pc[r] = "absent"
    /\ Save(who[r], Fresh)
    /\ pc' = [pc EXCEPT ![r] = "admitted"]
    /\ UNCHANGED <<who, form, held, aside>>

(* expiry_after_days: no days is a grant without an end. *)
Until(days) == IF days = 0 THEN 0 ELSE now + days

(* grant_access_until: the new window replaces the old. *)
Grant(r) ==
    LET p == who[r]
        after == [row[p] EXCEPT !.role = form[r].role, !.ends = Until(form[r].days)]
    IN  /\ pc[r] = "admitted"
        /\ IF row[p].here /\ ~Strands(p, after) THEN Save(p, after)
           ELSE UNCHANGED row
        /\ End(r)
        /\ UNCHANGED aside

----------------------------------------------------------------------------
(* The identity p's account is linked to, 0 if there is none. *)
Resolved(p) == IF links[p] = {} THEN {0} ELSE links[p]

(* Mutant: a retried sign-in mints a fresh identity every time. *)
SignInMinting(r, p) ==
    /\ pc[r] = "idle" /\ Free(p)
    /\ HasAccess(row[p]) /\ row[p].identity = 0
    /\ who' = [who EXCEPT ![r] = p]
    /\ held' = [held EXCEPT ![r] = row[p]]
    /\ pc' = [pc EXCEPT ![r] = "resolved"]
    /\ UNCHANGED <<row, now, links, ids, form>>

(* google_callback, map_member, provision: a member with a role, in good      *)
(* standing and not yet linked; the identity of the account is looked up.     *)
SignIn(r, p) ==
    /\ pc[r] = "idle" /\ Free(p)
    /\ HasAccess(row[p]) /\ row[p].identity = 0
    /\ who' = [who EXCEPT ![r] = p]
    /\ \E i \in Resolved(p) :
          held' = [held EXCEPT ![r] = [row[p] EXCEPT !.identity = i]]
    /\ pc' = [pc EXCEPT ![r] = IF links[p] = {} THEN "resolved" ELSE "linked"]
    /\ UNCHANGED <<row, now, links, ids, form>>

(* The account resolves to no identity: a new one is registered. *)
Register(r) ==
    /\ pc[r] = "resolved" /\ ids < MaxIds
    /\ ids' = ids + 1
    /\ held' = [held EXCEPT ![r].identity = ids + 1]
    /\ pc' = [pc EXCEPT ![r] = "registered"]
    /\ UNCHANGED <<row, now, links, who, form>>

(* The registered identity is linked to the account. *)
LinkIdentity(r) ==
    /\ pc[r] = "registered"
    /\ links' = [links EXCEPT ![who[r]] = @ \cup {held[r].identity}]
    /\ pc' = [pc EXCEPT ![r] = "linked"]
    /\ UNCHANGED <<row, now, ids, who, form, held>>

(* provision writes the row it read first, with the identity. *)
LinkMember(r) ==
    /\ pc[r] = "linked"
    /\ Save(who[r], held[r])
    /\ End(r)
    /\ UNCHANGED aside

(* The request is cut short: a refusal, an error or the process's death. *)
Die(r) ==
    /\ pc[r] # "idle"
    /\ End(r)
    /\ UNCHANGED <<row, aside>>

Tick ==
    /\ now < MaxNow /\ now' = now + 1
    /\ UNCHANGED <<row, links, ids, mine>>

----------------------------------------------------------------------------
Next ==
    \/ \E c, p \in People :
          \/ Disable(c, p) \/ Enable(c, p) \/ Delete(c, p)
          \/ \E role \in Roles \ {"none"} : SetRole(c, p, role)
          \/ \E r \in Requests, f \in Form : AskToAdd(r, c, p, f)
    \/ \E r \in Requests :
          \/ AdmitRead(r) \/ AdmitPut(r) \/ Grant(r)
          \/ Register(r) \/ LinkIdentity(r) \/ LinkMember(r) \/ Die(r)
          \/ \E p \in People : SignIn(r, p)
    \/ Tick

Spec == Init /\ [][Next]_vars

----------------------------------------------------------------------------
(* Every variable keeps its type. *)
TypeOK ==
    /\ row \in [People -> Row] /\ now \in Nat
    /\ links \in [People -> SUBSET Nat] /\ ids \in Nat
    /\ pc \in [Requests -> Steps] /\ who \in [Requests -> People \cup {Nobody}]
    /\ form \in [Requests -> Form] /\ held \in [Requests -> Row]

(* The site always keeps an admin without an end date: no sequence of       *)
(* grants, disables, role changes and first sign-ins, with windows lapsing  *)
(* in between, leaves it with none (web.rs, NEEDS_OPEN_ADMIN).              *)
OpenAdminKept == \E p \in People : OpenAdmin(row[p])

(* An administrator's act that may give p access. *)
Given(p) ==
    \/ \E c \in People :
          Enable(c, p) \/ \E role \in Roles \ {"none"} : SetRole(c, p, role)
    \/ \E r \in Requests : who[r] = p /\ Grant(r)

(* Access is given by an admin's grant, role or enabling, and by nothing    *)
(* else: a sign-in that links a member leaves them what access they have,   *)
(* and someone disabled meanwhile stays disabled (auth.rs, provision,       *)
(* set_person_disabled).                                                    *)
AccessIsGranted ==
    [][\A p \in People : ~HasAccess(row[p]) /\ HasAccess(row[p])' => Given(p)]_vars

(* A member is linked to the identity their account resolves to, and the    *)
(* account to no other, though earlier sign-ins were cut short between      *)
(* registering an identity, linking it and writing the member, and were     *)
(* tried again (auth.rs, provision).                                        *)
LinkedAsResolved ==
    \A p \in People : row[p].identity # 0 => links[p] = {row[p].identity}

=============================================================================
