------------------------------ MODULE Accounts -------------------------------
(***************************************************************************)
(* Customers, departments and users, and what the accounts may see           *)
(* (televault/admin.py, scope.py, security.py, cli.py).                      *)
(*                                                                           *)
(* A web request reads its session and the account's role, and only then     *)
(* takes the write lock: what it does next is one transaction, with the role  *)
(* of before and the memberships of now.  remove-customer reads which         *)
(* accounts it would leave with nothing before it takes the lock.             *)
(***************************************************************************)
EXTENDS Scope

CONSTANTS
  Requests,
  Recordings,     \* what the customers' recordings may be
  Rules,          \* what a department may be defined by
  MaxCustomer,    \* bounds: the last ids of customers, departments and users
  MaxDept,
  MaxUser

CustomerIds == 1..MaxCustomer
DeptIds == 1..MaxDept
UserIds == 1..MaxUser

ASSUME AccountsAssumption ==
  /\ MaxCustomer \in Nat /\ MaxDept \in Nat /\ MaxUser \in Nat
  /\ \A rec \in Recordings : rec.customer \in CustomerIds
  /\ Rules # {}

VARIABLES
  customers,   \* ids in table `customers`
  depts,       \* table `departments`
  users,       \* tables `users`, `user_customers`, `user_departments`
  req,         \* a request in progress: what it has read of the account
  removal      \* a remove-customer in progress: what it has read

vars == <<customers, depts, users, req, removal>>

-----------------------------------------------------------------------------
(* Types                                                                     *)

Roles == {"superadmin", "customer_admin", "department"}

SomeRule == CHOOSE r \in Rules : TRUE
NoDept == [customer |-> NoCustomer, rule |-> SomeRule]
Dept == [customer: {NoCustomer} \cup CustomerIds, rule: Rules]
IsDept(d) == depts[d].customer # NoCustomer

NoUser == [role |-> "none", active |-> FALSE, customers |-> {}, depts |-> {}]
User == [role: Roles \cup {"none"}, active: BOOLEAN,
         customers: SUBSET CustomerIds, depts: SUBSET DeptIds]
IsUser(u) == users[u].role # "none"

(* The row resolve_session has read; user 0: no request. *)
NoRequest == [user |-> 0, role |-> "none"]
Request == [user: {0} \cup UserIds, role: Roles \cup {"none"}]
Busy(r) == req[r].user # 0

NoRemoval == [customer |-> NoCustomer, emptied |-> {}]
Removal == [customer: {NoCustomer} \cup CustomerIds, emptied: SUBSET UserIds]

TypeOK ==
  /\ customers \subseteq CustomerIds
  /\ depts \in [DeptIds -> Dept]
  /\ users \in [UserIds -> User]
  /\ req \in [Requests -> Request]
  /\ removal \in Removal

-----------------------------------------------------------------------------
(* Memberships, principals and what they see                                 *)

CustomersOfDepts(ds) == {depts[d].customer : d \in ds}

(* load_memberships: the customers an account of this role may see. *)
WhateverTheRole(u, role) ==     \* planted fault: departments count for any role
  users[u].customers \cup CustomersOfDepts(users[u].depts)
CustomersOf(u, role) ==
  CASE role = "customer_admin" -> users[u].customers
    [] role = "department" -> CustomersOfDepts(users[u].depts)
    [] OTHER -> {}

Principal(u, role) ==
  [role |-> role, customers |-> CustomersOf(u, role),
   rules |-> {depts[d] : d \in users[u].depts}]

(* (UNION over {p}: TLC makes the principal once.) *)
Sees(p) ==
  UNION {{rec \in Recordings : ScopeSql(q, NoCustomer, rec)} : q \in {p}}

(* What the account's row and memberships entitle it to. *)
Rights(u) == Sees(Principal(u, users[u].role))
Access(u) == IF users[u].active THEN Rights(u) ELSE {}

(* The principal of a request, at its first write. *)
Of(r) == Principal(req[r].user, req[r].role)
Theirs(r) == CustomersOf(req[r].user, req[r].role)

-----------------------------------------------------------------------------
(* Requests                                                                  *)

(* resolve_session's SELECT *)
Begin(r, u) ==
  /\ ~ Busy(r) /\ IsUser(u) /\ users[u].active
  /\ req' = [req EXCEPT ![r] = [user |-> u, role |-> users[u].role]]
  /\ UNCHANGED <<customers, depts, users, removal>>

Ends(r) == Busy(r) /\ req' = [req EXCEPT ![r] = NoRequest]

(* A route that lists or serves recordings, refuses, or changes other tables. *)
Answer(r) ==
  /\ Ends(r)
  /\ UNCHANGED <<customers, depts, users, removal>>

Administers(r, c) == req[r].role = "superadmin" \/ c \in Theirs(r)
IsAdmin(r) == req[r].role \in {"superadmin", "customer_admin"}

(* INTEGER PRIMARY KEY without AUTOINCREMENT: one more than the largest id. *)
NextId(Taken, i) == i \notin Taken /\ (\A j \in Taken : j < i)
                    /\ (i # 1 => i - 1 \in Taken)

CreateCustomer(r, c) ==
  /\ Ends(r) /\ req[r].role = "superadmin"
  /\ NextId(customers, c)
  /\ customers' = customers \cup {c}
  /\ UNCHANGED <<depts, users, removal>>

CreateDepartment(r, d, c, rule) ==
  /\ Ends(r) /\ IsAdmin(r) /\ Administers(r, c) /\ c \in customers
  /\ NextId({e \in DeptIds : IsDept(e)}, d)
  /\ depts' = [depts EXCEPT ![d] = [customer |-> c, rule |-> rule]]
  /\ UNCHANGED <<customers, users, removal>>

UpdateDepartment(r, d, rule) ==
  /\ Ends(r) /\ IsAdmin(r)
  /\ IsDept(d) /\ Administers(r, depts[d].customer)
  /\ depts' = [depts EXCEPT ![d] = [customer |-> depts[d].customer, rule |-> rule]]
  /\ UNCHANGED <<customers, users, removal>>

(* ON DELETE CASCADE over customers cs and departments ds *)
Cascade(cs, ds) ==
  [u \in UserIds |-> [role |-> users[u].role, active |-> users[u].active,
                      customers |-> users[u].customers \ cs,
                      depts |-> users[u].depts \ ds]]

DeleteDepartment(r, d) ==
  /\ Ends(r) /\ IsAdmin(r)
  /\ IsDept(d) /\ Administers(r, depts[d].customer)
  /\ depts' = [depts EXCEPT ![d] = NoDept]
  /\ users' = Cascade({}, {d})
  /\ UNCHANGED <<customers, removal>>

(* _validate_user: what it returns for a role has memberships of that role, *)
(* and at least one.                                                        *)
NewUsers ==
  {new \in User :
     CASE new.role = "none" -> FALSE
       [] new.role = "superadmin" -> new.customers = {} /\ new.depts = {}
       [] new.role = "customer_admin" -> new.customers # {} /\ new.depts = {}
       [] new.role = "department" -> new.customers = {} /\ new.depts # {}}

MayGrant(r, new) ==
  \/ req[r].role = "superadmin" /\ new.customers \subseteq customers
     /\ \A d \in new.depts : IsDept(d)
  \/ new.role = "department"
     /\ \A d \in new.depts : IsDept(d) /\ depts[d].customer \in Theirs(r)

(* _manageable *)
ManageableIfOneIsTheirs(r, u) ==   \* planted fault: one common customer is enough
  \/ req[r].role = "superadmin"
  \/ /\ req[r].role = "customer_admin" /\ users[u].role = "department"
     /\ CustomersOf(u, "department") \cap Theirs(r) # {}
Manageable(r, u) ==
  \/ req[r].role = "superadmin"
  \/ /\ req[r].role = "customer_admin" /\ users[u].role = "department"
     /\ users[u].depts # {}
     /\ CustomersOf(u, "department") \subseteq Theirs(r)

CreateUser(r, u) ==
  /\ Ends(r) /\ IsAdmin(r)
  /\ NextId({v \in UserIds : IsUser(v)}, u)
  /\ \E new \in NewUsers :
       MayGrant(r, new) /\ users' = [users EXCEPT ![u] = new]
  /\ UNCHANGED <<customers, depts, removal>>

IsOtherSuperadmin(v, u) == v # u /\ users[v].role = "superadmin" /\ users[v].active

CountTheDisabled(u) ==      \* planted fault: disabled superadmins count
  \E v \in UserIds : v # u /\ users[v].role = "superadmin"
OtherActiveSuperadmin(u) == \E v \in UserIds : IsOtherSuperadmin(v, u)

Demotes(u, new) ==
  users[u].role = "superadmin" /\ (new.role # "superadmin" \/ ~ new.active)

(* Nobody changes their own role or disables themselves. *)
MayUpdate(r, u, new) ==
  /\ u = req[r].user => new.role = users[u].role /\ new.active
  /\ Demotes(u, new) => OtherActiveSuperadmin(u)
  /\ MayGrant(r, new)

KeepMemberships(r, u) ==   \* planted fault: old memberships are not deleted
  /\ Ends(r) /\ IsAdmin(r) /\ IsUser(u) /\ Manageable(r, u)
  /\ \E new \in NewUsers :
       /\ MayUpdate(r, u, new)
       /\ users' = [users EXCEPT ![u] =
                      [role |-> new.role, active |-> new.active,
                       customers |-> new.customers \cup users[u].customers,
                       depts |-> new.depts \cup users[u].depts]]
  /\ UNCHANGED <<customers, depts, removal>>
UpdateUser(r, u) ==
  /\ Ends(r) /\ IsAdmin(r) /\ IsUser(u) /\ Manageable(r, u)
  /\ \E new \in NewUsers :
       MayUpdate(r, u, new) /\ users' = [users EXCEPT ![u] = new]
  /\ UNCHANGED <<customers, depts, removal>>

-----------------------------------------------------------------------------
(* The command line                                                          *)

CreateSuperadmin(u) ==
  /\ NextId({v \in UserIds : IsUser(v)}, u)
  /\ users' = [users EXCEPT ![u] = [role |-> "superadmin", active |-> TRUE,
                                    customers |-> {}, depts |-> {}]]
  /\ UNCHANGED <<customers, depts, req, removal>>

AddCustomer(c) ==
  /\ NextId(customers, c)
  /\ customers' = customers \cup {c}
  /\ UNCHANGED <<depts, users, req, removal>>

(* remove-customer: who would be left with no customer ... *)
ReadEmptied(c) ==
  /\ removal = NoRemoval /\ c \in customers
  /\ removal' = [customer |-> c,
                 emptied |-> {u \in UserIds : /\ IsUser(u)
                                              /\ users[u].role # "superadmin"
                                              /\ CustomersOf(u, users[u].role) = {c}}]
  /\ UNCHANGED <<customers, depts, users, req>>

(* ... and, confirmed, the DELETE with its cascades, and those accounts. *)
DeptsOf(c) == {d \in DeptIds : depts[d].customer = c}

RemoveCustomer ==
  LET c == removal.customer
      left == Cascade({c}, DeptsOf(c))
  IN
  /\ removal # NoRemoval
  /\ customers' = customers \ {c}
  /\ depts' = [d \in DeptIds |-> IF d \in DeptsOf(c) THEN NoDept ELSE depts[d]]
  /\ users' = [u \in UserIds |-> IF u \in removal.emptied THEN NoUser ELSE left[u]]
  /\ removal' = NoRemoval
  /\ UNCHANGED req

DryRun ==
  /\ removal # NoRemoval /\ removal' = NoRemoval
  /\ UNCHANGED <<customers, depts, users, req>>

Init ==
  /\ customers = {} /\ depts = [d \in DeptIds |-> NoDept]
  /\ users = [u \in UserIds |-> NoUser]
  /\ req = [r \in Requests |-> NoRequest] /\ removal = NoRemoval

RequestStep(r) ==
  \/ \E u \in UserIds : Begin(r, u) \/ CreateUser(r, u) \/ UpdateUser(r, u)
  \/ Answer(r)
  \/ \E c \in CustomerIds : CreateCustomer(r, c)
  \/ \E d \in DeptIds, c \in CustomerIds, rule \in Rules : CreateDepartment(r, d, c, rule)
  \/ \E d \in DeptIds, rule \in Rules : UpdateDepartment(r, d, rule)
  \/ \E d \in DeptIds : DeleteDepartment(r, d)

CliStep ==
  \/ \E u \in UserIds : CreateSuperadmin(u)
  \/ \E c \in CustomerIds : AddCustomer(c) \/ ReadEmptied(c)
  \/ RemoveCustomer \/ DryRun

Next == (\E r \in Requests : RequestStep(r)) \/ CliStep

Spec == Init /\ [][Next]_vars

-----------------------------------------------------------------------------
(* Properties                                                                *)

(* An account has the memberships of its role and no others, so that a role   *)
(* given later brings none back (admin.py:527-532).                           *)
RoleFits ==
  \A u \in UserIds :
    /\ users[u].role # "customer_admin" => users[u].customers = {}
    /\ users[u].role # "department" => users[u].depts = {}

(* Nothing refers to a row that is gone, whose id the next row will have      *)
(* (db.py:24-32, 49, 130, PRAGMA foreign_keys).                               *)
NothingDangles ==
  /\ \A d \in DeptIds : IsDept(d) => depts[d].customer \in customers
  /\ \A u \in UserIds : /\ users[u].customers \subseteq customers
                        /\ \A d \in users[u].depts : IsDept(d)

AccountsInv == TypeOK /\ RoleFits /\ NothingDangles

(* The principals there are or may be in a moment.                            *)
Principals == {Principal(u, users[u].role) : u \in UserIds}
              \cup {Of(r) : r \in {s \in Requests : Busy(s)}}

(* The reason is a folder of the department that the recording's path is in   *)
(* but for the capitals of letters outside ASCII: Buero, say, written with    *)
(* a small and with a capital u-umlaut.                                       *)
OnlyBeyondAscii(reason, rec) ==
  /\ reason[1] = "folder"
  /\ \E g \in rec.within : g.word = reason[2].word
  /\ \A g \in rec.within : g.word = reason[2].word => g.beyond # reason[2].beyond

(* explain_access has a reason for every recording that scope_sql selects.    *)
(* And it has none for one that scope_sql hides, but in the one case where    *)
(* the two do read the rules differently: every reason is then a folder that  *)
(* str.lower finds and LIKE does not (mcp_server.py:319-368 and 357-358,      *)
(* scope.py:154-156, whose docstring at 107 would have LIKE find it too).     *)
ExplainAgrees ==
  \A p \in Principals, rec \in Recordings :
    LET seen == ScopeSql(p, NoCustomer, rec)
        reasons == Favourable(p, rec)
    IN
    /\ seen => reasons # {}
    /\ seen \/ \A why \in reasons : OnlyBeyondAscii(why, rec)

(* Whatever customer a page asks for, it shows nothing that an unrestricted   *)
(* page would not show, and nothing of another customer than it says          *)
(* (scope.py:160-200, recordings.py:86-90).                                   *)
BrowsingNarrows ==
  \A p \in Principals, asked \in {NoCustomer} \cup CustomerIds, rec \in Recordings :
    LET shown == EffectiveCustomer(p, asked) IN
    /\ ScopeSql(p, asked, rec) => ScopeSql(p, NoCustomer, rec)
    /\ ScopeSql(p, shown, rec) =>
         ScopeSql(p, NoCustomer, rec) /\ shown \in {NoCustomer, rec.customer}

(* A request whose role was read before and whose memberships are read after  *)
(* a change of the account sees no recording that the account could see       *)
(* neither before nor after (security.py:97-137).                             *)
AnswersDoNotWiden ==
  [][\A r \in Requests : Busy(r) /\ req'[r] = req[r] =>
       Sees(Of(r))' \subseteq Sees(Of(r)) \cup Rights(req[r].user)']_<<users, depts>>

(* Who asked: the request that ends in this step, with authority over rec's   *)
(* customer.                                                                  *)
AskedByAuthority(rec) ==
  \E r \in Requests : /\ Busy(r) /\ req'[r] = NoRequest
                      /\ IsAdmin(r) /\ Administers(r, rec.customer)

(* Why rec may come into or leave the access of u: an administrator of its    *)
(* customer changed the account, or a department it is in and stays in; the    *)
(* command line made a superadmin; the customer was removed.                  *)
Accounted(u, rec) ==
  \/ /\ AskedByAuthority(rec)
     /\ \/ users'[u] # users[u]
        \/ \E d \in users[u].depts : /\ depts'[d] # depts[d]
                                     /\ depts'[d].customer = depts[d].customer
  \/ ~ IsUser(u) /\ users'[u].role = "superadmin" /\ req' = req
  \/ removal # NoRemoval /\ removal' = NoRemoval /\ rec \in Access(u)

AccessIsAccounted ==
  \A u \in UserIds :
    LET before == Access(u)
        after == Access(u)'
    IN
    \A rec \in (before \ after) \cup (after \ before) : Accounted(u, rec)

(* No account's access changes for any other reason.  In particular the next  *)
(* row of a freed id inherits nothing, and no customer's administrator        *)
(* changes what an account may see elsewhere (admin.py:469-478, 494-524).     *)
AccessChangesByAuthority == [][AccessIsAccounted]_<<users, depts>>

HasSuperadmin == \E u \in UserIds : users[u].role = "superadmin" /\ users[u].active

(* Once there is an active superadmin there is always one, whichever          *)
(* superadmins demote and disable each other at once (admin.py:592-594); but  *)
(* for remove-customer, which may delete one promoted since it read the list. *)
SuperadminStays ==
  [][HasSuperadmin =>
       HasSuperadmin' \/ \E u \in removal.emptied : users[u].role = "superadmin"]_users
=============================================================================
