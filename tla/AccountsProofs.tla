--------------------------- MODULE AccountsProofs ----------------------------
(***************************************************************************)
(* Proofs about Scope and Accounts, for any number of customers,             *)
(* departments, users, requests, rules and recordings.                       *)
(***************************************************************************)
EXTENDS Accounts, TLAPS

-----------------------------------------------------------------------------
(* The scope                                                                 *)

(* Every clause of a rule that selects a recording is among its hits. *)
LEMMA ClausesAreHits ==
  ASSUME NEW rule, NEW rec, RuleClauses(rule, rec)
  PROVE  Hits(rule, rec) # {}
<1>1. CASE rec.party \in rule.extensions
  <2>1. <<"party", rec.party>> \in Hits(rule, rec)  BY <1>1 DEF Hits
  <2> QED  BY <2>1
<1>2. CASE rec.type \in NamesExtension /\ rec.target \in rule.extensions
  <2>1. <<rec.type, rec.target>> \in Hits(rule, rec)  BY <1>2 DEF Hits
  <2> QED  BY <2>1
<1>3. CASE rec.type = "q" /\ rec.target \in rule.queues
  <2>1. <<"queue", rec.target>> \in Hits(rule, rec)  BY <1>3 DEF Hits
  <2> QED  BY <2>1
<1>4. CASE rec.type = "in" /\ rec.target \in rule.dids
  <2>1. <<"DID", rec.target>> \in Hits(rule, rec)  BY <1>4 DEF Hits
  <2> QED  BY <2>1
<1>5. CASE \E f \in rule.folders, g \in rec.within : SameToLike(f, g)
  <2>1. PICK f \in rule.folders, g \in rec.within : SameToLike(f, g)  BY <1>5
  <2>2. SameToLower(f, g)  BY <2>1 DEF SameToLike, SameToLower
  <2>3. <<"folder", f>> \in Hits(rule, rec)  BY <2>2 DEF Hits
  <2> QED  BY <2>3
<1> QED  BY <1>1, <1>2, <1>3, <1>4, <1>5 DEF RuleClauses

(* A hit of a rule that does not select the recording is a folder of it, by   *)
(* the letters that LIKE does not fold.                                       *)
LEMMA HitsWithoutClauses ==
  ASSUME NEW rule, NEW rec, ~ RuleClauses(rule, rec), NEW why \in Hits(rule, rec)
  PROVE  OnlyBeyondAscii(why, rec)
<1>1. /\ rule.extensions \cap {rec.party} = {}
      /\ rec.type \in NamesExtension => rule.extensions \cap {rec.target} = {}
      /\ rec.type = "q" => rule.queues \cap {rec.target} = {}
      /\ rec.type = "in" => rule.dids \cap {rec.target} = {}
  BY DEF RuleClauses
<1>2. PICK f \in rule.folders :
        why = <<"folder", f>> /\ \E g \in rec.within : SameToLower(f, g)
  BY <1>1, Zenon DEF Hits
<1>3. \A g \in rec.within : ~ SameToLike(f, g)
  BY DEF RuleClauses
<1>4. why[1] = "folder" /\ why[2] = f
  BY <1>2
<1> QED  BY <1>2, <1>3, <1>4 DEF OnlyBeyondAscii, SameToLike, SameToLower

(* What explain_access says of a principal and what scope_sql does, for every *)
(* principal of a known role, or with no customer.                            *)
LEMMA ExplanationIsRight ==
  ASSUME NEW p, NEW rec, p.role \in Roles \/ p.customers = {}
  PROVE  /\ ScopeSql(p, NoCustomer, rec) => Favourable(p, rec) # {}
         /\ \/ ScopeSql(p, NoCustomer, rec)
            \/ \A why \in Favourable(p, rec) : OnlyBeyondAscii(why, rec)
<1>1. CASE p.role = "superadmin"
  BY <1>1 DEF ScopeSql, Favourable
<1>2. CASE p.role # "superadmin" /\ rec.customer \notin p.customers
  BY <1>2 DEF ScopeSql, Favourable
<1>3. CASE p.role = "customer_admin" /\ rec.customer \in p.customers
  BY <1>3 DEF ScopeSql, Favourable
<1>4. CASE p.role = "department" /\ rec.customer \in p.customers
  <2> DEFINE R == {e \in p.rules : e.customer = rec.customer}
  <2>1. Favourable(p, rec) = UNION {Hits(d.rule, rec) : d \in R}
    BY <1>4 DEF Favourable
  <2>2. ScopeSql(p, NoCustomer, rec) <=> \E d \in R : RuleClauses(d.rule, rec)
    BY <1>4 DEF ScopeSql, DepartmentPredicate
  <2> HIDE DEF R
  <2>3. CASE \E d \in R : RuleClauses(d.rule, rec)
    BY <2>1, <2>2, <2>3, ClausesAreHits
  <2>4. CASE ~ \E d \in R : RuleClauses(d.rule, rec)
    BY <2>1, <2>2, <2>4, HitsWithoutClauses
  <2> QED  BY <2>3, <2>4
<1> QED  BY <1>1, <1>2, <1>3, <1>4 DEF Roles

(* Narrowing to a customer never adds a recording, and selects only that      *)
(* customer's.                                                                *)
LEMMA NarrowingNarrows ==
  ASSUME NEW p, NEW c, NEW rec, ScopeSql(p, c, rec)
  PROVE  ScopeSql(p, NoCustomer, rec) /\ c \in {NoCustomer, rec.customer}
BY DEF ScopeSql

(* Nobody but a superadmin is ever shown a recording of a customer that is    *)
(* not theirs, and a department never more than its customers' administrator. *)
LEMMA WithinTheirCustomers ==
  ASSUME NEW p, NEW c, NEW rec, p.role # "superadmin", ScopeSql(p, c, rec)
  PROVE  /\ rec.customer \in p.customers
         /\ ScopeSql([role |-> "customer_admin", customers |-> p.customers,
                      rules |-> {}], c, rec)
BY DEF ScopeSql

(* The two readings as invariants of the specification. *)
LEMMA NoRoleNoCustomers ==
  ASSUME NEW u, NEW role, role \notin Roles
  PROVE  Principal(u, role).customers = {}
BY DEF Principal, CustomersOf, Roles

LEMMA ExplainAgreesAlways == ExplainAgrees
<1> SUFFICES ASSUME NEW p \in Principals, NEW rec \in Recordings
             PROVE  /\ ScopeSql(p, NoCustomer, rec) => Favourable(p, rec) # {}
                    /\ \/ ScopeSql(p, NoCustomer, rec)
                       \/ \A why \in Favourable(p, rec) : OnlyBeyondAscii(why, rec)
  BY DEF ExplainAgrees
<1>1. PICK u, role : p = Principal(u, role)
  BY DEF Principals, Of
<1>2. p.role = role
  BY <1>1 DEF Principal
<1>3. p.role \in Roles \/ p.customers = {}
  BY <1>1, <1>2, NoRoleNoCustomers
<1> QED  BY <1>3, ExplanationIsRight

LEMMA BrowsingNarrowsAlways == BrowsingNarrows
BY NarrowingNarrows DEF BrowsingNarrows

(* explain_access explains what scope_sql does, in every state, and what it   *)
(* does not do only where str.lower and LIKE fold a folder's name differently. *)
THEOREM ExplainAgreesHolds == Spec => []ExplainAgrees
BY ExplainAgreesAlways, PTL

(* A page that browses one customer shows nothing else, in every state. *)
THEOREM BrowsingNarrowsHolds == Spec => []BrowsingNarrows
BY BrowsingNarrowsAlways, PTL

-----------------------------------------------------------------------------
(* Types and memberships                                                     *)

LEMMA SomeRuleIsARule == SomeRule \in Rules
BY AccountsAssumption DEF SomeRule

LEMMA NoDeptIsTyped == NoDept \in Dept
BY SomeRuleIsARule DEF NoDept, Dept

(* What _validate_user returns has the memberships of its role. *)
LEMMA NewUsersFit ==
  ASSUME NEW new \in NewUsers
  PROVE  /\ new \in User /\ new.role \in Roles
         /\ new.role # "customer_admin" => new.customers = {}
         /\ new.role # "department" => new.depts = {}
BY DEF NewUsers, User, Roles

(* ... and they exist. *)
LEMMA GrantsExist ==
  ASSUME NEW r, NEW new \in NewUsers, MayGrant(r, new)
  PROVE  new.customers \subseteq customers /\ \A d \in new.depts : IsDept(d)
BY NewUsersFit DEF MayGrant

(* The part of the invariant that is about one account. *)
InOrder(u) ==
  /\ users[u].role # "customer_admin" => users[u].customers = {}
  /\ users[u].role # "department" => users[u].depts = {}
  /\ users[u].customers \subseteq customers
  /\ \A d \in users[u].depts : IsDept(d)

LEMMA InvSplits ==
  AccountsInv <=>
    /\ TypeOK
    /\ \A u \in UserIds : InOrder(u)
    /\ \A d \in DeptIds : IsDept(d) => depts[d].customer \in customers
BY DEF AccountsInv, RoleFits, NothingDangles, InOrder

LEMMA InvInit == Init => AccountsInv
<1> SUFFICES ASSUME Init PROVE AccountsInv
  OBVIOUS
<1>1. TypeOK
  BY NoDeptIsTyped DEF Init, TypeOK, NoUser, User, NoRequest, Request, NoRemoval, Removal
<1>2. \A u \in UserIds : InOrder(u)
  BY DEF Init, InOrder, NoUser
<1>3. \A d \in DeptIds : ~ IsDept(d)
  BY DEF Init, IsDept, NoDept
<1> QED  BY <1>1, <1>2, <1>3, InvSplits

(* A step that leaves accounts, departments and customers alone. *)
LEMMA InvTables ==
  ASSUME AccountsInv, UNCHANGED <<customers, depts, users>>,
         req' \in [Requests -> Request], removal' \in Removal
  PROVE  AccountsInv'
<1>1. TypeOK'
  BY DEF AccountsInv, TypeOK
<1>2. ASSUME NEW u \in UserIds PROVE InOrder(u)'
  BY InvSplits DEF InOrder, IsDept
<1> QED  BY <1>1, <1>2 DEF AccountsInv, RoleFits, NothingDangles, IsDept

LEMMA EndsIsTyped ==
  ASSUME TypeOK, NEW r \in Requests, Ends(r)
  PROVE  req' \in [Requests -> Request]
BY DEF TypeOK, Ends, NoRequest, Request

(* A new customer. *)
LEMMA InvNewCustomer ==
  ASSUME AccountsInv, NEW c \in CustomerIds, customers' = customers \cup {c},
         UNCHANGED <<depts, users, removal>>, req' \in [Requests -> Request]
  PROVE  AccountsInv'
<1>1. TypeOK'
  BY DEF AccountsInv, TypeOK
<1> QED  BY <1>1 DEF AccountsInv, RoleFits, NothingDangles, IsDept

(* One account's row is written. *)
LEMMA InvUser ==
  ASSUME AccountsInv, NEW u \in UserIds, NEW new \in User,
         users' = [users EXCEPT ![u] = new],
         new.role # "customer_admin" => new.customers = {},
         new.role # "department" => new.depts = {},
         new.customers \subseteq customers, \A d \in new.depts : IsDept(d),
         UNCHANGED <<customers, depts, removal>>, req' \in [Requests -> Request]
  PROVE  AccountsInv'
<1>1. TypeOK'
  BY DEF AccountsInv, TypeOK
<1>2. users \in [UserIds -> User]
  BY DEF AccountsInv, TypeOK
<1>3. ASSUME NEW v \in UserIds PROVE users'[v] = IF v = u THEN new ELSE users[v]
  BY <1>2
<1>4. ASSUME NEW v \in UserIds PROVE InOrder(v)'
  BY <1>3, InvSplits DEF InOrder, IsDept
<1> QED  BY <1>1, <1>4 DEF AccountsInv, RoleFits, NothingDangles, IsDept, InOrder

(* Departments ds, of customers cs among others, go with their memberships. *)
LEMMA InvCascade ==
  ASSUME AccountsInv, NEW cs \in SUBSET CustomerIds, NEW ds \in SUBSET DeptIds,
         NEW gone \in SUBSET UserIds,
         {d \in DeptIds : depts[d].customer \in cs} \subseteq ds,
         customers' = customers \ cs,
         depts' = [d \in DeptIds |-> IF d \in ds THEN NoDept ELSE depts[d]],
         users' = [u \in UserIds |-> IF u \in gone THEN NoUser ELSE Cascade(cs, ds)[u]],
         req' \in [Requests -> Request], removal' \in Removal
  PROVE  AccountsInv'
<1>1. /\ depts \in [DeptIds -> Dept] /\ users \in [UserIds -> User]
      /\ customers \subseteq CustomerIds
  BY DEF AccountsInv, TypeOK
<1>2. ASSUME NEW u \in UserIds
      PROVE  /\ users'[u] \in User
             /\ InOrder(u)'
  <2>1. CASE u \in gone
    BY <2>1 DEF InOrder, NoUser, User
  <2>2. CASE u \notin gone
    <3>1. users'[u] = [role |-> users[u].role, active |-> users[u].active,
                       customers |-> users[u].customers \ cs,
                       depts |-> users[u].depts \ ds]
      BY <2>2 DEF Cascade
    <3>2. users[u] \in User /\ InOrder(u)
      BY <1>1, InvSplits
    <3>3. \A d \in users[u].depts \ ds : IsDept(d) /\ d \in DeptIds /\ depts'[d] = depts[d]
      BY <3>2 DEF InOrder, User
    <3> QED  BY <3>1, <3>2, <3>3 DEF InOrder, User, IsDept
  <2> QED  BY <2>1, <2>2
<1>3. depts' \in [DeptIds -> Dept]
  BY <1>1, NoDeptIsTyped
<1>4. TypeOK'
  BY <1>1, <1>2, <1>3 DEF TypeOK
<1>5. ASSUME NEW d \in DeptIds, IsDept(d)' PROVE depts'[d].customer \in customers'
  <2>1. d \notin ds
    BY <1>5 DEF IsDept, NoDept
  <2>2. depts'[d] = depts[d] /\ depts[d].customer \notin cs
    BY <2>1
  <2> QED  BY <2>2, <1>5, InvSplits DEF IsDept
<1> QED  BY <1>2, <1>4, <1>5 DEF AccountsInv, RoleFits, NothingDangles, IsDept, InOrder

LEMMA InvRequest ==
  ASSUME AccountsInv, NEW r \in Requests, RequestStep(r)
  PROVE  AccountsInv'
<1> USE DEF AccountsInv
<1>1. ASSUME NEW u \in UserIds, Begin(r, u) PROVE AccountsInv'
  <2>1. users[u].role \in Roles \cup {"none"}
    BY DEF TypeOK, User
  <2>2. req' \in [Requests -> Request] /\ removal' \in Removal
    BY <1>1, <2>1 DEF TypeOK, Begin, Request
  <2> QED  BY <1>1, <2>2, InvTables DEF Begin
<1>2. ASSUME Answer(r) PROVE AccountsInv'
  BY <1>2, InvTables, EndsIsTyped DEF Answer, TypeOK
<1>3. ASSUME NEW c \in CustomerIds, CreateCustomer(r, c) PROVE AccountsInv'
  BY <1>3, InvNewCustomer, EndsIsTyped DEF CreateCustomer
<1>4. ASSUME NEW d \in DeptIds, NEW c \in CustomerIds, NEW rule \in Rules,
             CreateDepartment(r, d, c, rule)
      PROVE  AccountsInv'
  <2>1. req' \in [Requests -> Request]
    BY <1>4, EndsIsTyped DEF CreateDepartment
  <2>2. [customer |-> c, rule |-> rule] \in Dept /\ c \in customers
        /\ depts' = [depts EXCEPT ![d] = [customer |-> c, rule |-> rule]]
        /\ UNCHANGED <<customers, users, removal>>
    BY <1>4 DEF CreateDepartment, Dept
  <2>3. TypeOK'
    BY <2>1, <2>2 DEF TypeOK
  <2>4. c # NoCustomer /\ depts \in [DeptIds -> Dept]
    BY DEF CustomerIds, NoCustomer, TypeOK
  <2>5. ASSUME NEW e \in DeptIds
        PROVE  depts'[e] = IF e = d THEN [customer |-> c, rule |-> rule] ELSE depts[e]
    BY <2>2, <2>4
  <2>6. users \in [UserIds -> User] /\ users' = users /\ customers' = customers
    BY <2>2 DEF TypeOK
  <2>7. ASSUME NEW u \in UserIds PROVE InOrder(u)'
    <3>1. InOrder(u) /\ users[u].depts \subseteq DeptIds
      BY <2>6, InvSplits DEF User
    <3> QED  BY <3>1, <2>4, <2>5, <2>6 DEF InOrder, IsDept
  <2> QED  BY <2>2, <2>3, <2>5, <2>7, InvSplits
           DEF RoleFits, NothingDangles, IsDept, InOrder
<1>5. ASSUME NEW d \in DeptIds, NEW rule \in Rules, UpdateDepartment(r, d, rule)
      PROVE  AccountsInv'
  <2>1. req' \in [Requests -> Request]
    BY <1>5, EndsIsTyped DEF UpdateDepartment
  <2>2. /\ depts' = [depts EXCEPT ![d] = [customer |-> depts[d].customer, rule |-> rule]]
        /\ UNCHANGED <<customers, users, removal>>
    BY <1>5 DEF UpdateDepartment
  <2>3. depts \in [DeptIds -> Dept] /\ users \in [UserIds -> User]
    BY DEF TypeOK
  <2>4. [customer |-> depts[d].customer, rule |-> rule] \in Dept
    BY <2>3 DEF Dept
  <2>5. ASSUME NEW e \in DeptIds
        PROVE  depts'[e].customer = depts[e].customer
    BY <2>2, <2>3
  <2>6. TypeOK'
    BY <2>1, <2>2, <2>4 DEF TypeOK
  <2>7. ASSUME NEW u \in UserIds PROVE InOrder(u)'
    <3>1. InOrder(u) /\ users[u].depts \subseteq DeptIds
      BY <2>3, InvSplits DEF User
    <3> QED  BY <3>1, <2>2, <2>5 DEF InOrder, IsDept
  <2> QED  BY <2>2, <2>5, <2>6, <2>7, InvSplits
           DEF RoleFits, NothingDangles, IsDept, InOrder
<1>6. ASSUME NEW d \in DeptIds, DeleteDepartment(r, d) PROVE AccountsInv'
  <2>1. req' \in [Requests -> Request] /\ removal' \in Removal
    BY <1>6, EndsIsTyped DEF DeleteDepartment, TypeOK
  <2>2. customers' = customers \ {} /\ depts' = [depts EXCEPT ![d] = NoDept]
        /\ users' = Cascade({}, {d})
    BY <1>6 DEF DeleteDepartment
  <2>3. depts' = [e \in DeptIds |-> IF e \in {d} THEN NoDept ELSE depts[e]]
    BY <2>2 DEF TypeOK
  <2>4. users' = [u \in UserIds |-> IF u \in {} THEN NoUser ELSE Cascade({}, {d})[u]]
    BY <2>2 DEF Cascade
  <2>5. {e \in DeptIds : depts[e].customer \in {}} \subseteq {d}
    OBVIOUS
  <2>6. {} \in SUBSET CustomerIds /\ {d} \in SUBSET DeptIds /\ {} \in SUBSET UserIds
    OBVIOUS
  <2> QED  BY <2>1, <2>2, <2>3, <2>4, <2>5, <2>6, InvCascade
<1>7. ASSUME NEW u \in UserIds, CreateUser(r, u) PROVE AccountsInv'
  <2>1. PICK new \in NewUsers : MayGrant(r, new) /\ users' = [users EXCEPT ![u] = new]
    BY <1>7 DEF CreateUser
  <2> QED  BY <2>1, <1>7, NewUsersFit, GrantsExist, InvUser, EndsIsTyped DEF CreateUser
<1>8. ASSUME NEW u \in UserIds, UpdateUser(r, u) PROVE AccountsInv'
  <2>1. PICK new \in NewUsers : MayUpdate(r, u, new) /\ users' = [users EXCEPT ![u] = new]
    BY <1>8 DEF UpdateUser
  <2>2. MayGrant(r, new)
    BY <2>1 DEF MayUpdate
  <2> QED  BY <2>1, <2>2, <1>8, NewUsersFit, GrantsExist, InvUser, EndsIsTyped
           DEF UpdateUser
<1> QED  BY <1>1, <1>2, <1>3, <1>4, <1>5, <1>6, <1>7, <1>8 DEF RequestStep

LEMMA InvCli ==
  ASSUME AccountsInv, CliStep
  PROVE  AccountsInv'
<1> USE DEF AccountsInv
<1>1. ASSUME NEW u \in UserIds, CreateSuperadmin(u) PROVE AccountsInv'
  <2> DEFINE new == [role |-> "superadmin", active |-> TRUE,
                     customers |-> {}, depts |-> {}]
  <2>1. new \in User
    BY DEF User, Roles
  <2>2. users' = [users EXCEPT ![u] = new] /\ req' = req
        /\ UNCHANGED <<customers, depts, removal>>
    BY <1>1 DEF CreateSuperadmin
  <2>3. req' \in [Requests -> Request]
    BY <2>2 DEF TypeOK
  <2> QED  BY <2>1, <2>2, <2>3, InvUser
<1>2. ASSUME NEW c \in CustomerIds, AddCustomer(c) PROVE AccountsInv'
  <2>1. req' \in [Requests -> Request]
    BY <1>2 DEF AddCustomer, TypeOK
  <2> QED  BY <1>2, <2>1, InvNewCustomer DEF AddCustomer
<1>3. ASSUME NEW c \in CustomerIds, ReadEmptied(c) PROVE AccountsInv'
  <2>1. removal' \in Removal /\ req' \in [Requests -> Request]
    BY <1>3 DEF ReadEmptied, Removal, TypeOK
  <2> QED  BY <1>3, <2>1, InvTables DEF ReadEmptied
<1>4. ASSUME RemoveCustomer PROVE AccountsInv'
  <2> DEFINE c == removal.customer
             cs == {c} \cap CustomerIds
             ds == DeptsOf(c)
             gone == removal.emptied
  <2>1. removal \in Removal /\ customers \subseteq CustomerIds
        /\ depts \in [DeptIds -> Dept] /\ users \in [UserIds -> User]
    BY DEF TypeOK
  <2>2. customers' = customers \ {c}
        /\ depts' = [d \in DeptIds |-> IF d \in ds THEN NoDept ELSE depts[d]]
        /\ users' = [u \in UserIds |-> IF u \in gone THEN NoUser ELSE Cascade({c}, ds)[u]]
        /\ removal' = NoRemoval /\ req' = req
    BY <1>4 DEF RemoveCustomer
  <2>3. Cascade({c}, ds) = Cascade(cs, ds)
    <3>1. ASSUME NEW u \in UserIds PROVE users[u].customers \ {c} = users[u].customers \ cs
      <4>1. users[u].customers \subseteq CustomerIds
        BY <2>1 DEF User
      <4> QED  BY <4>1
    <3> QED  BY <3>1 DEF Cascade
  <2>4. customers' = customers \ cs
    BY <2>1, <2>2
  <2>5. {d \in DeptIds : depts[d].customer \in cs} \subseteq ds
    BY DEF DeptsOf
  <2>6. cs \in SUBSET CustomerIds /\ ds \in SUBSET DeptIds /\ gone \in SUBSET UserIds
    BY <2>1 DEF DeptsOf, Removal
  <2>7. req' \in [Requests -> Request] /\ removal' \in Removal
    BY <2>2 DEF TypeOK, NoRemoval, Removal
  <2> HIDE DEF c, cs, ds, gone
  <2> QED  BY <2>2, <2>3, <2>4, <2>5, <2>6, <2>7, InvCascade
<1>5. ASSUME DryRun PROVE AccountsInv'
  <2>1. removal' \in Removal /\ req' \in [Requests -> Request]
    BY <1>5 DEF DryRun, NoRemoval, Removal, TypeOK
  <2> QED  BY <1>5, <2>1, InvTables DEF DryRun
<1> QED  BY <1>1, <1>2, <1>3, <1>4, <1>5 DEF CliStep

LEMMA InvStep == AccountsInv /\ [Next]_vars => AccountsInv'
<1> SUFFICES ASSUME AccountsInv, [Next]_vars PROVE AccountsInv'
  OBVIOUS
<1>1. CASE UNCHANGED vars
  BY <1>1, InvTables DEF vars, AccountsInv, TypeOK
<1>2. CASE Next
  BY <1>2, InvRequest, InvCli DEF Next
<1> QED  BY <1>1, <1>2

(* Accounts have the memberships of their roles, and nothing refers to a row  *)
(* that is gone.                                                              *)
THEOREM AccountsInvHolds == Spec => []AccountsInv
BY InvInit, InvStep, PTL DEF Spec

-----------------------------------------------------------------------------
(* A request overtaken by a change of its account                            *)

(* The memberships of an account, read for a role that is not its own, entitle *)
(* to nothing.                                                                *)
ReadingsAreWithin ==
  \A u \in UserIds, role \in Roles \cup {"none"} :
    role # "superadmin" => Sees(Principal(u, role)) \subseteq Rights(u)

LEMMA SeesIs ==
  ASSUME NEW p
  PROVE  Sees(p) = {rec \in Recordings : ScopeSql(p, NoCustomer, rec)}
BY DEF Sees

LEMMA MixedReadings == AccountsInv => ReadingsAreWithin
<1> SUFFICES ASSUME AccountsInv, NEW u \in UserIds, NEW role \in Roles \cup {"none"},
                    role # "superadmin"
             PROVE  Sees(Principal(u, role)) \subseteq Rights(u)
  BY DEF ReadingsAreWithin
<1>1. CASE role = users[u].role
  BY <1>1 DEF Rights
<1>2. CASE role # users[u].role
  <2>1. CustomersOf(u, role) = {}
    BY <1>2, InvSplits DEF InOrder, CustomersOf, CustomersOfDepts
  <2>2. ASSUME NEW rec PROVE ~ ScopeSql(Principal(u, role), NoCustomer, rec)
    BY <2>1 DEF ScopeSql, Principal
  <2>3. Sees(Principal(u, role)) = {}
    BY <2>2, SeesIs
  <2> QED  BY <2>3
<1> QED  BY <1>1, <1>2

LEMMA WidensNot ==
  ASSUME TypeOK, ReadingsAreWithin',
         NEW r \in Requests, Busy(r), req'[r] = req[r]
  PROVE  Sees(Of(r))' \subseteq Sees(Of(r)) \cup Rights(req[r].user)'
<1> DEFINE u == req[r].user
           role == req[r].role
<1>1. u \in UserIds /\ role \in Roles \cup {"none"}
  BY DEF TypeOK, Request, Busy
<1>2. CASE role = "superadmin"
  <2>1. Recordings \subseteq Sees(Of(r))
    BY <1>2 DEF Sees, Of, Principal, ScopeSql
  <2>2. Sees(Of(r))' \subseteq Recordings
    BY DEF Sees
  <2> QED  BY <2>1, <2>2
<1>3. CASE role # "superadmin"
  <2>1. Sees(Principal(u, role))' \subseteq Rights(u)'
    BY <1>1, <1>3 DEF ReadingsAreWithin
  <2>2. Sees(Of(r))' = Sees(Principal(u, role))'
    BY DEF Of
  <2> QED  BY <2>1, <2>2
<1> QED  BY <1>2, <1>3

(* A request sees nothing that its account can see neither before nor after a *)
(* change that overtakes it.                                                  *)
THEOREM AnswersDoNotWidenHolds == Spec => AnswersDoNotWiden
<1>1. TypeOK /\ ReadingsAreWithin' =>
        (\A r \in Requests : Busy(r) /\ req'[r] = req[r] =>
           Sees(Of(r))' \subseteq Sees(Of(r)) \cup Rights(req[r].user)')
  BY WidensNot
<1>2. AccountsInv => TypeOK
  BY DEF AccountsInv
<1> QED  BY <1>1, <1>2, MixedReadings, AccountsInvHolds, PTL
         DEF Spec, AnswersDoNotWiden

-----------------------------------------------------------------------------
(* The last superadmin                                                       *)

LEMMA SuperadminStaysStep ==
  ASSUME TypeOK, [Next]_vars, HasSuperadmin, ~ HasSuperadmin'
  PROVE  \E u \in removal.emptied : users[u].role = "superadmin"
<1>1. PICK w \in UserIds : users[w].role = "superadmin" /\ users[w].active
  BY DEF HasSuperadmin
<1>2. users \in [UserIds -> User]
  BY DEF TypeOK
<1>3. ASSUME users' = users PROVE FALSE
  BY <1>3 DEF HasSuperadmin
<1>4. ASSUME NEW cs, NEW ds, users' = Cascade(cs, ds) PROVE FALSE
  <2>1. users'[w].role = "superadmin" /\ users'[w].active
    BY <1>1, <1>4 DEF Cascade
  <2> QED  BY <2>1 DEF HasSuperadmin
<1>5. ASSUME NEW u \in UserIds, NEW new, ~ IsUser(u) \/ (new.role = "superadmin" /\ new.active),
             users' = [users EXCEPT ![u] = new]
      PROVE FALSE
  <2>1. CASE u = w
    <3>1. users'[u].role = "superadmin" /\ users'[u].active
      BY <1>1, <1>2, <1>5, <2>1 DEF IsUser
    <3> QED  BY <3>1 DEF HasSuperadmin
  <2>2. CASE u # w
    <3>1. users'[w] = users[w]
      BY <1>2, <1>5, <2>2
    <3> QED  BY <1>1, <3>1 DEF HasSuperadmin
  <2> QED  BY <2>1, <2>2
<1>6. ASSUME NEW r \in Requests, NEW u \in UserIds, UpdateUser(r, u) PROVE FALSE
  <2>1. PICK new \in NewUsers : MayUpdate(r, u, new) /\ users' = [users EXCEPT ![u] = new]
    BY <1>6 DEF UpdateUser
  <2>2. CASE u # w
    <3>1. users'[w] = users[w]
      BY <1>2, <2>1, <2>2
    <3> QED  BY <1>1, <3>1 DEF HasSuperadmin
  <2>3. CASE u = w /\ ~ Demotes(u, new)
    <3>1. new.role = "superadmin" /\ new.active
      BY <1>1, <2>3 DEF Demotes
    <3> QED  BY <1>5, <2>1, <3>1
  <2>4. CASE Demotes(u, new)
    <3>1. PICK v \in UserIds : IsOtherSuperadmin(v, u)
      BY <2>1, <2>4 DEF MayUpdate, OtherActiveSuperadmin
    <3>2. users'[v] = users[v]
      BY <1>2, <2>1, <3>1 DEF IsOtherSuperadmin
    <3> QED  BY <3>1, <3>2 DEF HasSuperadmin, IsOtherSuperadmin
  <2> QED  BY <2>2, <2>3, <2>4
<1>7. ASSUME NEW r \in Requests, NEW u \in UserIds, CreateUser(r, u) PROVE FALSE
  <2>1. PICK new \in NewUsers : users' = [users EXCEPT ![u] = new]
    BY <1>7 DEF CreateUser
  <2>2. ~ IsUser(u)
    BY <1>7 DEF CreateUser, NextId
  <2> QED  BY <1>5, <2>1, <2>2
<1>8. ASSUME NEW u \in UserIds, CreateSuperadmin(u) PROVE FALSE
  <2>1. users' = [users EXCEPT ![u] = [role |-> "superadmin", active |-> TRUE,
                                       customers |-> {}, depts |-> {}]]
    BY <1>8 DEF CreateSuperadmin
  <2> QED  BY <1>5, <2>1
<1>9. ASSUME RemoveCustomer PROVE \E u \in removal.emptied : users[u].role = "superadmin"
  <2> DEFINE c == removal.customer
  <2>1. users' = [u \in UserIds |-> IF u \in removal.emptied THEN NoUser
                                    ELSE Cascade({c}, DeptsOf(c))[u]]
    BY <1>9 DEF RemoveCustomer
  <2>2. CASE w \in removal.emptied
    BY <1>1, <2>2
  <2>3. CASE w \notin removal.emptied
    <3>1. users'[w].role = "superadmin" /\ users'[w].active
      BY <1>1, <2>1, <2>3 DEF Cascade
    <3> QED  BY <3>1 DEF HasSuperadmin
  <2> QED  BY <2>2, <2>3
<1>10. ASSUME NEW r \in Requests, RequestStep(r) PROVE FALSE
  <2>1. \/ \E u \in UserIds : CreateUser(r, u) \/ UpdateUser(r, u)
        \/ \E d \in DeptIds : DeleteDepartment(r, d)
        \/ users' = users
    BY <1>10 DEF RequestStep, Begin, Answer, CreateCustomer, CreateDepartment,
                 UpdateDepartment
  <2>2. ASSUME NEW d \in DeptIds, DeleteDepartment(r, d) PROVE FALSE
    BY <1>4, <2>2 DEF DeleteDepartment
  <2> QED  BY <1>3, <1>6, <1>7, <2>1, <2>2
<1>11. CASE CliStep
  BY <1>3, <1>8, <1>9, <1>11 DEF CliStep, AddCustomer, ReadEmptied, DryRun
<1> QED  BY <1>3, <1>10, <1>11 DEF Next, vars

(* There is always an active superadmin once there is one, but for a removal  *)
(* that deletes one it has read as somebody else.                             *)
THEOREM SuperadminStaysHolds == Spec => SuperadminStays
<1>1. TypeOK /\ [Next]_vars =>
        (HasSuperadmin =>
           HasSuperadmin' \/ \E u \in removal.emptied : users[u].role = "superadmin")
  BY SuperadminStaysStep
<1>2. AccountsInv => TypeOK
  BY DEF AccountsInv
<1> QED  BY <1>1, <1>2, AccountsInvHolds, PTL DEF Spec, SuperadminStays

-----------------------------------------------------------------------------
(* Who changes what an account has access to                                 *)

(* Access, written out: *)
Reaches(u, rec) ==
  \/ users[u].role = "superadmin"
  \/ users[u].role = "customer_admin" /\ rec.customer \in users[u].customers
  \/ /\ users[u].role = "department"
     /\ \E d \in users[u].depts : /\ depts[d].customer = rec.customer
                                  /\ RuleClauses(depts[d].rule, rec)

AccessIsReach ==
  \A u \in UserIds, rec \in Recordings :
    rec \in Access(u) <=> users[u].active /\ Reaches(u, rec)

LEMMA ReachIsAccess == AccessIsReach
<1> SUFFICES ASSUME NEW u \in UserIds, NEW rec \in Recordings
             PROVE  rec \in Access(u) <=> users[u].active /\ Reaches(u, rec)
  BY DEF AccessIsReach
<1> DEFINE p == Principal(u, users[u].role)
<1>1. rec \in Rights(u) <=> ScopeSql(p, NoCustomer, rec)
  BY SeesIs DEF Rights
<1>2. DepartmentPredicate(p.rules, rec) <=>
        \E d \in users[u].depts : /\ depts[d].customer = rec.customer
                                  /\ RuleClauses(depts[d].rule, rec)
  BY DEF Principal, DepartmentPredicate
<1>3. ScopeSql(p, NoCustomer, rec) <=> Reaches(u, rec)
  <2>1. CASE users[u].role = "superadmin"
    BY <2>1 DEF ScopeSql, Principal, Reaches
  <2>2. CASE users[u].role = "customer_admin"
    BY <2>2 DEF ScopeSql, Principal, Reaches, CustomersOf
  <2>3. CASE users[u].role = "department"
    <3>1. p.customers = {depts[d].customer : d \in users[u].depts} /\ p.role = "department"
      BY <2>3 DEF Principal, CustomersOf, CustomersOfDepts
    <3>2. ScopeSql(p, NoCustomer, rec) <=>
            rec.customer \in p.customers /\ DepartmentPredicate(p.rules, rec)
      BY <3>1 DEF ScopeSql
    <3> HIDE DEF p
    <3> QED  BY <1>2, <2>3, <3>1, <3>2 DEF Reaches
  <2>4. CASE users[u].role \notin Roles
    BY <2>4 DEF ScopeSql, Principal, Reaches, Roles, CustomersOf
  <2> QED  BY <2>1, <2>2, <2>3, <2>4 DEF Roles
<1> QED  BY <1>1, <1>3 DEF Access

LEMMA AccessIsOfRecordings ==
  ASSUME NEW u
  PROVE  Access(u) \subseteq Recordings /\ Access(u)' \subseteq Recordings
BY DEF Access, Rights, Sees

(* Nothing changes for an account whose row and departments stay. *)
LEMMA SameReach ==
  ASSUME NEW u, NEW rec, users'[u] = users[u],
         \A d \in users[u].depts : depts'[d] = depts[d]
  PROVE  Reaches(u, rec)' <=> Reaches(u, rec)
BY DEF Reaches

(* What a request may grant reaches only its own customers. *)
LEMMA GrantsAreTheirs ==
  ASSUME NEW r, NEW new \in NewUsers, MayGrant(r, new), NEW u, NEW rec,
         users'[u] = new, depts' = depts, Reaches(u, rec)'
  PROVE  Administers(r, rec.customer)
<1>1. CASE req[r].role = "superadmin"
  BY <1>1 DEF Administers
<1>2. CASE req[r].role # "superadmin"
  <2>1. new.role = "department" /\ \A d \in new.depts : depts[d].customer \in Theirs(r)
    BY <1>2 DEF MayGrant
  <2>2. PICK d \in new.depts : depts[d].customer = rec.customer
    BY <2>1 DEF Reaches
  <2> QED  BY <2>1, <2>2 DEF Administers
<1> QED  BY <1>1, <1>2

(* So does what is taken from an account that may be managed. *)
LEMMA ManagedAreTheirs ==
  ASSUME NEW r, NEW u, Manageable(r, u), NEW rec, Reaches(u, rec)
  PROVE  Administers(r, rec.customer)
BY DEF Manageable, Administers, Reaches, CustomersOf, CustomersOfDepts

LEMMA AccessRequest ==
  ASSUME AccountsInv, AccessIsReach, AccessIsReach',
         NEW r \in Requests, RequestStep(r),
         NEW u \in UserIds, NEW rec \in Recordings,
         ~ (rec \in Access(u) <=> rec \in Access(u)')
  PROVE  Accounted(u, rec)
<1>1. ~ ((users[u].active /\ Reaches(u, rec)) <=> (users'[u].active /\ Reaches(u, rec)'))
  BY DEF AccessIsReach
<1>2. /\ users \in [UserIds -> User] /\ depts \in [DeptIds -> Dept]
      /\ InOrder(u) /\ users[u].depts \subseteq DeptIds
  BY InvSplits DEF TypeOK, User
<1>3. ASSUME users'[u] = users[u], \A d \in users[u].depts : depts'[d] = depts[d]
      PROVE  FALSE
  BY <1>1, <1>3, SameReach
<1>4. ASSUME Ends(r), IsAdmin(r), Administers(r, rec.customer) PROVE AskedByAuthority(rec)
  <2>1. Busy(r) /\ (req'[r] = NoRequest \/ r \notin DOMAIN req)
    BY <1>4 DEF Ends
  <2>2. DOMAIN req = Requests
    BY DEF AccountsInv, TypeOK
  <2> QED  BY <1>4, <2>1, <2>2 DEF AskedByAuthority
<1>5. ASSUME NEW v \in UserIds, CreateUser(r, v) PROVE Accounted(u, rec)
  <2>1. PICK new \in NewUsers : MayGrant(r, new) /\ users' = [users EXCEPT ![v] = new]
    BY <1>5 DEF CreateUser
  <2>2. Ends(r) /\ IsAdmin(r) /\ ~ IsUser(v) /\ depts' = depts
    BY <1>5 DEF CreateUser, NextId
  <2>3. v = u
    BY <1>2, <1>3, <2>1, <2>2
  <2>4. users'[u] = new /\ users'[u] # users[u]
    BY <1>2, <1>3, <2>1, <2>2, <2>3
  <2>5. ~ Reaches(u, rec)
    BY <2>2, <2>3 DEF IsUser, Reaches
  <2>6. Reaches(u, rec)'
    BY <1>1, <2>5
  <2>7. Administers(r, rec.customer)
    BY <2>1, <2>2, <2>4, <2>6, GrantsAreTheirs
  <2> QED  BY <1>4, <2>2, <2>4, <2>7 DEF Accounted
<1>6. ASSUME NEW v \in UserIds, UpdateUser(r, v) PROVE Accounted(u, rec)
  <2>1. PICK new \in NewUsers : MayUpdate(r, v, new) /\ users' = [users EXCEPT ![v] = new]
    BY <1>6 DEF UpdateUser
  <2>2. Ends(r) /\ IsAdmin(r) /\ Manageable(r, v) /\ MayGrant(r, new) /\ depts' = depts
    BY <1>6, <2>1 DEF UpdateUser, MayUpdate
  <2>3. v = u
    BY <1>2, <1>3, <2>1, <2>2
  <2>4. users'[u] = new /\ users'[u] # users[u]
    BY <1>2, <1>3, <2>1, <2>2, <2>3
  <2>5. Administers(r, rec.customer)
    <3>1. CASE Reaches(u, rec)
      BY <2>2, <2>3, <3>1, ManagedAreTheirs
    <3>2. CASE ~ Reaches(u, rec)
      <4>1. Reaches(u, rec)'
        BY <1>1, <3>2
      <4> QED  BY <2>2, <2>4, <4>1, GrantsAreTheirs
    <3> QED  BY <3>1, <3>2
  <2> QED  BY <1>4, <2>2, <2>4, <2>5 DEF Accounted
<1>7. ASSUME NEW d \in DeptIds, NEW c \in CustomerIds, NEW rule \in Rules,
             CreateDepartment(r, d, c, rule)
      PROVE  FALSE
  <2>1. ~ IsDept(d) /\ users' = users
        /\ depts' = [depts EXCEPT ![d] = [customer |-> c, rule |-> rule]]
    BY <1>7 DEF CreateDepartment, NextId
  <2>2. d \notin users[u].depts
    BY <1>2, <2>1 DEF InOrder
  <2> QED  BY <1>2, <1>3, <2>1, <2>2
<1>8. ASSUME NEW d \in DeptIds, NEW rule \in Rules, UpdateDepartment(r, d, rule)
      PROVE  Accounted(u, rec)
  <2>1. /\ Ends(r) /\ IsAdmin(r) /\ Administers(r, depts[d].customer) /\ users' = users
        /\ depts' = [depts EXCEPT ![d] = [customer |-> depts[d].customer, rule |-> rule]]
    BY <1>8 DEF UpdateDepartment
  <2>2. \A e \in DeptIds \ {d} : depts'[e] = depts[e]
    BY <1>2, <2>1
  <2>3. d \in users[u].depts /\ depts'[d] # depts[d]
    BY <1>2, <1>3, <2>1, <2>2
  <2>4. depts'[d].customer = depts[d].customer
    BY <1>2, <2>1
  <2>5. depts[d].customer = rec.customer
    <3>1. ASSUME depts[d].customer # rec.customer PROVE Reaches(u, rec)' <=> Reaches(u, rec)
      <4>1. \A e \in users[u].depts :
              /\ depts'[e].customer = depts[e].customer
              /\ depts[e].customer = rec.customer => depts'[e] = depts[e]
        BY <1>2, <2>2, <2>4, <3>1
      <4> QED  BY <2>1, <4>1 DEF Reaches
    <3> QED  BY <1>1, <2>1, <3>1
  <2> QED  BY <1>4, <2>1, <2>3, <2>4, <2>5 DEF Accounted
<1>9. ASSUME NEW d \in DeptIds, DeleteDepartment(r, d) PROVE Accounted(u, rec)
  <2>1. /\ Ends(r) /\ IsAdmin(r) /\ Administers(r, depts[d].customer)
        /\ users' = Cascade({}, {d}) /\ depts' = [depts EXCEPT ![d] = NoDept]
    BY <1>9 DEF DeleteDepartment
  <2>2. users'[u] = [role |-> users[u].role, active |-> users[u].active,
                     customers |-> users[u].customers \ {},
                     depts |-> users[u].depts \ {d}]
    BY <2>1 DEF Cascade
  <2>3. \A e \in DeptIds \ {d} : depts'[e] = depts[e]
    BY <1>2, <2>1
  <2>4. d \in users[u].depts
    <3>1. ASSUME d \notin users[u].depts PROVE users'[u] = users[u]
      BY <1>2, <2>2, <3>1 DEF User
    <3> QED  BY <1>2, <1>3, <2>3, <3>1
  <2>5. users'[u] # users[u]
    BY <2>2, <2>4
  <2>6. depts[d].customer = rec.customer
    <3>1. ASSUME depts[d].customer # rec.customer PROVE Reaches(u, rec)' <=> Reaches(u, rec)
      <4>1. /\ users'[u].role = users[u].role /\ users'[u].customers = users[u].customers
            /\ users'[u].depts = users[u].depts \ {d}
        BY <2>2
      <4>2. \A e \in users[u].depts \ {d} : depts'[e] = depts[e]
        BY <1>2, <2>3
      <4> QED  BY <3>1, <4>1, <4>2 DEF Reaches
    <3> QED  BY <1>1, <2>2, <3>1
  <2> QED  BY <1>4, <2>1, <2>5, <2>6 DEF Accounted
<1>10. ASSUME UNCHANGED <<users, depts>> PROVE FALSE
  BY <1>3, <1>10
<1> QED  BY <1>5, <1>6, <1>7, <1>8, <1>9, <1>10
         DEF RequestStep, Begin, Answer, CreateCustomer

LEMMA AccessCli ==
  ASSUME AccountsInv, AccessIsReach, AccessIsReach', CliStep,
         NEW u \in UserIds, NEW rec \in Recordings,
         ~ (rec \in Access(u) <=> rec \in Access(u)')
  PROVE  Accounted(u, rec)
<1>1. ~ ((users[u].active /\ Reaches(u, rec)) <=> (users'[u].active /\ Reaches(u, rec)'))
  BY DEF AccessIsReach
<1>2. /\ users \in [UserIds -> User] /\ depts \in [DeptIds -> Dept]
      /\ users[u].depts \subseteq DeptIds
  BY DEF AccountsInv, TypeOK, User
<1>3. ASSUME NEW v \in UserIds, CreateSuperadmin(v) PROVE Accounted(u, rec)
  <2>1. /\ ~ IsUser(v) /\ depts' = depts /\ req' = req
        /\ users' = [users EXCEPT ![v] = [role |-> "superadmin", active |-> TRUE,
                                          customers |-> {}, depts |-> {}]]
    BY <1>3 DEF CreateSuperadmin, NextId
  <2>2. CASE v = u
    BY <1>2, <2>1, <2>2 DEF Accounted
  <2>3. CASE v # u
    <3>1. users'[u] = users[u]
      BY <1>2, <2>1, <2>3
    <3> QED  BY <1>1, <2>1, <3>1, SameReach
  <2> QED  BY <2>2, <2>3
<1>4. ASSUME RemoveCustomer PROVE Accounted(u, rec)
  <2> DEFINE c == removal.customer
  <2>1. /\ removal # NoRemoval /\ removal' = NoRemoval
        /\ depts' = [d \in DeptIds |-> IF d \in DeptsOf(c) THEN NoDept ELSE depts[d]]
        /\ users' = [v \in UserIds |-> IF v \in removal.emptied THEN NoUser
                                       ELSE Cascade({c}, DeptsOf(c))[v]]
    BY <1>4 DEF RemoveCustomer
  <2>2. ASSUME users'[u].active, Reaches(u, rec)'
        PROVE  users[u].active /\ Reaches(u, rec)
    <3>1. u \notin removal.emptied
      BY <2>1, <2>2 DEF NoUser
    <3>2. users'[u] = [role |-> users[u].role, active |-> users[u].active,
                       customers |-> users[u].customers \ {c},
                       depts |-> users[u].depts \ DeptsOf(c)]
      BY <2>1, <3>1 DEF Cascade
    <3>3. /\ users'[u].role = users[u].role /\ users'[u].active = users[u].active
          /\ users'[u].customers \subseteq users[u].customers
          /\ users'[u].depts = users[u].depts \ DeptsOf(c)
      BY <3>2
    <3>4. \A d \in users[u].depts \ DeptsOf(c) : depts'[d] = depts[d]
      BY <1>2, <2>1
    <3> QED  BY <2>2, <3>3, <3>4 DEF Reaches
  <2>3. rec \in Access(u)
    BY <1>1, <2>2 DEF AccessIsReach
  <2> QED  BY <2>1, <2>3 DEF Accounted
<1>5. ASSUME UNCHANGED <<users, depts>> PROVE FALSE
  BY <1>1, <1>5, SameReach
<1> QED  BY <1>3, <1>4, <1>5 DEF CliStep, AddCustomer, ReadEmptied, DryRun

LEMMA AccessStepHolds ==
  ASSUME AccountsInv, AccessIsReach, AccessIsReach', Next
  PROVE  AccessIsAccounted
<1> SUFFICES ASSUME NEW u \in UserIds,
                    NEW rec \in (Access(u) \ Access(u)') \cup (Access(u)' \ Access(u))
             PROVE  Accounted(u, rec)
  BY DEF AccessIsAccounted
<1>1. rec \in Recordings /\ ~ (rec \in Access(u) <=> rec \in Access(u)')
  BY AccessIsOfRecordings
<1>2. ASSUME NEW r \in Requests, RequestStep(r) PROVE Accounted(u, rec)
  BY <1>1, <1>2, AccessRequest
<1>3. ASSUME CliStep PROVE Accounted(u, rec)
  BY <1>1, <1>3, AccessCli
<1> QED  BY <1>2, <1>3 DEF Next

(* Access comes and goes only by administrators of the customers concerned,   *)
(* the command line, and removals; freed ids inherit nothing.                 *)
THEOREM AccessChangesByAuthorityHolds == Spec => AccessChangesByAuthority
<1>1. AccountsInv /\ AccessIsReach /\ AccessIsReach' /\ Next => AccessIsAccounted
  BY AccessStepHolds
<1>2. AccessIsReach
  BY ReachIsAccess
<1>3. UNCHANGED vars => UNCHANGED <<users, depts>>
  BY DEF vars
<1> QED  BY <1>1, <1>2, <1>3, AccountsInvHolds, PTL DEF Spec, AccessChangesByAuthority
=============================================================================
