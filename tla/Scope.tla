-------------------------------- MODULE Scope --------------------------------
(***************************************************************************)
(* Which recordings a user may see (televault/scope.py), and how the MCP     *)
(* tool explain_access (televault/mcp_server.py) accounts for it.            *)
(*                                                                           *)
(* A recording is [customer, type, target, party, within], where within are  *)
(* the folders its path lies in; a department's rule is [extensions, queues, *)
(* dids, folders]; a principal is [role, customers, rules] with rules a set   *)
(* of [customer, rule].                                                      *)
(*                                                                           *)
(* A folder is a name as it is spelt, [word, ascii, beyond]: the name with    *)
(* every letter made small, which of its ASCII letters are capitals, and      *)
(* which of its other letters.  SQL and Python fold different ones of these.  *)
(***************************************************************************)
EXTENDS Naturals

NoCustomer == 0

Types == {"external", "exten", "internal", "out", "q", "in", "unknown"}
NamesExtension == {"external", "exten", "internal"}   \* target is an extension

-----------------------------------------------------------------------------
(* scope.py                                                                  *)

(* SQLite's LIKE takes the capitals of ASCII, and no others, for small letters. *)
SameToLike(f, g) == f.word = g.word /\ f.beyond = g.beyond

OldTypesClauses(rule, rec) ==   \* planted fault: the older type is forgotten
  \/ rec.party \in rule.extensions
  \/ rec.type \in NamesExtension \ {"exten"} /\ rec.target \in rule.extensions
  \/ rec.type = "q" /\ rec.target \in rule.queues
  \/ rec.type = "in" /\ rec.target \in rule.dids
  \/ \E f \in rule.folders, g \in rec.within : SameToLike(f, g)
RuleClauses(rule, rec) ==
  \/ rec.party \in rule.extensions
  \/ rec.type \in NamesExtension /\ rec.target \in rule.extensions
  \/ rec.type = "q" /\ rec.target \in rule.queues
  \/ rec.type = "in" /\ rec.target \in rule.dids
  \/ \E f \in rule.folders, g \in rec.within : SameToLike(f, g)

(* A rule applies only inside its own customer's recordings. *)
DepartmentPredicate(rules, rec) ==
  \E d \in rules : d.customer = rec.customer /\ RuleClauses(d.rule, rec)

(* narrow is the customer being browsed, or NoCustomer for all. *)
TrustTheNarrow(p, narrow, rec) ==   \* planted fault: no look at whose it is
  IF p.role = "superadmin" THEN narrow \in {NoCustomer, rec.customer}
  ELSE /\ rec.customer \in IF narrow = NoCustomer THEN p.customers ELSE {narrow}
       /\ \/ p.role = "customer_admin"
          \/ p.role = "department" /\ DepartmentPredicate(p.rules, rec)
ScopeSql(p, narrow, rec) ==
  IF p.role = "superadmin" THEN narrow \in {NoCustomer, rec.customer}
  ELSE /\ rec.customer \in p.customers
       /\ narrow \in {NoCustomer, rec.customer}
       /\ \/ p.role = "customer_admin"
          \/ p.role = "department" /\ DepartmentPredicate(p.rules, rec)

(* What others ask for that is not theirs, they get their only customer's for, *)
(* or everything they have.                                                   *)
EffectiveCustomer(p, requested) ==
  IF p.role = "superadmin" \/ requested \in p.customers THEN requested
  ELSE IF \E c \in p.customers : p.customers = {c}
       THEN CHOOSE c \in p.customers : p.customers = {c}
       ELSE NoCustomer

-----------------------------------------------------------------------------
(* explain_access: its reasons, and those among them that speak for seeing.   *)

(* str.lower makes every letter small. *)
SameToLower(f, g) == f.word = g.word

Hits(rule, rec) ==
  {<<"party", rec.party>> : x \in rule.extensions \cap {rec.party}}
  \cup {<<rec.type, rec.target>> :
          x \in IF rec.type \in NamesExtension
                THEN rule.extensions \cap {rec.target} ELSE {}}
  \cup {<<"queue", x>> : x \in IF rec.type = "q" THEN rule.queues \cap {rec.target} ELSE {}}
  \cup {<<"DID", x>> : x \in IF rec.type = "in" THEN rule.dids \cap {rec.target} ELSE {}}
  \cup {<<"folder", x>> :
          x \in {f \in rule.folders : \E g \in rec.within : SameToLower(f, g)}}

Favourable(p, rec) ==
  CASE p.role = "superadmin" -> {<<"superadmin sees every customer">>}
    [] p.role # "superadmin" /\ rec.customer \notin p.customers -> {}
    [] p.role = "customer_admin" /\ rec.customer \in p.customers ->
         {<<"customer admin sees the whole customer drive">>}
    [] OTHER -> UNION {Hits(d.rule, rec) :
                         d \in {e \in p.rules : e.customer = rec.customer}}
=============================================================================
