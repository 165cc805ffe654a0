------------------------------- MODULE Accounts -------------------------------
(***************************************************************************)
(* User accounts and the guest orders linked to them: registration         *)
(* (app/api/v1/auth.py), accounts made and roles changed by super admins   *)
(* (app/api/v1/users.py), and the super admin every worker makes sure of   *)
(* when it starts (app/core/init_superadmin.py, app/main.py).              *)
(*                                                                         *)
(* Whoever creates an account selects its e-mail, then inserts; only the   *)
(* unique index keeps two from succeeding.  A registration then links, in  *)
(* the same transaction, the guest orders committed under that e-mail.     *)
(* A super admin's role is read when a request starts and not again.       *)
(***************************************************************************)
EXTENDS FiniteSets

CONSTANTS
  Requests,  \* POST /auth/register, /auth/register-buyer and /users
  Workers,   \* server processes; each runs ensure_superadmin when it starts
  Changes,   \* PATCH /users/{id}/role requests
  Orders,    \* orders that checkouts can place
  Names,     \* e-mail addresses, the case of their letters aside
  Operator,  \* SUPER_ADMIN_EMAIL
  Nobody     \* no user

\* An address as it was typed: in lower case, or with capitals before the @,
\* which EmailStr keeps.
Address == [name : Names, capitals : BOOLEAN]

\* UserRole; nothing here depends on who is a buyer and who a seller.
Role == {"member", "super_admin"}

\* An account has the identity of the request or worker that created it, and
\* remembers how it was created.
Creators == Requests \cup Workers

ASSUME OperatorAssumption == Operator \in Names
ASSUME CreatorsAssumption == Requests \cap Workers = {}
ASSUME NobodyAssumption == Nobody \notin Creators

VARIABLES
  accounts,  \* committed users
  orders,    \* committed orders, or Nobody's
  pc,        \* where each creator is
  draft,     \* the account it is creating
  linked,    \* the orders its UPDATE has linked
  cpc,       \* where each change of role is
  change     \* who changes whose role, and what it read

creation == <<pc, draft, linked>>
changing == <<cpc, change>>
vars == <<accounts, orders, creation, changing>>

\* email.lower()
Lower(a) == [a EXCEPT !.capitals = FALSE]

LowerCase == {Lower(a) : a \in Address}
Kind == {"register", "create_user", "bootstrap"}
Draft == [kind : Kind, email : LowerCase, role : Role]
Account == [id : Creators, kind : Kind, email : LowerCase, role : Role]
NoDraft == [kind |-> "none"]

\* An order keeps the e-mail as typed; "after" names the registrations whose
\* UPDATE had run when it was committed.
Order == [email : Address, user : Creators \cup {Nobody}, after : SUBSET Requests]
NoOrder == [user |-> Nobody]

Change == [admin : Creators, user : Creators, role : Role, was : Role]
NoChange == [role |-> "none"]

Init ==
  /\ accounts = {}
  /\ orders = [o \in Orders |-> NoOrder]
  /\ pc = [c \in Creators |-> "idle"]
  /\ draft = [c \in Creators |-> NoDraft]
  /\ linked = [c \in Creators |-> {}]
  /\ cpc = [c \in Changes |-> "idle"]
  /\ change = [c \in Changes |-> NoChange]

Move(c, to) == pc' = [pc EXCEPT ![c] = to]

\* The request is answered: what it knew goes.
End(c, to) ==
  /\ Move(c, to)
  /\ draft' = [draft EXCEPT ![c] = NoDraft]
  /\ linked' = [linked EXCEPT ![c] = {}]

SuperAdmins == {u \in accounts : u.role = "super_admin"}

\* Slip: requests are served while the lifespan is still starting.
AcceptingEarly == \E w \in Workers : pc[w] # "idle"

\* A process serves requests once its lifespan has yielded.
Accepting == \E w \in Workers : pc[w] = "serving"

-----------------------------------------------------------------------------
(* Creating an account.                                                    *)

\* Slip: the e-mail is looked up and stored as it was typed.
AsTyped(a) == a

\* What the handlers look up and store.
Normalised(a) == Lower(a)

\* select(User).where(User.email == email): 409 if there is one, but a worker
\* is content.
Select(c, d) ==
  /\ pc[c] = "idle"
  /\ IF \E u \in accounts : u.email = d.email
     THEN End(c, IF c \in Workers THEN "serving" ELSE "failed")
     ELSE Move(c, "selected") /\ draft' = [draft EXCEPT ![c] = d] /\ UNCHANGED linked
  /\ UNCHANGED <<accounts, orders, changing>>

\* register, register_buyer
Register(r, a) ==
  /\ Accepting
  /\ Select(r, [kind |-> "register", email |-> Normalised(a), role |-> "member"])

\* create_user, behind require_superadmin
CreateUser(r, a, role) ==
  /\ Accepting
  /\ SuperAdmins # {}
  /\ Select(r, [kind |-> "create_user", email |-> Normalised(a), role |-> role])

\* ensure_superadmin
StartUp(w) ==
  Select(w, [kind |-> "bootstrap", email |-> [name |-> Operator, capitals |-> FALSE],
             role |-> "super_admin"])

\* Slip: the select locks the address it looks up.
LockedBySelect(c) == pc[c] \in {"selected", "inserted", "linked"}

\* It has an entry of the unique index that is not committed.
HoldsEntry(c) == pc[c] \in {"inserted", "linked"}

\* The INSERT waits for another one of the same e-mail to commit or roll back.
EntryFree(c) ==
  \A b \in Creators \ {c} : HoldsEntry(b) => draft[b].email # draft[c].email

\* INSERT, at the flush or the commit; IntegrityError is not handled.
Insert(c) ==
  /\ pc[c] = "selected"
  /\ EntryFree(c)
  /\ IF \E u \in accounts : u.email = draft[c].email
     THEN End(c, "failed")
     ELSE Move(c, "inserted") /\ UNCHANGED <<draft, linked>>
  /\ UNCHANGED <<accounts, orders, changing>>

\* Slip: every guest order is claimed.
AnyGuest(c, o) == orders[o] # NoOrder /\ orders[o].user = Nobody

\* The WHERE clause of the UPDATE: it compares with the lower-case e-mail.
Claimable(c, o) ==
  /\ orders[o] # NoOrder
  /\ orders[o].user = Nobody
  /\ orders[o].email = draft[c].email

\* UPDATE orders SET user_id, in the transaction of the registration.
LinkOrders(r) ==
  /\ pc[r] = "inserted"
  /\ draft[r].kind = "register"
  /\ linked' = [linked EXCEPT ![r] = {o \in Orders : Claimable(r, o)}]
  /\ Move(r, "linked")
  /\ UNCHANGED <<accounts, orders, draft, changing>>

Commit(c) ==
  /\ pc[c] = IF draft[c].kind = "register" THEN "linked" ELSE "inserted"
  /\ accounts' = accounts \cup
       {[id |-> c, kind |-> draft[c].kind, email |-> draft[c].email,
         role |-> draft[c].role]}
  /\ orders' = [o \in Orders |->
       IF o \in linked[c] THEN [orders[o] EXCEPT !.user = c] ELSE orders[o]]
  /\ End(c, IF c \in Workers THEN "serving" ELSE "done")
  /\ UNCHANGED changing

\* The database or the process is lost: everything is rolled back.
Crash(c) ==
  /\ pc[c] \in {"selected", "inserted", "linked"}
  /\ End(c, "failed")
  /\ UNCHANGED <<accounts, orders, changing>>

\* A process is stopped, or started again after it failed.
Stop(w) ==
  /\ pc[w] \in {"serving", "failed"}
  /\ Move(w, "idle")
  /\ UNCHANGED <<accounts, orders, draft, linked, changing>>

-----------------------------------------------------------------------------
(* Orders, as far as CheckoutService.run decides whose they are.           *)

Place(o, email, user) ==
  /\ Accepting
  /\ orders[o] = NoOrder
  /\ orders' = [orders EXCEPT ![o] =
       [email |-> email, user |-> user,
        after |-> {r \in Requests : pc[r] \in {"linked", "done"}}]]
  /\ UNCHANGED <<accounts, creation, changing>>

\* A guest gives any e-mail, one that has an account included.
PlaceAsGuest(o, a) == Place(o, a, Nobody)

\* A signed-in order takes the e-mail of the account.
PlaceAsUser(o, u) == Place(o, u.email, u.id)

-----------------------------------------------------------------------------
(* update_role                                                             *)

MoveChange(c, to) == cpc' = [cpc EXCEPT ![c] = to]

EndChange(c) ==
  MoveChange(c, "ended") /\ change' = [change EXCEPT ![c] = NoChange]

RoleOf(id) == (CHOOSE u \in accounts : u.id = id).role

\* Slip: one's own role can be changed.
AnyTarget(admin, user) == TRUE

\* "You cannot change your own role"
NotOneself(admin, user) == admin # user

\* require_superadmin reads the caller's role.
Authorise(c, admin, user, role) ==
  /\ Accepting
  /\ cpc[c] = "idle"
  /\ admin \in SuperAdmins /\ user \in accounts
  /\ NotOneself(admin.id, user.id)
  /\ change' = [change EXCEPT ![c] =
       [admin |-> admin.id, user |-> user.id, role |-> role, was |-> role]]
  /\ MoveChange(c, "authorised")
  /\ UNCHANGED <<accounts, orders, creation>>

\* db.get(User)
LoadTarget(c) ==
  /\ cpc[c] = "authorised"
  /\ change' = [change EXCEPT ![c].was = RoleOf(change[c].user)]
  /\ MoveChange(c, "loaded")
  /\ UNCHANGED <<accounts, orders, creation>>

\* The commit writes the role if it differs from the one it loaded.
SaveRole(c) ==
  /\ cpc[c] = "loaded"
  /\ accounts' = IF change[c].role = change[c].was THEN accounts
                 ELSE {IF u.id = change[c].user THEN [u EXCEPT !.role = change[c].role]
                                                ELSE u : u \in accounts}
  /\ EndChange(c)
  /\ UNCHANGED <<orders, creation>>

ChangeFails(c) ==
  /\ cpc[c] \in {"authorised", "loaded"}
  /\ EndChange(c)
  /\ UNCHANGED <<accounts, orders, creation>>

-----------------------------------------------------------------------------
Proceed(c) == Insert(c) \/ LinkOrders(c) \/ Commit(c)

Next ==
  \/ \E r \in Requests, a \in Address :
       \/ Register(r, a)
       \/ \E role \in Role : CreateUser(r, a, role)
  \/ \E w \in Workers : StartUp(w) \/ Stop(w)
  \/ \E c \in Creators : Proceed(c) \/ Crash(c)
  \/ \E o \in Orders :
       \/ \E a \in Address : PlaceAsGuest(o, a)
       \/ \E u \in accounts : PlaceAsUser(o, u)
  \/ \E c \in Changes :
       \/ \E admin, user \in accounts, role \in Role : Authorise(c, admin, user, role)
       \/ LoadTarget(c) \/ SaveRole(c) \/ ChangeFails(c)

Spec == Init /\ [][Next]_vars

\* The database answers, and wakes whoever waits for an entry when it is free.
FairSpec == Spec /\ \A r \in Requests : WF_vars(Proceed(r))

-----------------------------------------------------------------------------
(* Properties.                                                             *)

TypeOK ==
  /\ accounts \subseteq Account
  /\ orders \in [Orders -> Order \cup {NoOrder}]
  /\ pc \in [Creators -> {"idle", "selected", "inserted", "linked",
                          "done", "serving", "failed"}]
  /\ draft \in [Creators -> Draft \cup {NoDraft}]
  /\ linked \in [Creators -> SUBSET Orders]
  /\ cpc \in [Changes -> {"idle", "authorised", "loaded", "ended"}]
  /\ change \in [Changes -> Change \cup {NoChange}]

\* However registrations, admins and workers overlap, an address has one
\* account, capitals or not.
OneAccountEach ==
  \A u, v \in accounts : u.email.name = v.email.name => u = v

\* The account of SUPER_ADMIN_EMAIL was made by a worker: nobody can register
\* that address first, and a worker that serves has found it or made it.
OperatorIsBootstrapped ==
  /\ \A u \in accounts : u.email.name = Operator => u.id \in Workers
  /\ Accepting => \E u \in accounts : u.email.name = Operator

\* An order belongs to the account of its own e-mail, whether it was placed by
\* the account or linked by its registration.
OrdersBelong ==
  \A o \in Orders : orders[o].user # Nobody =>
    \E u \in accounts : u.id = orders[o].user /\ u.email = orders[o].email

\* A guest order stays unlinked beside an account of its address only if the
\* account was not self-registered, the order was committed after the
\* registration's UPDATE, or its e-mail was typed with capitals.
UnlinkedHasReason ==
  \A o \in Orders, u \in accounts :
    /\ orders[o] # NoOrder
    /\ orders[o].user = Nobody
    /\ orders[o].email.name = u.email.name
    => \/ orders[o].email.capitals
       \/ u.kind # "register"
       \/ u.id \in orders[o].after

\* The last super admin loses the role only to an admin who has lost it since
\* the request began: changes that do not overlap leave at least one.
LastAdminNeedsOverlap ==
  [][SuperAdmins # {} /\ SuperAdmins' = {} =>
       \E c \in Changes : /\ cpc[c] = "loaded" /\ cpc'[c] = "ended"
                          /\ \A u \in SuperAdmins : u.id # change[c].admin]_vars

\* No request hangs on another's insert: each is answered, also when the one it
\* waits for is rolled back.  (A worker may wait for others that fail and start
\* again, over and over.)
CreationsEnd ==
  \A r \in Requests :
    pc[r] \in {"selected", "inserted", "linked"} ~> pc[r] \in {"done", "failed"}
=============================================================================
