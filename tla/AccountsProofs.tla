---------------------------- MODULE AccountsProofs ----------------------------
(***************************************************************************)
(* Theorems about Accounts, for any requests, workers, changes of role,    *)
(* orders and addresses.                                                   *)
(***************************************************************************)
EXTENDS Accounts, TLAPS

Live == {"selected", "inserted", "linked"}

\* A request in progress knows what it creates; workers create the operator's
\* account, and requests never do.
DraftsOK ==
  \A c \in Creators : pc[c] \in Live =>
    /\ draft[c] \in Draft
    /\ c \in Workers => draft[c].kind = "bootstrap" /\ draft[c].email.name = Operator
    /\ c \in Requests => draft[c].kind # "bootstrap" /\ draft[c].email.name # Operator

\* The unique index: an uncommitted entry excludes accounts and other entries.
EntriesOK ==
  \A c \in Creators : HoldsEntry(c) =>
    /\ \A u \in accounts : u.email # draft[c].email
    /\ \A b \in Creators \ {c} : HoldsEntry(b) => draft[b].email # draft[c].email

\* Who registered has finished, and is not a worker.
RegisteredOK ==
  \A u \in accounts : u.kind = "register" => u.id \in Requests /\ pc[u.id] = "done"

Claimed(c, o) ==
  orders[o] \in Order /\ orders[o].email = draft[c].email

\* A registration links orders of its address, and all of them but those that
\* were committed after its UPDATE.
LinkedOK ==
  \A c \in Creators :
    /\ linked[c] # {} => pc[c] = "linked"
    /\ \A o \in linked[c] : Claimed(c, o)
    /\ pc[c] = "linked" =>
         /\ c \in Requests
         /\ \A o \in Orders :
              Claimed(c, o) /\ orders[o].user = Nobody =>
                o \in linked[c] \/ c \in orders[o].after

\* A change of role in progress is one of somebody else's, who has an account.
ChangesOK ==
  \A c \in Changes : cpc[c] \in {"authorised", "loaded"} =>
    /\ change[c] \in Change
    /\ change[c].admin # change[c].user
    /\ \E u \in accounts : u.id = change[c].user

IInv ==
  /\ TypeOK
  /\ DraftsOK
  /\ EntriesOK
  /\ RegisteredOK
  /\ LinkedOK
  /\ ChangesOK
  /\ OneAccountEach
  /\ OperatorIsBootstrapped
  /\ OrdersBelong
  /\ UnlinkedHasReason

-----------------------------------------------------------------------------
(* Addresses.                                                              *)

\* Lower-case addresses that differ differ in more than the case.
LEMMA LowerCases ==
  /\ \A a \in Address : Lower(a) \in LowerCase /\ Lower(a).name = a.name
  /\ \A e \in LowerCase : e \in Address /\ e.capitals = FALSE
  /\ \A e, f \in LowerCase : e.name = f.name => e = f
<1>1. \A a \in Address : Lower(a) \in LowerCase /\ Lower(a).name = a.name
  BY DEF Lower, LowerCase, Address
<1>2. \A e \in LowerCase : e \in Address /\ e.capitals = FALSE
  BY DEF Lower, LowerCase, Address
<1>3. \A e, f \in LowerCase : e.name = f.name => e = f
  BY <1>2 DEF Address
<1> QED
  BY <1>1, <1>2, <1>3

-----------------------------------------------------------------------------
(* Steps.                                                                  *)

\* Before anything has happened nothing is claimed, drafted or changed.
LEMMA InitOK == Init => IInv
<1> SUFFICES ASSUME Init PROVE IInv
  OBVIOUS
<1>1. TypeOK
  BY DEF Init, TypeOK
<1>2. DraftsOK /\ EntriesOK /\ RegisteredOK /\ ChangesOK /\ OneAccountEach
      /\ OrdersBelong /\ UnlinkedHasReason
  BY DEF Init, DraftsOK, EntriesOK, HoldsEntry, Live, RegisteredOK, ChangesOK,
         OneAccountEach, OrdersBelong, UnlinkedHasReason, NoOrder
<1>3. LinkedOK /\ OperatorIsBootstrapped
  BY DEF Init, LinkedOK, OperatorIsBootstrapped, Accepting, Creators
<1> QED
  BY <1>1, <1>2, <1>3 DEF IInv

\* Selecting: whoever is content or refused ends, whoever finds nothing goes on.
LEMMA SelectStep ==
  ASSUME IInv, NEW c \in Creators, NEW d \in Draft, Select(c, d),
         c \in Workers => d.kind = "bootstrap" /\ d.email.name = Operator,
         c \in Requests => d.kind # "bootstrap" /\ Accepting
  PROVE  IInv'
<1> USE DEF IInv
<1> DEFINE found == \E u \in accounts : u.email = d.email
<1>0. /\ pc[c] = "idle"
      /\ UNCHANGED <<accounts, orders, cpc, change>>
      /\ c \notin Workers \/ c \notin Requests
  BY CreatorsAssumption DEF Select, changing
<1>1. linked' = [linked EXCEPT ![c] = {}] /\ linked[c] = {} /\ linked' = linked
  <2>1. linked[c] = {}
    BY <1>0 DEF LinkedOK
  <2> QED
    BY <1>0, <2>1 DEF Select, End, TypeOK
<1>2. CASE found
  <2>1. /\ pc' = [pc EXCEPT ![c] = IF c \in Workers THEN "serving" ELSE "failed"]
        /\ draft' = [draft EXCEPT ![c] = NoDraft]
    BY <1>2 DEF Select, End, Move
  <2>2. TypeOK'
    BY <1>0, <1>1, <2>1 DEF TypeOK
  <2>3. DraftsOK' /\ EntriesOK'
    BY <1>0, <2>1 DEF DraftsOK, EntriesOK, HoldsEntry, Live, TypeOK
  <2>4. RegisteredOK' /\ LinkedOK' /\ ChangesOK' /\ OneAccountEach' /\ OrdersBelong'
        /\ UnlinkedHasReason'
    BY <1>0, <1>1, <2>1 DEF RegisteredOK, LinkedOK, Claimed, ChangesOK, OneAccountEach,
       OrdersBelong, UnlinkedHasReason, TypeOK
  <2>5. OperatorIsBootstrapped'
    <3>1. c \in Workers => \E u \in accounts : u.email.name = Operator
      BY <1>2
    <3> QED
      BY <1>0, <2>1, <3>1 DEF OperatorIsBootstrapped, Accepting, Creators, TypeOK
  <2> QED
    BY <2>2, <2>3, <2>4, <2>5
<1>3. CASE ~found
  <2>1. /\ pc' = [pc EXCEPT ![c] = "selected"]
        /\ draft' = [draft EXCEPT ![c] = d]
    BY <1>3 DEF Select, Move
  <2>2. TypeOK'
    BY <1>0, <1>1, <2>1 DEF TypeOK
  <2>3. c \in Requests => d.email.name # Operator
    <3> SUFFICES ASSUME c \in Requests, d.email.name = Operator PROVE FALSE
      OBVIOUS
    <3>1. PICK u \in accounts : u.email.name = Operator
      BY DEF OperatorIsBootstrapped
    <3>2. u.email = d.email
      BY <3>1, LowerCases DEF Draft, Account, TypeOK
    <3> QED
      BY <1>3, <3>2
  <2>4. DraftsOK' /\ EntriesOK'
    BY <1>0, <2>1, <2>3 DEF DraftsOK, EntriesOK, HoldsEntry, Live, TypeOK
  <2>5. RegisteredOK' /\ LinkedOK' /\ ChangesOK' /\ OneAccountEach' /\ OrdersBelong'
        /\ UnlinkedHasReason'
    BY <1>0, <1>1, <2>1 DEF RegisteredOK, LinkedOK, Claimed, ChangesOK, OneAccountEach,
       OrdersBelong, UnlinkedHasReason, TypeOK
  <2>6. OperatorIsBootstrapped'
    BY <1>0, <2>1 DEF OperatorIsBootstrapped, Accepting, Creators, TypeOK
  <2> QED
    BY <2>2, <2>4, <2>5, <2>6
<1> QED
  BY <1>2, <1>3

\* The INSERT: it fails at the unique index, or takes the entry.
LEMMA InsertStep ==
  ASSUME IInv, NEW c \in Creators, Insert(c)
  PROVE  IInv'
<1> USE DEF IInv
<1>0. /\ pc[c] = "selected" /\ EntryFree(c)
      /\ UNCHANGED <<accounts, orders, cpc, change>>
      /\ linked[c] = {}
  BY DEF Insert, LinkedOK, changing
<1>1. CASE \E u \in accounts : u.email = draft[c].email
  <2>1. /\ pc' = [pc EXCEPT ![c] = "failed"]
        /\ draft' = [draft EXCEPT ![c] = NoDraft]
        /\ linked' = linked
    BY <1>0, <1>1 DEF Insert, End, Move, TypeOK
  <2>2. TypeOK'
    BY <1>0, <2>1 DEF TypeOK
  <2>3. DraftsOK' /\ EntriesOK'
    BY <1>0, <2>1 DEF DraftsOK, EntriesOK, HoldsEntry, Live, TypeOK
  <2>4. RegisteredOK' /\ LinkedOK' /\ ChangesOK' /\ OneAccountEach' /\ OrdersBelong'
        /\ UnlinkedHasReason'
    BY <1>0, <2>1 DEF RegisteredOK, LinkedOK, Claimed, ChangesOK, OneAccountEach,
       OrdersBelong, UnlinkedHasReason, TypeOK
  <2>5. OperatorIsBootstrapped'
    BY <1>0, <2>1 DEF OperatorIsBootstrapped, Accepting, Creators, TypeOK
  <2> QED
    BY <2>2, <2>3, <2>4, <2>5
<1>2. CASE ~\E u \in accounts : u.email = draft[c].email
  <2>1. /\ pc' = [pc EXCEPT ![c] = "inserted"]
        /\ draft' = draft /\ linked' = linked
    BY <1>0, <1>2 DEF Insert, Move
  <2>2. TypeOK'
    BY <1>0, <2>1 DEF TypeOK
  <2>3. DraftsOK'
    BY <1>0, <2>1 DEF DraftsOK, Live, TypeOK
  <2>4. EntriesOK'
    BY <1>0, <1>2, <2>1 DEF EntriesOK, EntryFree, HoldsEntry, TypeOK
  <2>5. RegisteredOK' /\ LinkedOK' /\ ChangesOK' /\ OneAccountEach' /\ OrdersBelong'
        /\ UnlinkedHasReason'
    BY <1>0, <2>1 DEF RegisteredOK, LinkedOK, Claimed, ChangesOK, OneAccountEach,
       OrdersBelong, UnlinkedHasReason, TypeOK
  <2>6. OperatorIsBootstrapped'
    BY <1>0, <2>1 DEF OperatorIsBootstrapped, Accepting, Creators, TypeOK
  <2> QED
    BY <2>2, <2>3, <2>4, <2>5, <2>6
<1> QED
  BY <1>1, <1>2

\* The UPDATE claims every guest order of the address that is committed.
LEMMA LinkStep ==
  ASSUME IInv, NEW r \in Creators, LinkOrders(r)
  PROVE  IInv'
<1> USE DEF IInv
<1>1. /\ pc[r] = "inserted" /\ pc' = [pc EXCEPT ![r] = "linked"]
      /\ linked' = [linked EXCEPT ![r] = {o \in Orders : Claimable(r, o)}]
      /\ UNCHANGED <<accounts, orders, draft, cpc, change>>
      /\ draft[r].kind = "register"
  BY DEF LinkOrders, Move, changing
<1>2. TypeOK'
  BY <1>1 DEF TypeOK
<1>3. DraftsOK' /\ EntriesOK'
  BY <1>1 DEF DraftsOK, EntriesOK, HoldsEntry, Live, TypeOK
<1>4. RegisteredOK' /\ ChangesOK' /\ OneAccountEach' /\ OrdersBelong'
      /\ UnlinkedHasReason'
  BY <1>1 DEF RegisteredOK, ChangesOK, OneAccountEach, OrdersBelong, UnlinkedHasReason,
     TypeOK
<1>5. LinkedOK'
  <2>1. r \in Requests
    BY <1>1 DEF DraftsOK, Live, Creators
  <2>2. \A o \in Orders : Claimable(r, o) <=> Claimed(r, o) /\ orders[o].user = Nobody
    BY DEF Claimable, Claimed, TypeOK, Order, NoOrder
  <2>3. linked'[r] = {o \in Orders : Claimed(r, o) /\ orders[o].user = Nobody}
    BY <1>1, <2>2 DEF TypeOK
  <2>4. \A c \in Creators, o \in Orders : Claimed(c, o)' <=> Claimed(c, o)
    BY <1>1 DEF Claimed
  <2>5. \A c \in Creators \ {r} : linked'[c] = linked[c] /\ pc'[c] = pc[c]
    BY <1>1 DEF TypeOK
  <2>6. pc'[r] = "linked" /\ \A c \in Creators : linked'[c] \subseteq Orders
    BY <1>1, <1>2 DEF TypeOK
  <2> QED
    BY <1>1, <2>1, <2>3, <2>4, <2>5, <2>6 DEF LinkedOK
<1>6. OperatorIsBootstrapped'
  BY <1>1 DEF OperatorIsBootstrapped, Accepting, Creators, TypeOK
<1> QED
  BY <1>2, <1>3, <1>4, <1>5, <1>6

\* The COMMIT: the account and its orders appear together.
LEMMA CommitStep ==
  ASSUME IInv, NEW c \in Creators, Commit(c)
  PROVE  IInv'
<1> USE DEF IInv
<1> DEFINE new == [id |-> c, kind |-> draft[c].kind, email |-> draft[c].email,
                   role |-> draft[c].role]
           end == IF c \in Workers THEN "serving" ELSE "done"
<1>1. /\ pc[c] \in {"inserted", "linked"}
      /\ draft[c].kind = "register" => pc[c] = "linked"
      /\ draft[c] \in Draft
      /\ accounts' = accounts \cup {new}
      /\ orders' = [o \in Orders |->
           IF o \in linked[c] THEN [orders[o] EXCEPT !.user = c] ELSE orders[o]]
      /\ pc' = [pc EXCEPT ![c] = end]
      /\ draft' = [draft EXCEPT ![c] = NoDraft]
      /\ linked' = [linked EXCEPT ![c] = {}]
      /\ UNCHANGED <<cpc, change>>
  BY DEF Commit, End, Move, DraftsOK, Live, changing
<1>2. /\ new \in Account /\ new.id = c
      /\ new.email = draft[c].email /\ new.kind = draft[c].kind
  BY <1>1 DEF Account, Draft
<1>3. HoldsEntry(c) /\ \A u \in accounts : u.email # new.email
  BY <1>1, <1>2 DEF EntriesOK, HoldsEntry
<1>4. \A o \in Orders : o \in linked[c] =>
        orders[o] \in Order /\ orders[o].email = draft[c].email
  BY DEF LinkedOK, Claimed
<1>5. \A o \in Orders :
        /\ o \in linked[c] => /\ orders'[o] \in Order /\ orders'[o].user = c
                              /\ orders'[o].email = orders[o].email
                              /\ orders'[o].after = orders[o].after
        /\ o \notin linked[c] => orders'[o] = orders[o]
  BY <1>1, <1>4 DEF Order
<1>6. TypeOK'
  BY <1>1, <1>2, <1>5 DEF TypeOK, Creators
<1>7. DraftsOK'
  BY <1>1 DEF DraftsOK, Live, TypeOK
<1>8. EntriesOK'
  BY <1>1, <1>2, <1>3 DEF EntriesOK, HoldsEntry, TypeOK
<1>9. RegisteredOK'
  <2>1. c \in Workers => draft[c].kind = "bootstrap"
    BY <1>1 DEF DraftsOK, Live
  <2>2. new.kind = "register" => c \in Requests /\ end = "done"
    BY <1>2, <2>1 DEF Creators
  <2>3. \A u \in accounts : u.kind = "register" => u.id # c
    BY <1>1 DEF RegisteredOK
  <2> QED
    BY <1>1, <1>2, <2>2, <2>3 DEF RegisteredOK, TypeOK, Creators
<1>10. LinkedOK'
  <2>1. \A d \in Creators \ {c} : /\ linked'[d] = linked[d] /\ pc'[d] = pc[d]
                                  /\ draft'[d] = draft[d]
    BY <1>1 DEF TypeOK
  <2>2. linked'[c] = {} /\ pc'[c] # "linked"
    BY <1>1 DEF TypeOK
  <2>3. \A d \in Creators \ {c}, o \in Orders : Claimed(d, o)' <=> Claimed(d, o)
    BY <1>4, <1>5, <2>1 DEF Claimed
  <2>4. \A o \in Orders : orders'[o].user = Nobody => orders'[o] = orders[o]
    BY <1>5, NobodyAssumption
  <2>5. \A d \in Creators : linked[d] \subseteq Orders
    BY DEF TypeOK
  <2> QED
    BY <2>1, <2>2, <2>3, <2>4, <2>5 DEF LinkedOK
<1>11. ChangesOK'
  BY <1>1 DEF ChangesOK
<1>12. OneAccountEach'
  <2>1. \A u \in accounts : u.email.name # new.email.name
    BY <1>2, <1>3, LowerCases DEF TypeOK, Account
  <2> QED
    BY <1>1, <2>1 DEF OneAccountEach
<1>13. OperatorIsBootstrapped'
  <2>1. c \in Workers => new.email.name = Operator
    BY <1>1, <1>2 DEF DraftsOK, Live
  <2>2. c \in Requests => new.email.name # Operator
    BY <1>1, <1>2 DEF DraftsOK, Live
  <2>3. \A u \in accounts' : u.email.name = Operator => u.id \in Workers
    BY <1>1, <1>2, <2>2 DEF OperatorIsBootstrapped, Creators
  <2>4. Accepting' => Accepting \/ c \in Workers
    BY <1>1 DEF Accepting, TypeOK, Creators
  <2> QED
    BY <1>1, <2>1, <2>3, <2>4 DEF OperatorIsBootstrapped
<1>14. OrdersBelong'
  BY <1>1, <1>2, <1>4, <1>5 DEF OrdersBelong
<1>15. UnlinkedHasReason'
  <2> SUFFICES ASSUME NEW o \in Orders, NEW u \in accounts',
                      orders'[o] # NoOrder, orders'[o].user = Nobody,
                      orders'[o].email.name = u.email.name
               PROVE  \/ orders'[o].email.capitals
                      \/ u.kind # "register"
                      \/ u.id \in orders'[o].after
    BY DEF UnlinkedHasReason
  <2>1. orders'[o] = orders[o] /\ o \notin linked[c]
    BY <1>5, NobodyAssumption
  <2>2. CASE u \in accounts
    BY <2>1, <2>2 DEF UnlinkedHasReason
  <2>3. CASE u = new
    <3> SUFFICES ASSUME ~orders[o].email.capitals, draft[c].kind = "register"
                 PROVE  c \in orders[o].after
      BY <1>2, <2>1, <2>3
    <3>1. orders[o] \in Order
      BY <2>1 DEF TypeOK
    <3>2. orders[o].email = draft[c].email
      <4>1. orders[o].email \in Address /\ draft[c].email \in Address
            /\ draft[c].email.capitals = FALSE
        BY <1>1, <3>1, LowerCases DEF Order, Draft
      <4>2. orders[o].email.name = draft[c].email.name
        BY <1>2, <2>1, <2>3
      <4>3. orders[o].email.capitals = FALSE
        BY <4>1 DEF Address
      <4> QED
        BY <4>1, <4>2, <4>3 DEF Address
    <3> QED
      BY <1>1, <2>1, <3>1, <3>2 DEF LinkedOK, Claimed
  <2> QED
    BY <1>1, <2>2, <2>3
<1> QED
  BY <1>6, <1>7, <1>8, <1>9, <1>10, <1>11, <1>12, <1>13, <1>14, <1>15

\* Whoever fails forgets, and a process that stops serves no longer.
LEMMA LeaveStep ==
  ASSUME IInv, NEW c \in Creators,
         Crash(c) \/ (c \in Workers /\ Stop(c))
  PROVE  IInv'
<1> USE DEF IInv
<1>1. UNCHANGED <<accounts, orders, cpc, change>>
  BY DEF Crash, Stop, changing
<1>2. PICK to \in {"failed", "idle"} :
        pc' = [pc EXCEPT ![c] = to] /\ (c \in Requests => pc[c] # "done")
  BY CreatorsAssumption DEF Crash, Stop, End, Move
<1>3. /\ draft' \in [Creators -> Draft \cup {NoDraft}]
      /\ linked' \in [Creators -> SUBSET Orders]
      /\ linked'[c] = {}
      /\ \A d \in Creators \ {c} : draft'[d] = draft[d] /\ linked'[d] = linked[d]
  <2>1. CASE Crash(c)
    BY <2>1 DEF Crash, End, TypeOK
  <2>2. CASE Stop(c)
    BY <2>2 DEF Stop, TypeOK, LinkedOK
  <2> QED
    BY <2>1, <2>2
<1>4. TypeOK'
  BY <1>1, <1>2, <1>3 DEF TypeOK
<1>5. DraftsOK' /\ EntriesOK'
  BY <1>1, <1>2, <1>3 DEF DraftsOK, EntriesOK, HoldsEntry, Live, TypeOK
<1>6. RegisteredOK' /\ LinkedOK' /\ ChangesOK' /\ OneAccountEach' /\ OrdersBelong'
      /\ UnlinkedHasReason'
  BY <1>1, <1>2, <1>3 DEF RegisteredOK, LinkedOK, Claimed, ChangesOK, OneAccountEach,
     OrdersBelong, UnlinkedHasReason, TypeOK
<1>7. OperatorIsBootstrapped'
  BY <1>1, <1>2 DEF OperatorIsBootstrapped, Accepting, Creators, TypeOK
<1> QED
  BY <1>4, <1>5, <1>6, <1>7

\* An order is placed: it remembers the registrations that can no longer link it.
LEMMA PlaceStep ==
  ASSUME IInv, NEW o \in Orders, NEW a \in Address, NEW user \in Creators \cup {Nobody},
         Place(o, a, user),
         user # Nobody => \E u \in accounts : u.id = user /\ u.email = a
  PROVE  IInv'
<1> USE DEF IInv
<1> DEFINE new == [email |-> a, user |-> user,
                   after |-> {r \in Requests : pc[r] \in {"linked", "done"}}]
<1>1. /\ orders[o] = NoOrder
      /\ orders' = [orders EXCEPT ![o] = new]
      /\ UNCHANGED <<accounts, pc, draft, linked, cpc, change>>
  BY DEF Place, creation, changing
<1>2. new \in Order /\ new.email = a /\ new.user = user
      /\ new.after = {r \in Requests : pc[r] \in {"linked", "done"}}
  BY DEF Order
<1>3. TypeOK'
  BY <1>1, <1>2 DEF TypeOK
<1>4. DraftsOK' /\ EntriesOK' /\ RegisteredOK' /\ ChangesOK' /\ OneAccountEach'
      /\ OperatorIsBootstrapped'
  BY <1>1 DEF DraftsOK, EntriesOK, HoldsEntry, RegisteredOK, ChangesOK, OneAccountEach,
     OperatorIsBootstrapped, Accepting
<1>5. LinkedOK'
  <2>1. \A c \in Creators : o \notin linked[c]
    BY <1>1 DEF LinkedOK, Claimed, Order, NoOrder
  <2>2. \A p \in Orders : p # o => orders'[p] = orders[p]
    BY <1>1 DEF TypeOK
  <2>3. orders'[o] = new
    BY <1>1 DEF TypeOK
  <2>4. \A c \in Creators, p \in Orders : p # o => (Claimed(c, p)' <=> Claimed(c, p))
    BY <1>1, <2>2 DEF Claimed
  <2>5. \A c \in Creators : linked[c] \subseteq Orders
    BY DEF TypeOK
  <2> QED
    BY <1>1, <1>2, <2>1, <2>2, <2>3, <2>4, <2>5 DEF LinkedOK
<1>6. OrdersBelong'
  BY <1>1, <1>2 DEF OrdersBelong, TypeOK
<1>7. UnlinkedHasReason'
  <2>1. \A u \in accounts : u.kind = "register" => u.id \in new.after
    BY <1>2 DEF RegisteredOK
  <2> QED
    BY <1>1, <2>1 DEF UnlinkedHasReason, TypeOK
<1> QED
  BY <1>3, <1>4, <1>5, <1>6, <1>7

\* A change of role begins, loads its target, or fails: no account changes.
LEMMA ChangeStep ==
  ASSUME IInv, NEW c \in Changes,
         \/ \E admin, user \in accounts, role \in Role : Authorise(c, admin, user, role)
         \/ LoadTarget(c)
         \/ ChangeFails(c)
  PROVE  IInv'
<1> USE DEF IInv
<1>1. UNCHANGED <<accounts, orders, pc, draft, linked>>
  BY DEF Authorise, LoadTarget, ChangeFails, creation
<1>2. DraftsOK' /\ EntriesOK' /\ RegisteredOK' /\ LinkedOK' /\ OneAccountEach'
      /\ OperatorIsBootstrapped' /\ OrdersBelong' /\ UnlinkedHasReason'
  BY <1>1 DEF DraftsOK, EntriesOK, HoldsEntry, RegisteredOK, LinkedOK, Claimed,
     OneAccountEach, OperatorIsBootstrapped, Accepting, OrdersBelong, UnlinkedHasReason
<1>3. /\ cpc' \in [Changes -> {"idle", "authorised", "loaded", "ended"}]
      /\ change' \in [Changes -> Change \cup {NoChange}]
      /\ \A d \in Changes \ {c} : cpc'[d] = cpc[d] /\ change'[d] = change[d]
      /\ cpc'[c] \in {"authorised", "loaded"} =>
           /\ change'[c] \in Change
           /\ change'[c].admin # change'[c].user
           /\ \E u \in accounts : u.id = change'[c].user
  <2>1. ASSUME NEW admin \in accounts, NEW user \in accounts, NEW role \in Role,
               Authorise(c, admin, user, role)
        PROVE  <1>3!:
    <3>1. [admin |-> admin.id, user |-> user.id, role |-> role, was |-> role] \in Change
      BY DEF TypeOK, Account, Change
    <3> QED
      BY <2>1, <3>1 DEF Authorise, MoveChange, NotOneself, TypeOK
  <2>2. CASE LoadTarget(c)
    <3>1. change[c] \in Change /\ \E u \in accounts : u.id = change[c].user
      BY <2>2 DEF LoadTarget, ChangesOK
    <3>2. RoleOf(change[c].user) \in Role
      BY <3>1 DEF RoleOf, TypeOK, Account
    <3> QED
      BY <2>2, <3>1, <3>2 DEF LoadTarget, MoveChange, ChangesOK, TypeOK, Change
  <2>3. CASE ChangeFails(c)
    BY <2>3 DEF ChangeFails, EndChange, MoveChange, TypeOK
  <2> QED
    BY <2>1, <2>2, <2>3
<1>4. TypeOK' /\ ChangesOK'
  BY <1>1, <1>3 DEF TypeOK, ChangesOK
<1> QED
  BY <1>2, <1>4

\* A role is saved: the accounts are the same but for a role.
LEMMA SaveStep ==
  ASSUME IInv, NEW c \in Changes, SaveRole(c)
  PROVE  IInv'
<1> USE DEF IInv
<1> DEFINE saved(u) == IF u.id = change[c].user THEN [u EXCEPT !.role = change[c].role]
                                                ELSE u
<1>1. /\ UNCHANGED <<orders, pc, draft, linked>>
      /\ cpc' = [cpc EXCEPT ![c] = "ended"]
      /\ change' = [change EXCEPT ![c] = NoChange]
      /\ accounts' = accounts \/ accounts' = {saved(u) : u \in accounts}
      /\ change[c] \in Change
  BY DEF SaveRole, EndChange, MoveChange, creation, ChangesOK
<1>2. \A u \in accounts : /\ saved(u) \in Account
                          /\ saved(u).id = u.id
                          /\ saved(u).email = u.email
                          /\ saved(u).kind = u.kind
  BY <1>1 DEF TypeOK, Account, Change
<1>3. /\ \A v \in accounts' : \E u \in accounts :
           v = u \/ v = saved(u)
      /\ \A u \in accounts : \E v \in accounts' :
           v.id = u.id /\ v.email = u.email /\ v.kind = u.kind
  BY <1>1, <1>2
<1>4. \A v \in accounts' : \E u \in accounts :
        v.id = u.id /\ v.email = u.email /\ v.kind = u.kind
  BY <1>2, <1>3
<1>5. TypeOK'
  <2>1. accounts' \subseteq Account
    BY <1>2, <1>3 DEF TypeOK
  <2> QED
    BY <1>1, <2>1 DEF TypeOK
<1>6. DraftsOK' /\ LinkedOK'
  BY <1>1 DEF DraftsOK, LinkedOK, Claimed
<1>7. EntriesOK' /\ RegisteredOK'
  BY <1>1, <1>4 DEF EntriesOK, RegisteredOK, HoldsEntry
<1>8. ChangesOK'
  BY <1>1, <1>3 DEF ChangesOK, TypeOK
<1>9. OneAccountEach'
  <2> SUFFICES ASSUME NEW u \in accounts', NEW v \in accounts',
                      u.email.name = v.email.name
               PROVE  u = v
    BY DEF OneAccountEach
  <2>1. CASE accounts' = accounts
    BY <2>1 DEF OneAccountEach
  <2>2. CASE accounts' = {saved(x) : x \in accounts}
    <3>1. PICK x \in accounts, y \in accounts : u = saved(x) /\ v = saved(y)
      BY <2>2
    <3>2. x.email.name = y.email.name
      BY <1>2, <3>1
    <3> QED
      BY <3>1, <3>2 DEF OneAccountEach
  <2> QED
    BY <1>1, <2>1, <2>2
<1>10. OperatorIsBootstrapped'
  <2>1. \A v \in accounts' : v.email.name = Operator => v.id \in Workers
    BY <1>4 DEF OperatorIsBootstrapped
  <2>2. Accepting' => \E v \in accounts' : v.email.name = Operator
    <3>1. SUFFICES ASSUME Accepting' PROVE \E v \in accounts' : v.email.name = Operator
      OBVIOUS
    <3>2. PICK u \in accounts : u.email.name = Operator
      BY <1>1, <3>1 DEF OperatorIsBootstrapped, Accepting
    <3>3. PICK v \in accounts' : v.email = u.email
      BY <1>3, <3>2
    <3> QED
      BY <3>2, <3>3
  <2> QED
    BY <2>1, <2>2 DEF OperatorIsBootstrapped
<1>11. OrdersBelong'
  BY <1>1, <1>3 DEF OrdersBelong
<1>12. UnlinkedHasReason'
  BY <1>1, <1>4 DEF UnlinkedHasReason
<1> QED
  BY <1>5, <1>6, <1>7, <1>8, <1>9, <1>10, <1>11, <1>12

\* Every step preserves the inductive invariant.
LEMMA Inductive == IInv /\ [Next]_vars => IInv'
<1> SUFFICES ASSUME IInv, [Next]_vars PROVE IInv'
  OBVIOUS
<1> USE DEF IInv
<1>1. ASSUME NEW r \in Requests, NEW a \in Address, Register(r, a) PROVE IInv'
  <2> DEFINE d == [kind |-> "register", email |-> Normalised(a), role |-> "member"]
  <2>1. d \in Draft /\ d.kind = "register"
    BY LowerCases DEF Draft, Kind, Role, Normalised
  <2>2. Select(r, d) /\ Accepting
    BY <1>1 DEF Register
  <2>3. r \in Creators /\ r \notin Workers
    BY CreatorsAssumption DEF Creators
  <2> HIDE DEF d
  <2> QED
    BY <2>1, <2>2, <2>3, SelectStep
<1>2. ASSUME NEW r \in Requests, NEW a \in Address, NEW role \in Role,
             CreateUser(r, a, role)
      PROVE  IInv'
  <2> DEFINE d == [kind |-> "create_user", email |-> Normalised(a), role |-> role]
  <2>1. d \in Draft /\ d.kind = "create_user"
    BY LowerCases DEF Draft, Kind, Normalised
  <2>2. Select(r, d) /\ Accepting
    BY <1>2 DEF CreateUser
  <2>3. r \in Creators /\ r \notin Workers
    BY CreatorsAssumption DEF Creators
  <2> HIDE DEF d
  <2> QED
    BY <2>1, <2>2, <2>3, SelectStep
<1>3. ASSUME NEW w \in Workers, StartUp(w) PROVE IInv'
  <2> DEFINE e == [name |-> Operator, capitals |-> FALSE]
             d == [kind |-> "bootstrap", email |-> e, role |-> "super_admin"]
  <2>1. e \in LowerCase
    <3>1. e \in Address
      BY OperatorAssumption DEF Address
    <3>2. e.capitals = FALSE
      OBVIOUS
    <3> HIDE DEF e
    <3>3. Lower(e) \in Address /\ Lower(e).name = e.name /\ Lower(e).capitals = FALSE
      BY <3>1 DEF Lower, Address
    <3>4. Lower(e) = e
      BY <3>1, <3>2, <3>3 DEF Address
    <3> QED
      BY <3>1, <3>4 DEF LowerCase
  <2>2. d \in Draft /\ d.kind = "bootstrap" /\ d.email.name = Operator
    BY <2>1 DEF Draft, Kind, Role
  <2>3. Select(w, d)
    BY <1>3 DEF StartUp
  <2>4. w \in Creators /\ w \notin Requests
    BY CreatorsAssumption DEF Creators
  <2> HIDE DEF d
  <2> QED
    BY <2>2, <2>3, <2>4, SelectStep
<1>4. ASSUME NEW w \in Workers, Stop(w) PROVE IInv'
  BY <1>4, LeaveStep DEF Creators
<1>5. ASSUME NEW c \in Creators, Proceed(c) PROVE IInv'
  BY <1>5, InsertStep, LinkStep, CommitStep DEF Proceed
<1>6. ASSUME NEW c \in Creators, Crash(c) PROVE IInv'
  BY <1>6, LeaveStep
<1>7. ASSUME NEW o \in Orders, NEW a \in Address, PlaceAsGuest(o, a) PROVE IInv'
  BY <1>7, PlaceStep DEF PlaceAsGuest
<1>8. ASSUME NEW o \in Orders, NEW u \in accounts, PlaceAsUser(o, u) PROVE IInv'
  <2>1. u.email \in Address /\ u.id \in Creators
    BY LowerCases DEF TypeOK, Account
  <2> QED
    BY <1>8, <2>1, PlaceStep DEF PlaceAsUser
<1>9. ASSUME NEW c \in Changes, NEW admin \in accounts, NEW user \in accounts,
             NEW role \in Role, Authorise(c, admin, user, role)
      PROVE  IInv'
  BY <1>9, ChangeStep
<1>10. ASSUME NEW c \in Changes, LoadTarget(c) \/ ChangeFails(c) PROVE IInv'
  BY <1>10, ChangeStep
<1>11. ASSUME NEW c \in Changes, SaveRole(c) PROVE IInv'
  BY <1>11, SaveStep
<1>12. CASE UNCHANGED vars
  BY <1>12 DEF vars, creation, changing, TypeOK, DraftsOK, EntriesOK, HoldsEntry,
     RegisteredOK, LinkedOK, Claimed, ChangesOK, OneAccountEach, OperatorIsBootstrapped,
     Accepting, OrdersBelong, UnlinkedHasReason
<1> QED
  BY <1>1, <1>2, <1>3, <1>4, <1>5, <1>6, <1>7, <1>8, <1>9, <1>10, <1>11, <1>12 DEF Next

\* The inductive invariant holds throughout.
THEOREM Invariant == Spec => []IInv
<1> QED
  BY InitOK, Inductive, PTL DEF Spec

-----------------------------------------------------------------------------
(* What follows.                                                           *)

\* The variables keep their types: an account always has a lower-case e-mail
\* and a role, whoever created it.
THEOREM TypeCorrect == Spec => []TypeOK
<1>1. IInv => TypeOK
  BY DEF IInv
<1> QED
  BY <1>1, Invariant, PTL

\* An address has one account, however many registrations, admins and starting
\* workers look it up at once: the unique index stands in for the missing lock.
THEOREM OneAccount == Spec => []OneAccountEach
<1>1. IInv => OneAccountEach
  BY DEF IInv
<1> QED
  BY <1>1, Invariant, PTL

\* The address of the first super admin cannot be registered by anybody, with
\* any number of workers starting, failing and starting again.
THEOREM Operators == Spec => []OperatorIsBootstrapped
<1>1. IInv => OperatorIsBootstrapped
  BY DEF IInv
<1> QED
  BY <1>1, Invariant, PTL

\* An order belongs to the account of its e-mail: linking never takes another's.
THEOREM Belong == Spec => []OrdersBelong
<1>1. IInv => OrdersBelong
  BY DEF IInv
<1> QED
  BY <1>1, Invariant, PTL

\* The guest orders that a registration misses are those with capitals and those
\* committed after its UPDATE, and no others.
THEOREM Unlinked == Spec => []UnlinkedHasReason
<1>1. IInv => UnlinkedHasReason
  BY DEF IInv
<1> QED
  BY <1>1, Invariant, PTL

\* Changes of role that do not overlap leave a super admin: whoever demotes the
\* last one has been demoted since the request began.
THEOREM LastAdmin == Spec => LastAdminNeedsOverlap
<1> DEFINE Step == SuperAdmins # {} /\ SuperAdmins' = {} =>
       \E c \in Changes : /\ cpc[c] = "loaded" /\ cpc'[c] = "ended"
                          /\ \A u \in SuperAdmins : u.id # change[c].admin
<1>1. IInv /\ [Next]_vars => [Step]_vars
  <2> SUFFICES ASSUME IInv, Next, SuperAdmins # {}, SuperAdmins' = {}
               PROVE  \E c \in Changes :
                        /\ cpc[c] = "loaded" /\ cpc'[c] = "ended"
                        /\ \A u \in SuperAdmins : u.id # change[c].admin
    OBVIOUS
  <2>1. ~(accounts \subseteq accounts')
    BY DEF SuperAdmins
  <2>2. PICK c \in Changes : SaveRole(c)
    BY <2>1 DEF Next, Register, CreateUser, StartUp, Select, Stop, Proceed, Insert,
       LinkOrders, Commit, Crash, PlaceAsGuest, PlaceAsUser, Place, Authorise,
       LoadTarget, ChangeFails
  <2>3. /\ cpc[c] = "loaded" /\ cpc'[c] = "ended"
        /\ change[c].admin # change[c].user
    BY <2>2 DEF SaveRole, EndChange, MoveChange, IInv, ChangesOK, TypeOK
  <2>4. ASSUME NEW u \in SuperAdmins, u.id = change[c].admin PROVE FALSE
    <3>1. u \in accounts' /\ u.role = "super_admin"
      BY <2>2, <2>3, <2>4 DEF SaveRole, SuperAdmins
    <3> QED
      BY <3>1 DEF SuperAdmins
  <2> QED
    BY <2>3, <2>4
<1> QED
  BY <1>1, Invariant, PTL DEF Spec, LastAdminNeedsOverlap
=============================================================================
