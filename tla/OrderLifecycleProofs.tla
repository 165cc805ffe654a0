------------------------- MODULE OrderLifecycleProofs -------------------------
(***************************************************************************)
(* OrderLifecycle's invariants for any number of orders and of overlapping *)
(* requests: a row's status and stamps agree, and mails say what was true. *)
(***************************************************************************)
EXTENDS OrderLifecycle, TLAPS

\* What a request in progress carries.  Its stamps suffice for the status it
\* will write together with those the row has by then, because stamps are only
\* ever added; and what its mail will announce is committed with it.
WorkOK ==
  \A r \in Requests : work[r] # Idle =>
    LET j == work[r]
        row == order[j.order]
    IN /\ Placed(j.order)
       /\ j.status # "keep" => /\ j.status = j.announce
                               /\ Stamps(j.status) \subseteq (row.marks \cup j.marks)
       /\ "paid_at" \in j.marks => "payment" \in (row.marks \cup j.marks)
       /\ j.status = "keep" \/ j.stage = "committed" => j.announce \in held[j.order]

\* The ghost holds the committed status.
HeldOK == \A o \in Orders : Placed(o) => order[o].status \in held[o]

IInv == TypeOK /\ WorkOK /\ HeldOK /\ Stamped /\ MailsAreTrue

-----------------------------------------------------------------------------
\* A placed order is a row with a status and a set of marks.
LEMMA RowType ==
  ASSUME TypeOK, NEW o \in Orders, Placed(o)
  PROVE  order[o] \in Row /\ order[o].status \in Status /\ order[o].marks \subseteq Marks
BY DEF TypeOK, Placed, Row

\* A request in progress carries work on an order.
LEMMA WorkType ==
  ASSUME TypeOK, NEW r \in Requests, work[r] # Idle
  PROVE  /\ work[r] \in Work
         /\ work[r].order \in Orders
         /\ work[r].status \in Status \cup {"keep"}
         /\ work[r].marks \subseteq Marks
         /\ work[r].announce \in Status
BY DEF TypeOK, Work

\* An idle request carries no work.
LEMMA IdleNotWork == Idle \notin Work
BY DEF Idle, Work

\* "keep" is told apart from every status a handler writes.
LEMMA KeepIsNoStatus == "keep" \notin Status
BY DEF Status

\* Any handler that begins with stamps fit for its status keeps the invariant.
LEMMA BeginStep ==
  ASSUME IInv, NEW r \in Requests, NEW o \in Orders, Placed(o),
         NEW status \in Status, NEW marks \in SUBSET Marks,
         Stamps(status) \subseteq (order[o].marks \cup marks),
         "paid_at" \in marks => "payment" \in marks,
         Begin(r, o, status, marks),
         UNCHANGED <<order, linked, charged, mailed, held>>, acked' \subseteq Orders
  PROVE  IInv'
<1> DEFINE j == [stage |-> "loaded", order |-> o,
                 status |-> IF status = order[o].status THEN "keep" ELSE status,
                 marks |-> marks \ order[o].marks,
                 announce |-> status]
<1>1. work' = [work EXCEPT ![r] = j]
  BY DEF Begin
<1>2. j \in Work
  BY RowType DEF IInv, Work
<1>3. TypeOK'
  BY <1>1, <1>2 DEF IInv, TypeOK
<1>4. WorkOK'
  <2>1. ASSUME NEW x \in Requests, work'[x] # Idle
        PROVE  /\ Placed(work'[x].order)
               /\ work'[x].status # "keep" =>
                    /\ work'[x].status = work'[x].announce
                    /\ Stamps(work'[x].status) \subseteq
                         (order[work'[x].order].marks \cup work'[x].marks)
               /\ "paid_at" \in work'[x].marks =>
                    "payment" \in (order[work'[x].order].marks \cup work'[x].marks)
               /\ work'[x].status = "keep" \/ work'[x].stage = "committed" =>
                    work'[x].announce \in held[work'[x].order]
    <3>1. CASE x = r
      <4>1. work'[x] = j
        BY <1>1, <3>1 DEF IInv, TypeOK
      <4>2. j.status = "keep" => status = order[o].status
        BY KeepIsNoStatus
      <4>3. order[o].status \in held[o]
        BY DEF IInv, HeldOK
      <4> QED
        BY <4>1, <4>2, <4>3
    <3>2. CASE x # r
      BY <1>1, <2>1, <3>2 DEF IInv, TypeOK, WorkOK
    <3> QED
      BY <3>1, <3>2
  <2> QED
    BY <2>1 DEF WorkOK, Placed
<1>5. HeldOK' /\ Stamped' /\ MailsAreTrue'
  BY DEF IInv, HeldOK, Stamped, MailsAreTrue, Placed
<1> QED
  BY <1>3, <1>4, <1>5 DEF IInv

\* A payment event begins with the stamps of a secured order.
LEMMA ReceiveStep ==
  ASSUME IInv, NEW w \in Webhooks, NEW o \in Orders, ReceiveWebhook(w, o)
  PROVE  IInv'
<1>1. w \in Requests /\ acked' \subseteq Orders
  BY DEF Requests, ReceiveWebhook, IInv, TypeOK
<1>2. CASE Placed(o)
  <2>1. Stamps("in_escrow") = {"payment", "paid_at"}
    BY DEF Stamps
  <2> QED
    BY <1>1, <1>2, <2>1, BeginStep DEF ReceiveWebhook, Status, Marks
<1>3. CASE ~Placed(o)
  BY <1>1, <1>3 DEF ReceiveWebhook, IInv, TypeOK, WorkOK, HeldOK, Stamped,
                    MailsAreTrue, Placed
<1> QED
  BY <1>2, <1>3

\* A confirmation begins with the stamps of a delivered order.
LEMMA ConfirmStep ==
  ASSUME IInv, NEW b \in Confirms, NEW o \in Orders, StartConfirm(b, o)
  PROVE  IInv'
<1>1. b \in Requests /\ acked' \subseteq Orders
  BY DEF Requests, StartConfirm, IInv, TypeOK
<1>2. Stamps("delivered") = {"payment", "delivered_at"}
  BY DEF Stamps
<1> QED
  BY <1>1, <1>2, BeginStep DEF StartConfirm, Status, Marks

\* The one case in which a seller's status brings no stamps is that the row,
\* having paid_at, has them already.
LEMMA UpdateStep ==
  ASSUME IInv, NEW s \in Updates, NEW o \in Orders, NEW status \in Chosen,
         StartUpdate(s, o, status)
  PROVE  IInv'
<1> DEFINE marks == SideEffects(order[o], status)
<1>1. s \in Requests /\ acked' \subseteq Orders /\ status \in Status /\ Placed(o)
  BY RowAssumption DEF Requests, StartUpdate, IInv, TypeOK
<1>2. marks \in SUBSET Marks /\ ("paid_at" \in marks => "payment" \in marks)
  BY DEF SideEffects, Marks
<1>3. "paid_at" \in order[o].marks => "payment" \in order[o].marks
  BY <1>1 DEF IInv, Stamped
<1>4. Stamps(status) \subseteq (order[o].marks \cup marks)
  BY <1>1, <1>3 DEF Stamps, SideEffects
<1>5. Begin(s, o, status, marks) /\ UNCHANGED <<order, linked, charged, mailed, held>>
  BY DEF StartUpdate
<1> HIDE DEF marks
<1> QED
  BY <1>1, <1>2, <1>4, <1>5, BeginStep

\* A commit adds stamps to its own row and to no other, and dates what it writes.
LEMMA CommitStep ==
  ASSUME IInv, NEW r \in Requests, Commit(r)
  PROVE  IInv'
<1> DEFINE j == work[r]
           o == j.order
           row == order[o]
           new == Written(row, j)
<1>1. /\ j # Idle /\ j \in Work /\ o \in Orders
      /\ j.status \in Status \cup {"keep"} /\ j.marks \subseteq Marks
      /\ j.announce \in Status
  BY WorkType DEF Commit, IInv
<1>2. /\ Placed(o)
      /\ row \in Row /\ row.status \in Status /\ row.marks \subseteq Marks
  BY <1>1, RowType DEF IInv, WorkOK
<1>3. /\ new \in Row
      /\ new.marks = row.marks \cup j.marks
      /\ new.status = IF j.status = "keep" THEN row.status ELSE j.status
      /\ new # NoOrder
  BY <1>1, <1>2, RowAssumption DEF Written, Row
<1>4. /\ order' = [order EXCEPT ![o] = new]
      /\ held' = [held EXCEPT ![o] = held[o] \cup {new.status}]
      /\ work' = [work EXCEPT ![r].stage = "committed"]
      /\ UNCHANGED <<linked, charged, acked, mailed>>
  BY DEF Commit
<1>5. /\ work'[r] # Idle
      /\ work'[r] \in Work
      /\ work'[r].order = o /\ work'[r].status = j.status
      /\ work'[r].marks = j.marks /\ work'[r].announce = j.announce
  BY <1>1, <1>4, IdleNotWork DEF IInv, TypeOK, Work
<1>6. /\ j.status # "keep" => /\ j.status = j.announce
                              /\ Stamps(j.status) \subseteq (row.marks \cup j.marks)
      /\ "paid_at" \in j.marks => "payment" \in (row.marks \cup j.marks)
      /\ j.status = "keep" => j.announce \in held[o]
  BY <1>1 DEF IInv, WorkOK
<1>7. /\ Stamps(row.status) \subseteq row.marks
      /\ "paid_at" \in row.marks => "payment" \in row.marks
  BY <1>1, <1>2 DEF IInv, Stamped
<1>8. order'[o] = new /\ held'[o] = held[o] \cup {new.status}
  BY <1>1, <1>4 DEF IInv, TypeOK
<1>9. \A x \in Orders \ {o} : order'[x] = order[x] /\ held'[x] = held[x]
  BY <1>4 DEF IInv, TypeOK
<1>10. \A x \in Requests \ {r} : work'[x] = work[x]
  BY <1>4 DEF IInv, TypeOK
<1> HIDE DEF new, row, o, j
<1>11. TypeOK'
  <2>1. new.status \in Status
    BY <1>3 DEF Row
  <2> QED
    BY <1>1, <1>3, <1>4, <1>5, <1>10, <2>1 DEF IInv, TypeOK
<1>12. WorkOK'
  <2>1. ASSUME NEW x \in Requests, work'[x] # Idle
        PROVE  /\ order'[work'[x].order] # NoOrder
               /\ work'[x].status # "keep" =>
                    /\ work'[x].status = work'[x].announce
                    /\ Stamps(work'[x].status) \subseteq
                         (order'[work'[x].order].marks \cup work'[x].marks)
               /\ "paid_at" \in work'[x].marks =>
                    "payment" \in (order'[work'[x].order].marks \cup work'[x].marks)
               /\ work'[x].status = "keep" \/ work'[x].stage = "committed" =>
                    work'[x].announce \in held'[work'[x].order]
    <3>1. CASE x = r
      <4>1. new.status = j.status \/ j.status = "keep"
        BY <1>3
      <4> QED
        BY <1>3, <1>5, <1>6, <1>8, <3>1, <4>1
    <3>2. CASE x # r
      <4>1. work'[x] = work[x] /\ work[x] # Idle /\ work[x].order \in Orders
        BY <1>10, <2>1, <3>2, WorkType DEF IInv
      <4>2. CASE work[x].order = o
        <5>1. row = order[work[x].order]
          BY <4>2 DEF row
        <5>2. /\ work[x].status # "keep" =>
                   /\ work[x].status = work[x].announce
                   /\ Stamps(work[x].status) \subseteq (row.marks \cup work[x].marks)
              /\ "paid_at" \in work[x].marks =>
                   "payment" \in (row.marks \cup work[x].marks)
              /\ work[x].status = "keep" \/ work[x].stage = "committed" =>
                   work[x].announce \in held[o]
          BY <4>1, <4>2, <5>1 DEF IInv, WorkOK
        <5> QED
          BY <1>3, <1>8, <4>1, <4>2, <5>2
      <4>3. CASE work[x].order # o
        BY <1>9, <4>1, <4>3 DEF IInv, WorkOK, Placed
      <4> QED
        BY <4>2, <4>3
    <3> QED
      BY <3>1, <3>2
  <2> QED
    BY <2>1 DEF WorkOK, Placed
<1>13. HeldOK'
  BY <1>8, <1>9 DEF IInv, HeldOK, Placed
<1>14. Stamped'
  <2>1. Stamps(new.status) \subseteq new.marks
    BY <1>3, <1>6, <1>7
  <2>2. "paid_at" \in new.marks => "payment" \in new.marks
    BY <1>3, <1>6, <1>7
  <2> QED
    BY <1>8, <1>9, <2>1, <2>2 DEF IInv, Stamped, Placed
<1>15. MailsAreTrue'
  BY <1>4, <1>8, <1>9 DEF IInv, MailsAreTrue
<1> QED
  BY <1>11, <1>12, <1>13, <1>14, <1>15 DEF IInv

\* A mail follows the commit of what it announces.
LEMMA NotifyStep ==
  ASSUME IInv, NEW r \in Requests, Notify(r)
  PROVE  IInv'
<1> DEFINE j == work[r]
<1>1. /\ j.order \in Orders /\ j.announce \in Status
      /\ j.announce \in held[j.order]
  BY WorkType DEF Notify, IInv, WorkOK
<1>2. /\ work' = [work EXCEPT ![r] = Idle]
      /\ acked' = IF r \in Webhooks THEN acked \cup {j.order} ELSE acked
      /\ \/ mailed' = [mailed EXCEPT ![j.order] = j.announce]
         \/ UNCHANGED mailed
      /\ UNCHANGED <<order, linked, charged, held>>
  BY DEF Notify, Answer
<1> HIDE DEF j
<1>3. TypeOK'
  BY <1>1, <1>2 DEF IInv, TypeOK
<1>4. WorkOK'
  BY <1>2 DEF IInv, TypeOK, WorkOK, Placed
<1>5. HeldOK' /\ Stamped' /\ MailsAreTrue'
  BY <1>1, <1>2 DEF IInv, TypeOK, HeldOK, Stamped, MailsAreTrue, Placed
<1> QED
  BY <1>3, <1>4, <1>5 DEF IInv

\* A new order is pending, and owes no stamp.
LEMMA PlaceStep ==
  ASSUME IInv, NEW o \in Orders, NEW byUser \in BOOLEAN, Place(o, byUser)
  PROVE  IInv'
<1> DEFINE new == [status |-> "pending", marks |-> {}]
<1>1. new \in Row /\ new # NoOrder /\ "pending" \in Status
  BY RowAssumption DEF Row, Status
<1>2. TypeOK'
  BY <1>1 DEF Place, IInv, TypeOK
<1>3. WorkOK'
  BY DEF Place, IInv, TypeOK, WorkOK, Placed, Work
<1>4. Stamps("pending") = {}
  BY DEF Stamps
<1>5. HeldOK' /\ Stamped'
  BY <1>4 DEF Place, IInv, TypeOK, HeldOK, Stamped, Placed
<1>6. MailsAreTrue'
  BY DEF Place, IInv, TypeOK, MailsAreTrue, HeldOK, Placed
<1> QED
  BY <1>2, <1>3, <1>5, <1>6 DEF IInv

\* Every step keeps the invariant.
LEMMA StepInv ==
  ASSUME IInv, [Next]_vars
  PROVE  IInv'
<1>1. CASE UNCHANGED vars
  BY <1>1 DEF vars, IInv, TypeOK, WorkOK, HeldOK, Stamped, MailsAreTrue, Placed
<1>2. CASE \E o \in Orders, byUser \in BOOLEAN : Place(o, byUser)
  BY <1>2, PlaceStep
<1>3. CASE \E o \in Orders : LinkOrder(o) \/ Charge(o)
  BY <1>3 DEF LinkOrder, Charge, IInv, TypeOK, WorkOK, HeldOK, Stamped,
              MailsAreTrue, Placed
<1>4. CASE \E w \in Webhooks, o \in Orders : ReceiveWebhook(w, o)
  BY <1>4, ReceiveStep
<1>5. CASE \E b \in Confirms, o \in Orders : StartConfirm(b, o)
  BY <1>5, ConfirmStep
<1>6. CASE \E s \in Updates, o \in Orders, status \in Chosen : StartUpdate(s, o, status)
  BY <1>6, UpdateStep
<1>7. CASE \E r \in Requests : Commit(r)
  BY <1>7, CommitStep
<1>8. CASE \E r \in Requests : Notify(r)
  BY <1>8, NotifyStep
<1>9. CASE \E r \in Requests : Crash(r)
  BY <1>9 DEF Crash, IInv, TypeOK, WorkOK, HeldOK, Stamped, MailsAreTrue, Placed
<1> QED
  BY <1>1, <1>2, <1>3, <1>4, <1>5, <1>6, <1>7, <1>8, <1>9 DEF Next, Handler

\* The strengthened invariant holds throughout.
THEOREM Inductive == Spec => []IInv
<1>1. Init => IInv
  BY RowAssumption DEF Init, IInv, TypeOK, WorkOK, HeldOK, Stamped, MailsAreTrue, Placed
<1> QED
  BY <1>1, StepInv, PTL DEF Spec

\* The variables keep their types: the row keeps one of the seven statuses.
THEOREM TypeCorrect == Spec => []TypeOK
BY Inductive, PTL DEF IInv

\* Status and stamps of every order agree, however requests overlap.
THEOREM RowsAreStamped == Spec => []Stamped
BY Inductive, PTL DEF IInv

\* No mail announces a status the order never had.
THEOREM NoFalseMail == Spec => []MailsAreTrue
BY Inductive, PTL DEF IInv
=============================================================================
