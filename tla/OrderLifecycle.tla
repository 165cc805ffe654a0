---------------------------- MODULE OrderLifecycle ----------------------------
(***************************************************************************)
(* The life of an order row after checkout: payment webhooks               *)
(* (app/services/webhook.py), the buyer's confirmation                     *)
(* (app/api/v1/orders.py) and the sellers' status changes                  *)
(* (app/api/v1/sellers.py), with the mails they send.                      *)
(*                                                                         *)
(* Every handler reads the row without a lock, decides on what it read,    *)
(* and at commit writes the columns it changed; then it sends a mail, and  *)
(* answers.  Handlers overlap freely.  The payment gateway repeats an      *)
(* event until it is answered 200, and may repeat it after that.           *)
(***************************************************************************)
EXTENDS Naturals, FiniteSets

CONSTANTS
  Orders,    \* order ids
  Foreign,   \* references charged on the gateway account by something else
  Webhooks,  \* webhook requests that can be in progress at once
  Confirms,  \* confirm-received requests that can be
  Updates,   \* seller status requests that can be
  Chosen,    \* the statuses sellers choose from
  Gateway,   \* PAYMENT_GATEWAY
  NoOrder    \* the row does not exist

ASSUME GatewayAssumption == Gateway \in {"paystack", "stripe"}
ASSUME ForeignAssumption == Foreign \subseteq Orders
ASSUME SlotsAssumption ==
  Webhooks \cap Confirms = {} /\ Webhooks \cap Updates = {} /\ Confirms \cap Updates = {}

Requests == Webhooks \cup Confirms \cup Updates

Status == {"pending", "paid", "in_escrow", "in_transit", "delivered", "failed", "cancelled"}

\* Columns that a handler only ever sets: payment_status = paid, and three times.
Marks == {"payment", "paid_at", "in_transit_at", "delivered_at"}

Row == [status : Status, marks : SUBSET Marks]
ASSUME RowAssumption == NoOrder \notin Row /\ Chosen \subseteq Status

\* What a handler found, and the columns it will write; "keep" leaves status out.
Work == [stage : {"loaded", "committed"}, order : Orders,
         status : Status \cup {"keep"}, marks : SUBSET Marks, announce : Status]
Idle == [stage |-> "idle"]

VARIABLES
  order,    \* committed orders rows
  linked,   \* orders whose user_id is set
  charged,  \* external: references the customer has paid
  acked,    \* external: references whose event was answered 200
  work,     \* what each request in progress is doing
  mailed,   \* the status the last mail about each order announced
  held      \* ghost: statuses each order's committed row has had

vars == <<order, linked, charged, acked, work, mailed, held>>

Init ==
  /\ order = [o \in Orders |-> NoOrder]
  /\ linked = {}
  /\ charged = {}
  /\ acked = {}
  /\ work = [r \in Requests |-> Idle]
  /\ mailed = [o \in Orders |-> "none"]
  /\ held = [o \in Orders |-> {}]

Placed(o) == order[o] # NoOrder

-----------------------------------------------------------------------------
(* Around the handlers.                                                    *)

\* A checkout commits, by a guest or by a logged-in buyer.
Place(o, byUser) ==
  /\ ~Placed(o)
  /\ o \notin Foreign
  /\ order' = [order EXCEPT ![o] = [status |-> "pending", marks |-> {}]]
  /\ linked' = IF byUser THEN linked \cup {o} ELSE linked
  /\ held' = [held EXCEPT ![o] = @ \cup {"pending"}]
  /\ UNCHANGED <<charged, acked, work, mailed>>

\* register_buyer links the guest orders of the new account's e-mail.
LinkOrder(o) ==
  /\ Placed(o) /\ o \notin linked
  /\ linked' = linked \cup {o}
  /\ UNCHANGED <<order, charged, acked, work, mailed, held>>

\* The customer pays on the gateway's page.
Charge(o) ==
  /\ Placed(o) \/ o \in Foreign
  /\ o \notin charged
  /\ charged' = charged \cup {o}
  /\ UNCHANGED <<order, linked, acked, work, mailed, held>>

-----------------------------------------------------------------------------
(* The handlers, up to their commit.                                       *)

\* The ORM leaves out a column whose new value is the one it loaded.
Begin(r, o, status, marks) ==
  work' = [work EXCEPT ![r] =
    [stage |-> "loaded", order |-> o,
     status |-> IF status = order[o].status THEN "keep" ELSE status,
     marks |-> marks \ order[o].marks,
     announce |-> status]]

\* Slip: the event is answered first and worked on afterwards.
ReceiveAnswered(w, o) ==
  /\ work[w] = Idle
  /\ o \in charged
  /\ acked' = acked \cup {o}
  /\ IF Placed(o) THEN Begin(w, o, "in_escrow", {"payment", "paid_at"})
                  ELSE UNCHANGED work
  /\ UNCHANGED <<order, linked, charged, mailed, held>>

\* charge.success or checkout.session.completed: whatever the order's status is,
\* it is in escrow now.  An unknown reference is answered 404 to Paystack, which
\* will ask again, and 200 to Stripe, which will not.
ReceiveWebhook(w, o) ==
  /\ work[w] = Idle
  /\ o \in charged
  /\ IF Placed(o)
     THEN Begin(w, o, "in_escrow", {"payment", "paid_at"}) /\ UNCHANGED acked
     ELSE /\ acked' = IF Gateway = "stripe" THEN acked \cup {o} ELSE acked
          /\ UNCHANGED work
  /\ UNCHANGED <<order, linked, charged, mailed, held>>

\* The two checks of confirm_order_received.
CanConfirm(o) == order[o].status \notin {"delivered", "cancelled", "failed"}

\* confirm_order_received: the buyer's own order, in any status but three.
StartConfirm(b, o) ==
  /\ work[b] = Idle
  /\ Placed(o) /\ o \in linked
  /\ CanConfirm(o)
  /\ Begin(b, o, "delivered", {"payment", "delivered_at"})
  /\ UNCHANGED <<order, linked, charged, acked, mailed, held>>

\* Slip: a seller's "delivered" only dates the delivery.
SideEffectsUnpaid(row, status) ==
  CASE status = "in_transit" -> {"in_transit_at"}
    [] status = "delivered"  -> {"delivered_at"}
    [] status \in {"paid", "in_escrow"} /\ "paid_at" \notin row.marks -> {"paid_at", "payment"}
    [] OTHER -> {}

\* The columns update_order_status sets beside status, given the row it read.
SideEffects(row, status) ==
  CASE status = "in_transit" -> {"in_transit_at"}
    [] status = "delivered"  -> {"delivered_at", "payment"}
    [] status \in {"paid", "in_escrow"} /\ "paid_at" \notin row.marks -> {"paid_at", "payment"}
    [] OTHER -> {}

\* update_order_status: any seller, any order, any status.
StartUpdate(s, o, status) ==
  /\ work[s] = Idle
  /\ Placed(o)
  /\ Begin(s, o, status, SideEffects(order[o], status))
  /\ UNCHANGED <<order, linked, charged, acked, mailed, held>>

\* Slip: the column left out is written anyway.
WrittenKeep(row, j) == [status |-> j.status, marks |-> row.marks \cup j.marks]

\* db.commit(): the changed columns go into the row as it is by now.
Written(row, j) ==
  [status |-> IF j.status = "keep" THEN row.status ELSE j.status,
   marks  |-> row.marks \cup j.marks]

Commit(r) ==
  /\ work[r] # Idle /\ work[r].stage = "loaded"
  /\ LET o == work[r].order
     IN /\ order' = [order EXCEPT ![o] = Written(order[o], work[r])]
        /\ held' = [held EXCEPT ![o] = @ \cup {Written(order[o], work[r]).status}]
  /\ work' = [work EXCEPT ![r].stage = "committed"]
  /\ UNCHANGED <<linked, charged, acked, mailed>>

-----------------------------------------------------------------------------
(* After the commit.                                                       *)

Answer(r) ==
  /\ acked' = IF r \in Webhooks THEN acked \cup {work[r].order} ELSE acked
  /\ work' = [work EXCEPT ![r] = Idle]

\* Slip: the mail goes out before the commit.
NotifyEarly(r) ==
  /\ work[r] # Idle
  /\ mailed' = [mailed EXCEPT ![work[r].order] = work[r].announce]
  /\ UNCHANGED <<order, linked, charged, acked, work, held>>

\* send_order_status_email; a provider's failure is swallowed, and no mail sent.
Notify(r) ==
  /\ work[r] # Idle /\ work[r].stage = "committed"
  /\ \/ mailed' = [mailed EXCEPT ![work[r].order] = work[r].announce]
     \/ UNCHANGED mailed
  /\ Answer(r)
  /\ UNCHANGED <<order, linked, charged, held>>

\* The process or its database connection dies under the request.
Crash(r) ==
  /\ work[r] # Idle
  /\ work' = [work EXCEPT ![r] = Idle]
  /\ UNCHANGED <<order, linked, charged, acked, mailed, held>>

-----------------------------------------------------------------------------
Handler ==
  \/ \E w \in Webhooks, o \in Orders : ReceiveWebhook(w, o)
  \/ \E b \in Confirms, o \in Orders : StartConfirm(b, o)
  \/ \E s \in Updates, o \in Orders, status \in Chosen : StartUpdate(s, o, status)
  \/ \E r \in Requests : Commit(r) \/ Notify(r) \/ Crash(r)

Next ==
  \/ \E o \in Orders, byUser \in BOOLEAN : Place(o, byUser)
  \/ \E o \in Orders : LinkOrder(o) \/ Charge(o)
  \/ Handler

Spec == Init /\ [][Next]_vars

\* Every event not yet acknowledged is sent again and again, and a crash does
\* not meet every one of its handlers; a handler that is left alone goes on.
Fairness ==
  /\ \A o \in Orders :
       /\ SF_vars(o \notin acked /\ \E w \in Webhooks : ReceiveWebhook(w, o))
       /\ SF_vars(\E w \in Webhooks : work[w] # Idle /\ work[w].order = o /\ Commit(w))
  /\ \A r \in Requests : WF_vars(Commit(r) \/ Notify(r))

FairSpec == Spec /\ Fairness

-----------------------------------------------------------------------------
(* Properties.                                                             *)

TypeOK ==
  /\ order \in [Orders -> Row \cup {NoOrder}]
  /\ linked \subseteq Orders
  /\ charged \subseteq Orders
  /\ acked \subseteq Orders
  /\ work \in [Requests -> Work \cup {Idle}]
  /\ mailed \in [Orders -> Status \cup {"none"}]
  /\ held \in [Orders -> SUBSET Status]

\* The stamps the readers of an order rely on for each status.
Stamps(status) ==
  CASE status = "delivered"            -> {"payment", "delivered_at"}
    [] status \in {"paid", "in_escrow"} -> {"payment", "paid_at"}
    [] status = "in_transit"           -> {"in_transit_at"}
    [] OTHER                           -> {}

\* However unlocked reads and column-wise writes of webhooks, buyers and sellers
\* interleave, a row's status and its stamps agree: a delivered order is paid and
\* dated, a secured one is paid and dated, one in transit is dated.
Stamped ==
  \A o \in Orders : Placed(o) =>
    /\ Stamps(order[o].status) \subseteq order[o].marks
    /\ "paid_at" \in order[o].marks => "payment" \in order[o].marks

\* The customer is never told of a status the order has not had: mails follow
\* commits, and say what was committed even if the row has moved on.
MailsAreTrue ==
  \A o \in Orders : mailed[o] # "none" => mailed[o] \in held[o]

\* Every payment of an order ends up on its row and stays there, through lost
\* and repeated events, crashes and other writers.
PaymentsRecorded ==
  \A o \in Orders :
    (<>(o \in charged /\ Placed(o))) =>
      <>[](Placed(o) /\ {"payment", "paid_at"} \subseteq order[o].marks)

\* confirm_order_received answers "Order has already been confirmed as delivered"
\* (orders.py:284) and "Cannot confirm receipt for a cancelled or failed order"
\* (orders.py:290): a confirmation is committed on an order that can be confirmed.
ConfirmationsHold ==
  [][\A b \in Confirms : Commit(b) => CanConfirm(work[b].order)]_vars

\* orders.py:271 says that confirming releases escrow funds: there are some, the
\* order having been paid.
ReleaseNeedsEscrow ==
  [][\A b \in Confirms : Commit(b) => "payment" \in order[work[b].order].marks]_vars

\* orders.py:223 tells the buyer of a delivered order that the funds have been
\* released: a payment event does not put them back in escrow.
ReleasedStaysReleased ==
  [][\A w \in Webhooks : Commit(w) =>
       (order[work[w].order].status = "delivered" => order'[work[w].order].status = "delivered")]_vars
=============================================================================
