\* One order and a foreign reference; a webhook, a buyer and a seller overlap.
CONSTANTS
  o1 = o1
  o2 = o2
  w1 = w1
  b1 = b1
  b2 = b2
  s1 = s1
  NoOrder = NoOrder
  Gateway = "stripe"
  Orders = {o1, o2}
  Foreign = {o2}
  Webhooks = {w1}
  Confirms = {b1}
  Updates = {s1}
  Chosen = {"in_transit", "delivered"}
SPECIFICATION FairSpec
INVARIANTS
  TypeOK
  Stamped
  MailsAreTrue
PROPERTIES
  PaymentsRecorded
