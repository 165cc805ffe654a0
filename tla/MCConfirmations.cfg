\* Two confirmations and a seller who cancels.
CONSTANTS
  o1 = o1
  o2 = o2
  w1 = w1
  b1 = b1
  b2 = b2
  s1 = s1
  NoOrder = NoOrder
  Gateway = "paystack"
  Orders = {o1}
  Foreign = {}
  Webhooks = {}
  Confirms = {b1, b2}
  Updates = {s1}
  Chosen = {"cancelled"}
SPECIFICATION Spec
PROPERTIES
  ConfirmationsHold
