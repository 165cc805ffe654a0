\* Two seller requests and one visitor at a time, on two processes; one Redis
\* command fails.
CONSTANTS
  m1 = m1
  m2 = m2
  v1 = v1
  w1 = w1
  w2 = w2
  shoes = shoes
  socks = socks
  Gone = Gone
  Absent = Absent
  NoImage = NoImage
  Nothing = Nothing
  Picture = Picture
  Mutations = {m1, m2}
  Visitors = {v1}
  Workers = {w1, w2}
  At <- MCAt
  Categories = {shoes, socks}
  First = shoes
  Payloads <- MCPayloads
  Shared = {Picture}
  MaxEvents = 1
SPECIFICATION FairSpec
INVARIANTS
  TypeOK
  DanglingNeedsCause
  GalleryLossNeedsWriter
  StaleNeedsCause
PROPERTIES
  CacheCatchesUp
