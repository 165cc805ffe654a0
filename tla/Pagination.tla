------------------------------ MODULE Pagination ------------------------------
(***************************************************************************)
(* The keyset pagination of the list endpoints (app/schemas/pagination.py  *)
(* and the seven handlers that use it) beside requests that insert, delete *)
(* and change the rows being listed.                                       *)
(*                                                                         *)
(* A page is one SELECT.  Its cursors hold the sort value and the id of    *)
(* the row they were made from, as they were then; the row may be gone or  *)
(* changed when the cursor comes back.                                     *)
(***************************************************************************)
EXTENDS Naturals, Sequences, SequencesExt

CONSTANTS
  Names,      \* the list endpoints to look at: names in DOMAIN Endpoints
  Rows,       \* ids, in the order the database compares them
  Histories,  \* the created_at that rows may have: functions on Rows; rows may share one
  Prices,     \* prices; rows may share one
  Limits,     \* limits the client chooses from
  Missing,    \* the query parameter, or the cursor, is not there
  Empty,      \* the query parameter is the empty string
  Blank       \* whether clients send it: {} or {Empty}

\* A cursor holds a sort value, of a price or of a date, and an id.
Cursor == [isPrice : BOOLEAN, value : Nat, id : Rows]

ASSUME PageAssumption ==
  /\ Rows \subseteq Nat /\ IsFiniteSet(Rows) /\ Histories \subseteq [Rows -> Nat]
  /\ Prices \subseteq Nat /\ Limits \subseteq Nat \ {0}
ASSUME NullAssumption == Missing # Empty /\ {Missing, Empty} \cap Cursor = {}

VARIABLES
  endpoint, \* the one this client calls
  created,  \* created_at of each row
  price,    \* price of each row
  table,    \* rows that are there and pass the request's filters
  parentGone, \* list_product_reviews: the product is deleted
  sort,     \* sort_by and limit of the client's last request
  limit,
  page,     \* the client's last response
  dir,      \* ghost: the direction the client is walking in
  steady,   \* ghost: rows ahead of it at the start of the walk, and unchanged since
  seen,     \* ghost: how often the walk has shown each row, up to Many
  fresh,    \* ghost: no row has changed since the last response
  origin    \* ghost: the page left by "next", while nothing has changed since

data   == <<created, price, table, parentGone>>
client == <<sort, limit, page>>
ghost  == <<dir, steady, seen, fresh, origin>>
vars   == <<endpoint, data, client, ghost>>

Many == 2

-----------------------------------------------------------------------------
(* The endpoints.  Six list by created_at, newest first, and answer 400 to a *)
(* cursor they cannot read; the catalogue has four orders, and does not     *)
(* catch the error.  Not all of them set has_more.                          *)

Newest == [sorts |-> {"newest"}, badCursor |-> 400, setsMore |-> FALSE, hasParent |-> FALSE]

GetMyOrders        == Newest
ListMyProducts     == Newest
ListSellerReviews  == Newest
ListSellerOrders   == Newest
ListUsers          == [Newest EXCEPT !.setsMore = TRUE]
ListProductReviews == [Newest EXCEPT !.setsMore = TRUE, !.hasParent = TRUE]
ListProducts       == [Newest EXCEPT !.setsMore = TRUE, !.badCursor = 500,
                         !.sorts = {"newest", "oldest", "price_asc", "price_desc"}]

Endpoints == [get_my_orders        |-> GetMyOrders,
              list_my_products     |-> ListMyProducts,
              list_seller_reviews  |-> ListSellerReviews,
              list_seller_orders   |-> ListSellerOrders,
              list_users           |-> ListUsers,
              list_product_reviews |-> ListProductReviews,
              list_products        |-> ListProducts]

ASSUME EndpointAssumption == Names \subseteq DOMAIN Endpoints /\ Blank \subseteq {Empty}

Listing == Endpoints[endpoint]

-----------------------------------------------------------------------------
(* Order and cursors.                                                      *)

ByPrice(by)    == by \in {"price_asc", "price_desc"}
Descending(by) == by \in {"newest", "price_desc"}

\* get_sort_key
SortKey(by, r) == IF ByPrice(by) THEN price[r] ELSE created[r]

\* encode_cursor: the text of a date never reads as a price, nor the other way.
CursorAt(by, r) == [isPrice |-> ByPrice(by), value |-> SortKey(by, r), id |-> r]

Readable(by, cursor) == cursor.isPrice = ByPrice(by)

\* Slip: rows are compared by their sort key alone.
AboveByKey(by, r, cursor) == SortKey(by, r) > cursor.value

\* key > cursor key, or the same key and id > cursor id.
Above(by, r, cursor) ==
  \/ SortKey(by, r) > cursor.value
  \/ SortKey(by, r) = cursor.value /\ r > cursor.id

\* key < cursor key, or the same key and id < cursor id.
Below(by, r, cursor) ==
  \/ SortKey(by, r) < cursor.value
  \/ SortKey(by, r) = cursor.value /\ r < cursor.id

Later(by, r, cursor)   == IF Descending(by) THEN Below(by, r, cursor) ELSE Above(by, r, cursor)
Earlier(by, r, cursor) == IF Descending(by) THEN Above(by, r, cursor) ELSE Below(by, r, cursor)

-----------------------------------------------------------------------------
(* One page.                                                               *)

Given(parameter)  == parameter # Missing
Truthy(parameter) == parameter \notin {Missing, Empty}

\* WHERE: the rows beyond the cursor.  An empty cursor seeks nothing.
Seek(by, after, before) ==
  {r \in table : /\ Truthy(after) => Later(by, r, after)
                 /\ Truthy(before) /\ ~Truthy(after) => Earlier(by, r, before)}

Smaller(by, a, b) ==
  \/ SortKey(by, a) < SortKey(by, b)
  \/ SortKey(by, a) = SortKey(by, b) /\ a < b

\* ORDER BY: key and id, both descending or both ascending; a backward request
\* turns both, and so reads nearest to its cursor first.
ReadsBefore(by, backward, a, b) ==
  IF Descending(by) = backward THEN Smaller(by, a, b) ELSE Smaller(by, b, a)

Sorted(s, by, backward) ==
  \A i, j \in DOMAIN s : i < j => ReadsBefore(by, backward, s[i], s[j])

\* The rows in that order.
Ordered(rows, by, backward) ==
  CHOOSE s \in [1..Cardinality(rows) -> rows] : Sorted(s, by, backward)

AtMost(n, rows) == SubSeq(rows, 1, IF Len(rows) < n THEN Len(rows) ELSE n)

\* Slip: LIMIT without the extra row.
LimitOnly(rows, n) == AtMost(n, rows)

\* LIMIT limit + 1: one row more than the page, to see whether there are more.
Limited(rows, n) == AtMost(n + 1, rows)

Error(status) == [status |-> status, items |-> << >>, next |-> Missing, prev |-> Missing,
                  hasNext |-> FALSE, hasPrev |-> FALSE, hasMore |-> FALSE]

\* Slip: the extra row is returned too.
KeptAll(rows, n) == rows

\* rows[:limit]
Kept(rows, n) == AtMost(n, rows)

\* Slip: a backward page is left in the order it was read in.
ShownAsRead(rows, backward) == rows

\* items.reverse()
InListOrder(rows, backward) == IF backward THEN Reverse(rows) ELSE rows

\* From the rows read to the response.
Page(by, n, after, before) ==
  LET backward == Given(before)
      rows     == Limited(Ordered(Seek(by, after, before), by, backward), n)
      more     == Len(rows) > n
      items    == InListOrder(Kept(rows, n), backward)
      hasNext  == backward \/ more
      hasPrev  == IF backward THEN more ELSE Given(after)
  IN [status |-> 200, items |-> items,
      next |-> IF hasNext /\ items # << >> THEN CursorAt(by, items[Len(items)]) ELSE Missing,
      prev |-> IF hasPrev /\ items # << >> THEN CursorAt(by, items[1]) ELSE Missing,
      hasNext |-> hasNext, hasPrev |-> hasPrev, hasMore |-> Listing.setsMore /\ hasNext]

Response(by, n, after, before) ==
  IF Truthy(after) /\ Truthy(before) THEN Error(400)
  ELSE IF \E c \in {after, before} : Truthy(c) /\ ~Readable(by, c)
       THEN Error(Listing.badCursor)
       ELSE Page(by, n, after, before)

-----------------------------------------------------------------------------
(* The client.                                                             *)

\* A client sends a cursor it has or leaves it out; one it does not have it may
\* send as an empty string.
Optional(cursor) == {Missing, cursor} \cup (IF cursor = Missing THEN Blank ELSE {})

Direction(after, before) ==
  IF ~Given(before) THEN "forward" ELSE IF ~Truthy(after) THEN "backward" ELSE "none"

\* The request follows the last page in the direction of the walk.
Continues(by, after, before) ==
  /\ by = sort
  /\ dir = Direction(after, before)
  /\ \/ dir = "forward"  /\ Truthy(after)  /\ after = page.next
     \/ dir = "backward" /\ Truthy(before) /\ before = page.prev

Shown(r, before) ==
  LET times == before + (IF r \in ToSet(page'.items) THEN 1 ELSE 0)
  IN IF times > Many THEN Many ELSE times

Walk(by, n, after, before) ==
  LET onward == Continues(by, after, before)
  IN /\ dir' = IF page'.status = 200 THEN Direction(after, before) ELSE "none"
     /\ steady' = IF dir' = "none" THEN {}
                  ELSE IF onward THEN steady ELSE Seek(by, after, before)
     /\ seen' = [r \in Rows |-> IF dir' = "none" THEN 0
                                ELSE Shown(r, IF onward THEN seen[r] ELSE 0)]
     /\ fresh' = TRUE
     /\ origin' = IF /\ fresh /\ by = sort /\ n = limit
                     /\ Truthy(after) /\ after = page.next /\ ~Given(before)
                  THEN page.items ELSE << >>

\* One GET.  A product deleted between the two queries of list_product_reviews
\* gives an empty page; deleted before them, 404.
Request(by, n, after, before) ==
  /\ sort' = by
  /\ limit' = n
  /\ page' = Response(by, n, after, before)
  /\ Walk(by, n, after, before)
  /\ UNCHANGED <<endpoint, data>>

NoParent(by, n) ==
  /\ parentGone
  /\ sort' = by
  /\ limit' = n
  /\ page' = Error(404)
  /\ Walk(by, n, Missing, Missing)
  /\ UNCHANGED <<endpoint, data>>

-----------------------------------------------------------------------------
(* Other requests.                                                         *)

Touch(changed) ==
  /\ steady' = steady \ changed
  /\ fresh' = FALSE
  /\ origin' = << >>
  /\ UNCHANGED <<endpoint, client, dir, seen>>

\* A row is committed, or comes to match the filters.  created_at is the time
\* its transaction began, so that it may appear behind rows already listed.
Appear(r) ==
  /\ r \notin table /\ ~parentGone
  /\ table' = table \cup {r}
  /\ Touch({r})
  /\ UNCHANGED <<created, price, parentGone>>

\* A row is deleted, or ceases to match the filters.
Disappear(r) ==
  /\ r \in table
  /\ table' = table \ {r}
  /\ Touch({r})
  /\ UNCHANGED <<created, price, parentGone>>

\* update_product changes a price.
Reprice(r, amount) ==
  /\ endpoint = "list_products"
  /\ price[r] # amount
  /\ price' = [price EXCEPT ![r] = amount]
  /\ Touch(IF ByPrice(sort) THEN {r} ELSE {})
  /\ UNCHANGED <<created, table, parentGone>>

\* The product is deleted, and its reviews with it.
DropParent ==
  /\ Listing.hasParent /\ ~parentGone
  /\ parentGone' = TRUE
  /\ table' = {}
  /\ Touch(Rows)
  /\ UNCHANGED <<created, price>>

-----------------------------------------------------------------------------
\* Only products have a price.
Init ==
  /\ endpoint \in Names
  /\ created \in Histories
  /\ price \in [Rows -> IF endpoint = "list_products" THEN Prices ELSE {0}]
  /\ table \in SUBSET Rows
  /\ parentGone = FALSE
  /\ sort = "newest"
  /\ limit = 0
  /\ page = Error(0)
  /\ dir = "none"
  /\ steady = {}
  /\ seen = [r \in Rows |-> 0]
  /\ fresh = FALSE
  /\ origin = << >>

Next ==
  \/ \E by \in Listing.sorts, n \in Limits :
       \/ \E after \in Optional(page.next), before \in Optional(page.prev) :
            Request(by, n, after, before)
       \/ NoParent(by, n)
  \/ \E r \in Rows : Appear(r) \/ Disappear(r) \/ \E amount \in Prices : Reprice(r, amount)
  \/ DropParent

Spec == Init /\ [][Next]_vars

-----------------------------------------------------------------------------
(* Properties.                                                             *)

TypeOK ==
  /\ table \subseteq Rows
  /\ endpoint \in Names /\ sort \in Listing.sorts /\ limit \in Limits \cup {0}
  /\ page.status \in {0, 200, 400, 404, 500}
  /\ ToSet(page.items) \subseteq Rows /\ Len(page.items) <= limit
  /\ {page.next, page.prev} \subseteq Cursor \cup {Missing}
  /\ dir \in {"none", "forward", "backward"}
  /\ steady \subseteq table
  /\ seen \in [Rows -> 0..Many]

\* Rows the walk has still to show.
Ahead(r) ==
  IF dir = "forward" THEN Truthy(page.next) /\ Later(sort, r, page.next)
                     ELSE Truthy(page.prev) /\ Earlier(sort, r, page.prev)

\* Walking forward or backward with the cursors of the pages, a client sees each
\* row that was there and unchanged all along exactly once, and by the last page
\* has seen them all: whatever rows are inserted, deleted or repriced around it,
\* the row a cursor was made from included, and however many share a sort key.
SteadySeenOnce == \A r \in steady : seen[r] = IF Ahead(r) THEN 0 ELSE 1

\* Going to the next page and back shows the page one came from, if no row changed.
RoundTrip ==
  [][(origin # << >> /\ Truthy(page.prev) /\ Request(sort, limit, Missing, page.prev))
       => page'.items = origin]_vars

\* The flag the extra row decides is exact: there is a next page (a previous one,
\* walking backward) just when a row lies beyond the page.
MoreIsExact ==
  (fresh /\ dir # "none" /\ page.items # << >>) =>
    LET items == page.items
        first == CursorAt(sort, items[1])
        last  == CursorAt(sort, items[Len(items)])
    IN IF dir = "forward" THEN page.hasNext <=> \E r \in table : Later(sort, r, last)
                          ELSE page.hasPrev <=> \E r \in table : Earlier(sort, r, first)
=============================================================================
