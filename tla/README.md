# A TLA+ verification of the BLHMI commerce API

The repository is an asynchronous FastAPI service over PostgreSQL (`app/`): a
storefront with reviews, images and cached pages, a checkout that reserves stock
and opens a payment at Paystack or Stripe, payment webhooks, seller and buyer
endpoints that move orders along, accounts, and password resets by code. Several
workers run it, each interleaving requests at every `await`. This directory
models the parts whose correctness depends on that interleaving, on failures, or on algorithms with awkward boundaries; checks them with TLC on
small instances; and proves the most important properties with TLAPS for
instances of any size.

All paths below are relative to `src/`.

## 1. Inventory

| Part | State it keeps | Operations | What is hard | What makes it correct |
|---|---|---|---|---|
| Checkout (`app/services/checkout.py`) | `products.inventory_count`, `orders`, `order_items`, default address in `users` | `run`: fetch, reserve line by line, resolve delivery, insert, call the gateway, commit, refresh | one transaction over many statements and one slow external call; row locks and a connection held throughout; deadlock; failure after any step | nothing oversold, all or nothing, always ends |
| Inventory edits (`sellers.py` restock, `products.py` create, update, delete) | `products` | unlocked read, then a literal write | lost updates; a delete that races a sale | units conserved; an ordered product stays |
| Database access (`app/core/database.py`) | connection pool, sessions | `get_db`, rollback on error | pool exhaustion, commit with a lost answer | no lock or version outlives its transaction |
| Payment gateways (`payment.py`, `paystack.py`, `stripe.py`) | none here | `initialize_payment` | time-out after 15 s, refusal | checkout rolls back |
| Webhooks (`app/services/webhook.py`) | `orders` | `_mark_paid` of each gateway | repeated, late and unknown events; a crash before the answer | every payment ends up on its order |
| Order lifecycle (`orders.py`, `sellers.py`) | `orders.status`, `payment_status`, three timestamps | `confirm_order_received`, `update_order_status` | read, decide, write without locks; column-wise writes over a changed row | status and stamps agree; checks still hold when the write lands |
| E-mail (`app/services/email.py`) | none | status mails, code mails | sent after the commit, may fail or overtake | never announces what was not committed |
| Pagination (`app/schemas/pagination.py`, seven list endpoints) | none; the client holds the cursor | forward and backward pages | rows come, go and change between pages; ties; the extra row | rows that stay are seen once; flags are true |
| Reviews (`products.py`) | `reviews`, `products.rating`, `reviews_count` | insert, aggregate, literal write; deletion with the product; ratings summary | reviews that overlap, each blind to the other; the deletion beside them; two statements of a summary | the aggregate is one of committed reviews and repairs itself; no review outlives its product |
| Catalogue cache (`app/core/cache.py`, `products.py`) | Redis, or a dictionary per process | get, set with TTL, invalidate by prefix | storing after the invalidation what was queried before; Redis failing for one command; dictionaries out of reach; writers that invalidate nothing | stale only for known reasons, and not for ever |
| Password reset (`otp.py`, `auth.py`) | codes in the cache, `users.hashed_password` | request, verify, reset | verify takes the code out and stores it again; reading, evicting and storing are separate commands; prefixes and patterns | a code resets its own account, once |
| Accounts (`auth.py`, `users.py`, `init_superadmin.py`, `main.py`) | `users`, `orders.user_id` | register, create, link guest orders, change a role, bootstrap | select, then insert; link while an order is in flight; a role read once | one account per address, orders find their buyer, a super admin stays |
| Images (`storage.py`, `products.py`) | object storage, `image_url`, `gallery_images` | upload, replace, delete | files and rows change at different times and nothing is undone; clients send URLs back | a row points at a deleted file only for known reasons |
| Dashboard, inventory statistics, similar products | none | read-only aggregates | none | not modelled |
| Security primitives, routing, migrations | none | library calls, generated code | none | not modelled |

Interactions: checkout and edits share product rows; checkout creates the order
that webhooks, buyer and sellers change; the gateway connects a checkout to later
webhooks by the reference `ORDER-<id>`; handlers call the e-mail service after
their commit; seller requests change a product's files, then its row, then the
cache, which visitors fill and the reset codes share; reviews and the deletion of
a product meet on its row; registration links orders that checkouts wrote; a worker
serves requests only once its bootstrap has found or made the super admin. `PROJECT.json` lists
the hazards line by line.

## 2. Modules

| Module | Models | Uses |
|---|---|---|
| `Cart` | the checkout payload and what request validation guarantees | |
| `Checkout` | checkouts, seller edits, pool, row locks, deadlock detector | `Cart` |
| `StockLedger` | the abstract promise: whole sales, single adjustments | `Cart` |
| `CheckoutProofs` | theorems about `Checkout`, refinement included | `Checkout`, TLAPS |
| `OrderLifecycle` | webhooks, confirmations, status changes, mails | |
| `OrderLifecycleProofs` | theorems about `OrderLifecycle` | `OrderLifecycle`, TLAPS |
| `Pagination` | the keyset listings and a client that pages through them | |
| `PaginationProofs` | theorems about `Pagination` | `Pagination`, `FiniteSetTheorems`, `FunctionTheorems`, `SequenceTheorems`, TLAPS |
| `Reviews` | reviews of a product, its aggregate, its deletion, the ratings summary | |
| `ReviewsProofs` | theorems about `Reviews` | `Reviews`, `FiniteSetTheorems`, TLAPS |
| `Catalogue` | a product's row, files and cached pages; seller requests and visitors | |
| `CatalogueProofs` | theorems about `Catalogue` | `Catalogue`, TLAPS |
| `Accounts` | accounts, linkage of guest orders, roles, the bootstrap | |
| `AccountsProofs` | theorems about `Accounts` | `Accounts`, TLAPS |
| `PasswordReset` | codes over the cache, and the passwords they set | |
| `PasswordResetProofs` | theorems about `PasswordReset` | `PasswordReset`, TLAPS |
| `MCCheckout`, `MCOrderLifecycle`, `MCPagination`, `MCReviews`, `MCCatalogue`, `MCAccounts`, `MCPasswordReset` | instances for TLC | |

Definitions introduced by "Slip:" are faulty variants of the definition that
follows them (a dropped guard, a missing rollback). No specification uses them;
substituting one must break the property it is paired with in `PROJECT.json`.

### Checkout

A checkout's `pc` names the await it is at: `reserving` (the loop of
`_reserve_inventory` and the checks after it), `paying` (rows flushed, gateway
called), `committing`, `committed` (order stands, answer still to be built),
and its ends. Committed rows are `catalog`, `stock`, `sold`, `addressed`; a row a
transaction has updated and not committed is `lock[p]` with `dirty[p]`. This is
READ COMMITTED as PostgreSQL does it: an UPDATE waits for the row lock, then
evaluates its WHERE clause on the committed row; readers see committed rows only.

* `FetchProducts` is the first query and the check of the ids. `len(by_id)` counts
  distinct products, `len(payload.items)` lines: a repeated product is refused,
  which the invariants rely on (`KnownCartIsDistinct`).
* `ReserveItem` and `RefuseItem` are one turn of the loop. A refusal needs no lock:
  a committed row that does not qualify is not waited for.
* `RejectIncomplete`, `CreateOrder`, `InitializePayment`, `PaymentFails`, `Commit`,
  `Respond`, `LoseResponse` follow the code in order. `Abort` is `get_db`'s rollback
  and what PostgreSQL does with a transaction whose connection is gone (`Crash`).
* `AddressLocked`: two checkouts of one buyer that both replace the default address
  update the same `users` row.
* Seller edits are two steps, `LoadProduct` and a save. `SaveCount` writes the
  literal that was computed from the row as loaded; the ORM issues no UPDATE when
  it equals the loaded value (`SaveNothing`), and fails when the row has gone
  (`SaveStale`). `DeleteProduct` waits for the row lock and is refused by the
  RESTRICT foreign key of `order_items`.
* Ghosts: `received` is what sellers meant to have put in; `overwritten` marks rows
  on which an edit wrote over a count that was not the one it had read. Both only
  record; no guard reads them.

`Ledger` is `INSTANCE StockLedger WITH` the committed `catalog`, `stock` and `sold`:
the abstract specification knows neither locks, versions, requests nor failures,
only whole sales and single adjustments, and `ImplementsLedger` says that nothing
else is ever visible in the committed rows.

Left out: prices, totals, minor units, the addresses' text, which of several
missing things is reported.

### OrderLifecycle

An order row is its status and the set of "marks" handlers only ever set
(`payment_status = paid`, `paid_at`, `in_transit_at`, `delivered_at`). A request
is loaded (it has read the row and decided), committed (columns written), then
sends its mail and answers. `Begin` keeps only the columns whose value differs
from the row it loaded, as the ORM does, and `Written` puts those into the row as
it is at the commit. `Gateway` decides how an unknown reference is answered: 404
by the Paystack handler, 200 by Stripe's. Requests are reusable slots.

### Pagination

The seven handlers have one algorithm; what differs between them is a record
(`ListProducts`, `GetMyOrders`, ...): the sort orders, the status of an unreadable
cursor, whether `has_more` is set, whether a parent row is looked up first.
`Page` is the computation from the rows read to the response, `Seek` the WHERE
clause, `Ordered` the ORDER BY (the rows sought, in the order `ReadsBefore`: by key,
then by id, both turned by a backward request), `Limited` the LIMIT of one row more.
Cursors carry
the sort value as it was when they were made. The endpoint is chosen once; sort
and limit with every request. A client sends `next_cursor` as `after` and
`prev_cursor` as `before`, both, none, or, for one it does not have, an empty
string, which the code treats as absent in the query and as present in the flags.
Rows appear anywhere in the order: `created_at` is the start of the inserting
transaction, which may commit late, and a status change can move an old order into
a tab.

### Reviews

`pc` follows `create_product_review`: `loaded` (the product was read), `inserted`
(flushed; the foreign key now holds the product row FOR KEY SHARE), `aggregated`
(average and count selected: what is committed by then, and the own review),
`written` (the UPDATE; only here do two reviews wait for each other), `done`.
`Merged` writes a column only where the computed value differs from the loaded
one, so rating and count of a row may come from different requests. A rating is
kept in tenths, and `RoundedAverage` rounds half up, as NUMERIC(2,1) does; the sum
comes from how many reviews there are of each number of stars (`HowMany`).
`Delete` waits for every transaction with the key share, then takes the reviews
along, or is refused when an order refers to the product. A summary is two
statements, `ReadRow` and `ReadHistogram`, each with a snapshot of its own. Text,
names, and which order gave the right to review are data. `undisturbed` is a ghost.

### Catalogue

One product. `row` is its image, its gallery, its category (which stands for the
shelves and texts only sellers change) and its `figures` (stock, rating, number of
reviews, orders: what the home page also shows, and others change); `files` is the
bucket, `cache` each store's unexpired entries of the two cached keys. A seller
request goes through `clearing` (`DeleteFile`, one by one; a `ClientError` is logged
and the file stays), `uploading`, `saving` and `invalidating`, with `SaveFails`,
`Crash` and `DieBeforeInvalidating` on the way and nothing undone. `Written` is what
the ORM sends: the image; the list that was read and the new file; or the columns of
the payload that differ from what was loaded (`Changed`). A payload may set
`image_url` and `gallery_images`: an edit form that is sent back holds the URLs it was
shown, and only those (`Sendable`), which may have been replaced, deleted or added to
since. `ChangeFigures` is a restock, a review or an order: it commits and leaves the
cache alone. `DeletedElsewhere` is another product that was given the URL of one of
this product's files and deletes it. A visitor's request is `Get`, `Query`, `Set`. The
commands of `CacheService` reach Redis, or, when Redis fails, the dictionary of the
process that runs the request; a SET whose answer is late reaches both (`Landings`).
`Invalidate` clears the own dictionary in any case.

Ghosts: `excused` in an entry holds the columns that are out of date for a reason
other than an invalidation on its way; `brought` holds the files whose URL a payload
put where it was not, `dropped` the gallery images a PATCH took out; `shown` what
clients have seen. Only `Sendable` and `DeletedElsewhere` read one of them, `shown`:
a URL has a random part, so nobody sends one that nobody was shown.

Abstractions: the six queries of the home page are one; the refusal of a delete by
orders is one of the causes of `SaveFails`; a Redis that is down from the start is
a Redis whose commands fail, as often as `MaxEvents` allows; `null` and an empty list
are the same gallery. Left out: images on other servers, which no request deletes, and
products without a category.

### Accounts

Whoever creates an account is a process of `Creators`: a request (`Register`,
`CreateUser`) or a worker that starts (`StartUp`). `Select` is the look-up and its
409; `Insert` waits for an uncommitted index entry of the same e-mail, then fails if
that one was committed; `LinkOrders` is the UPDATE of guest orders, which a
registration runs before it commits. A worker serves when it has found or made
the super admin, and may fail and start again. `Place` is what the checkout decides
about an order's owner and e-mail. A change of role is `Authorise` (the caller's
role is read here and not again), `LoadTarget`, `SaveRole`.

Abstractions: an address is a name and whether it was typed with capitals; buyer and
seller are both `member`; the answers 409 and 500 are both `failed`; the two
`SUPER_ADMIN_` settings are present. Requests and changes of role happen once each;
orders too. `after` in an order is a ghost. Login, and the profile, password and
delivery updates of a signed-in user, are not modelled.

### PasswordReset

A code has the identity of the forgot-password request that drew it, so two draws
that coincide are left out. `Forgot` and `StoreCode` issue it; `Submit` is the get
and the comparison of `verify_otp`, `Evict` its `invalidate_prefix`, which takes the
codes of every account whose key begins with this one's (`Extending`) from the
dictionary, and from Redis those whose key this one matches as a pattern (`Matching`:
an e-mail may contain `*` and `?`); then a
verification stores the code again (`Restore`), and a reset commits the password
(`SaveReset`). Customers submit any code that was mailed, for any account. Stores,
faults and expiry are those of the cache. `inForce` and `excused` are ghosts.

## 3. Runs

| Run | Specification and bounds | Shows |
|---|---|---|
| `checkout` | `FairSpec`; 2 products, 2 checkouts, 1 edit, stock 0 or 2, pool of 3, seven payloads | types, `RowVersions`, `Balanced`, `OrderedProductKept`, `AddressSavedWithOrder`, refinement of `StockLedger`, `CheckoutsEnd` |
| `edits` | `FairSpec`; 1 checkout, 2 edits, pool of 2 | `NobodyStarves`: the checkout ends, and so do the edits |
| `lifecycle` | `FairSpec`, Stripe; an order, a foreign reference, one request of each kind at a time, sellers choosing between two statuses | types, `Stamped`, `MailsAreTrue`, `PaymentsRecorded` |
| `pages` | the catalogue and a product's reviews; 3 rows, 2 dates, 2 prices, 1 or 2 per page, empty parameters, product deleted | types, `SteadySeenOnce`, `RoundTrip`, `MoreIsExact` |
| `reviews` | `FairSpec`; 3 reviews of 2 or 5 stars, a deletion, a summary, two seeds | types, `CountNotOverstated`, `RatingOfSomeReviews`, `UndisturbedIsExact`, `NoOrphans`, `SummaryCovered`, `RequestsEnd` |
| `catalogue` | `FairSpec`; 2 seller requests, 1 visitor at a time, 2 processes, 2 categories, a PATCH or creation with a category or with the first image and no gallery, 1 event (a failed command of Redis, a change of figures, or a deletion through another product) | types, `DanglingNeedsCause`, `GalleryLossNeedsWriter`, `StaleNeedsCause`, `CacheCatchesUp` |
| `accounts` | `FairSpec`; 2 requests, 2 workers, 2 addresses with and without capitals, 1 order, 2 changes of role | types, `OneAccountEach`, `OperatorIsBootstrapped`, `OrdersBelong`, `UnlinkedHasReason`, `LastAdminNeedsOverlap`, `CreationsEnd` |
| `resets` | `Spec`; 2 codes, a verification, 2 resets, 3 accounts (one's key is a prefix of the second's, the third's a pattern that matches it), 2 processes, 2 faults of Redis | types, `ResetByOwnCode`, `CodeUsedOnce`, `LatestCodeOnly`, `LostOnlyToMatch` |

Runs that exhibit a disagreement between the code and what it, or its
documentation, says:

| Run | Property | Disagreement |
|---|---|---|
| `restock` | `RestocksConserve` | handoff.md:43 calls the restock atomic; a concurrent sale is overwritten (`sellers.py:649`) |
| `confirmations` | `ConfirmationsHold` | a cancellation or a second confirmation that commits between the check (`orders.py:281`, `orders.py:287`) and the commit is overwritten |
| `release` | `ReleaseNeedsEscrow` | an unpaid order can be confirmed (`orders.py:294`), though `orders.py:180` offers it only for paid ones |
| `reopened` | `ReleasedStaysReleased` | a late payment event puts a delivered order back in escrow (`webhook.py:57`) |

Other disagreements were met while modelling and have no run of their own. Where a
property names the exception, the model reaches it.

* `update_order_status` ships an unpaid order, which `orders.py:218` then labels
  "Payment Secured"; a backward page always answers `has_next = True`, although the
  rows after its cursor may have gone (`orders.py:102`); four listings never set
  `has_more`, which `pagination.py:21` calls an alias of `has_next`.
* Reviews that overlap leave the aggregate behind, or the rating of one and the
  count of the other (`products.py:450`); the next review that overlaps with none
  repairs both (`UndisturbedIsExact`).
* The gallery upload is said to append (`products.py:559`) and writes the list it
  read: of two that overlap, one image is lost (`GalleryLossNeedsWriter`). It is the
  one handler of the catalogue that does not invalidate the home page
  (`products.py:605`). Outside the catalogue nobody does: restocks (`sellers.py:649`),
  reviews (`products.py:450`) and checkouts (`checkout.py:145`) leave a page with old
  stock, ratings and most-ordered products until it expires (`StaleNeedsCause`).
* `delete_product` removes the images before a DELETE that orders refuse
  (`products.py:655`); replacing an image removes the old one before the new one is
  uploaded (`products.py:541`). Both leave a row with a deleted file, and so does a
  PATCH that sends back the URL of an image replaced since (`products.py:630`), or a
  URL given to two products of which one is deleted (`DanglingNeedsCause`). A PATCH
  with an older gallery loses the images uploaded since (`GalleryLossNeedsWriter`).
* A page queried before a change is stored after its invalidation, and stale for the
  whole time to live (`products.py:94`).
* "Idempotent — safe to call on every startup" (`init_superadmin.py:26`) holds for one
  worker; of several that start on an empty database all but one fail on the unique
  index, and must be started again.
* `test_order_linkage.py:3` expects a registration to link the guest's orders; those
  typed with capitals, and those committed after its UPDATE, are not linked
  (`UnlinkedHasReason`).
* Two super admins who demote each other at once both succeed
  (`LastAdminNeedsOverlap`), and no start-up restores one.
* The mail says a code is valid for ten minutes (`email.py:186`); each verification
  stores it for ten more (`auth.py:211`). One that overlaps a reset or a new code
  brings back a used or replaced code (`CodeUsedOnce`, `LatestCodeOnly`). Using the
  code of `a@x.co` evicts that of `a@x.com`, and so does, in Redis, using that of
  `?@x.com` (`LostOnlyToMatch`).

Why the bounds suffice. Two products and carts in both orders give every shape of
lock conflict two transactions can have, and with one buyer who saves an address a
conflict on a third row. A stock of 2 against quantities 1 and 2 lets one sale
succeed and the next fail, on the last unit. In `edits` connections (`PoolSize`) are
fewer than requests, and a checkout that has committed may have to wait for one to
answer; in `checkout` there is one for everybody, so that all overlap. In the lifecycle slots are reused, so the
number of requests is unbounded and only their overlap is bounded, at one of each
kind (two confirmations where the property is about two); sellers choose
`in_transit` and `delivered`, the statuses with stamps of their own that no event
sets, and `cancelled` where a cancellation matters. Three rows against pages of one
or two give a first, a middle and a last page, full and partial; prices take every
pattern of ties over them. `Many` caps the count of how often a row was shown at
two, which is enough to tell once from more.

Three reviews are the least with which a row can be wrong (two that overlap) and a
third can repair it, or be wrong on top of it. Two seller requests give every pair
of kinds, one visitor the query between them; visitors' slots are reused. One event
is enough to put an entry into a dictionary, to keep one in Redis, to make a page
out of date with nobody to invalidate it, or to take a file away; several of them
together are left to the proofs. The payload with the first image and an empty gallery
is an edit form that was opened at the start: it undoes whatever was uploaded since.
The run has 573,085 states, each checked for the liveness as well. Two
requests and two workers meet pairwise at the index. Two changes of role are what
demoting each other takes. Two codes and two resets are what replacing one and
using it twice takes, and two faults let a store be filled and missed. Every bound
but `PoolSize`, which is a setting of the code, limits how many actors there are, or
how often Redis fails or others interfere (`MaxFaults`, `MaxEvents`).

Deadlock is checked in every run but `resets`, where requests are finite and the
system stops when all of them have ended and the codes have expired. `Quiescent` is
the step of `Checkout` and of `Reviews` that changes nothing: it needs every request
to have ended. In the other models something can always go on: a slot is used
again, a page asked for, an entry expires, a worker stops.

Fairness. `Checkout`: the event loop runs every task that can go on; the gateway
client has a time-out, so `InitializePayment` or `PaymentFails` comes; PostgreSQL
grants a freed lock and detects deadlocks. That is weak fairness of each request's
progress. Sending requests and crashing are not fair. A checkout that waits for a
row waits only for transactions that themselves make progress, which is what
`CheckoutsEnd` and `NobodyStarves` establish. `OrderLifecycle`: gateways repeat an
event until it is acknowledged (strong fairness of receiving each unacknowledged
event), and a crash does not hit every handler of an event (strong fairness of its
commit). `Reviews` and `Accounts`: weak fairness of each request that has begun, and
of each deletion, for the same reasons; workers that start are not fair, for one may
wait for another that fails and starts again, over and over. `Catalogue`: weak
fairness of each request's next step, its failure included, of a visitor's query and
store, and of `Expire`, which is time passing: every entry is stored with a time to
live, and without that a stale page could stay. `Pagination` and `PasswordReset`
need none.

## 4. Proofs

`CheckoutProofs` proves, for every set of products, requests, checkouts and edits
and any pool size, from the assumptions of `Cart` and `Checkout`:

* `TypeCorrect`, `ReservationsAreRowVersions`, `StockBalances`,
  `OrderedProductsStay`, `AddressComesWithOrder`, and
* `Implements`: `Checkout` implements `StockLedger`.

`Balanced` alone is not inductive: a commit replaces the stock of all locked rows
by uncommitted versions, and adds to `sold` the quantities of the cart; the two
agree only if every line of the cart is reserved, no product is in two lines, and
each version is the committed count less its line. The invariant therefore adds
`RowVersions`, that a checkout's cart is one that passed the check of the ids
(`CartsKnown`, from which no product is repeated), and how many lines are reserved
at each `pc`. With it, a commit is `Sell` of the whole cart; every other step of a
checkout leaves the committed rows alone; a seller's save writes an unlocked row
and is `Adjust`, `List` or `Delist`. The proof has a lemma per kind of step: local
steps, rollback, fetch, reservation, commit, and changes of a free row.

`OrderLifecycleProofs` proves `RowsAreStamped` and `NoFalseMail` for any orders and
any number of overlapping requests. `Stamped` is not inductive because a request
carries columns into a row that has changed since: `WorkOK` says that the stamps
a request will write, together with those its row has by then, are enough for the
status it will write. It is stable because marks are only ever added. `HeldOK`
ties the committed status to the ghost that remembers it.

`OrderLifecycleProofs` also proves `TypeCorrect`.

`AccountsProofs` proves the five invariants and `LastAdmin`, for any requests, workers,
orders and addresses. The heart is `EntriesOK`, what the unique index means for those
that have inserted and not committed: no account has their e-mail, and no other
entry does. That drafts are in lower case makes one e-mail one address
(`LowerCases`), and that only workers draft the operator's address (create_user and
register find the account, since they run only when a worker serves) gives
`OperatorIsBootstrapped`. `LinkedOK` says of a registration between its UPDATE and its
commit that it has every claimable order, but those committed after the UPDATE.
`LastAdmin` needs `ChangesOK`: nobody changes their own role, so when the last super
admin loses the role, whoever took it no longer has it.

`PasswordResetProofs` proves the types and the four properties for any requests, keys
and faults. `CodeUsedOnce` is inductive with `ReadersOK` (who is about to use a code,
or to store it again, is excused or has the code in force), `UsedOK` (a reset that has
used a code is excused, or the code is not in force; a code comes into force only
when it is first stored, hence never again) and `LatestCodeOnly` for the stores.
`ResetByOwnCode` follows from who drew the code that is stored (`CodesOwned`).

`ReviewsProofs` proves the types, the four invariants and `UndisturbedIsExact`, for any
finite set of reviewers and whatever stars they give. Counts first: one that was
selected never exceeds what a commit leaves, because reviews are only added while
somebody holds the key share (`CountsOK`, `NoOrphans`); until the first review is
committed everybody has read the seed (`SeedLoaded`), so a column that is left out is
left at a count that is no excess.
Ratings (`RInv`): a sum of stars lies between one and five for each review, so that
an average of at least one review lies, rounded, between 1.0 and 5.0; a committed
review keeps its stars, so that what was selected stays the average of some committed
reviews and one's own (`RatingsOK`), whatever commits later. `UndisturbedOK` follows
one request that nobody overlaps from its read to its commit: the sets it selects, and
the row it compares them with, are still those it commits into.

`PaginationProofs` proves the two invariants, `TypeOK` and `RoundTrip` for every
endpoint, any finite set of rows, any prices and any page size, and that a walk that
has come to its end has shown every row that stayed (`WalkComplete`).

* The order: `ReadsBefore` is a strict total order of the rows, ties included
  (`ReadsOrder`), and a backward request reads its mirror image (`Mirrored`); so the
  ORDER BY gives every row one place.
* The page: its rows are a `Segment` of what was sought, as many as the limit allows,
  those that come first in the order of reading, shown in the order of the list.
  There is one such segment (`OneAnswer`), which is what `RoundTrip` comes down to.
* The walk: what a cursor seeks is an end of the list (`Ends`), the rows beyond the
  row it was made from, and beyond the last row shown of a segment there is
  just what the next request seeks (`AfterLast`, `BeforeFirst`).
* The invariant: `Kinds` says what keys and cursors are made of. `PageInv` says, while
  no row has changed since the answer, that a page with a cursor onward holds the last
  rows up to that cursor, as many as fit, unless that row is the last of the list (a
  backward page always has a cursor onward, however few rows it holds). `OriginInv`,
  which `PageInv` gives when "next" is followed, says that the page one came from is
  what the cursor back asks for. `SteadySeenOnce` needs neither: the rows still ahead
  are told by the cursor, which keeps its value when its row is repriced or deleted.

`CatalogueProofs` proves the types and the three other invariants for any seller
requests, payloads, visitors, processes and number of events. The invariant falls
into two parts that share no step but the commit. About files: nobody can send the URL
of a file before its commit (`ShownOK`); a file of a row that no payload brought was
uploaded by a request that has committed (`OwnedOK`); a request deletes only what it
has read and not deleted yet (`FilesOK`); and `DanglingOK` is the property also of the
galleries that uploads and updates in progress have read, since an upload writes its
list back, and an update leaves alone what equals the list it read. About the cache:
what a visitor has queried may be out of date in any column by the time it is
stored, and is excused in just those; afterwards a commit that invalidates nothing
excuses its own columns, and a lost invalidation all (`StaleNeedsCause` is inductive
once every visitor holds a page, `VisitsOK`).

Assumptions. Each module names those on its constants: `Redis` is no worker; null
values are distinct from what they stand apart from (`Nothing \notin Entry`,
`Absent # Gone`; `Missing` and the empty string are no cursors); `At` gives every
request a process; `Reviewers` and the `Rows` of a listing are finite, so that counts
and lengths are numbers. TLC evaluates them in every run.

Every invariant and every action property of a passing run is a theorem. Only
model-checked: liveness (`CheckoutsEnd`, `NobodyStarves`, `PaymentsRecorded`,
`RequestsEnd`, `CacheCatchesUp`, `CreationsEnd`), which needs fairness and ENABLED, out
of the prover's reach; and the disagreements, which are counterexamples.

## 5. Plan

Done: every module of section 2, with its proofs. What is left:

1. `Purchase`, the composition of `Checkout` and `OrderLifecycle` over the payment
   reference: a payment opened by a checkout that rolls back, an abandoned order.
2. The saved address column by column, beside the two handlers that write it.
3. Login and the change of a password by its owner, beside a reset.

## 6. Not modelled

* The dashboard, inventory statistics and similar products: reads without state. The
  ratings summary is in `Reviews`, because its two statements can disagree.
* `security.py`: calls of bcrypt and of a JWT library. Roles enter the models as
  guards.
* Routing, middleware, settings; Alembic's migrations, whose constraints are modelled
  where the ORM's models declare them.
* Amounts and their conversion to minor units, request signatures, the text and the
  delivery of mails.
* A payment at the gateway that outlives its checkout: its URL is lost with the answer.
* Orders other than those a listing or a registration sees.
