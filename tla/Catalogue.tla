------------------------------ MODULE Catalogue ------------------------------
(***************************************************************************)
(* A product row, its images in object storage, and the pages cached from  *)
(* it: the seller mutations of app/api/v1/products.py with                 *)
(* app/services/storage.py, and the two cached endpoints (storefront home, *)
(* categories) over app/core/cache.py.                                     *)
(*                                                                         *)
(* A mutation touches three stores in turn: files are deleted and          *)
(* uploaded, the row is committed, keys are invalidated.  Any step may     *)
(* fail and nothing undoes the earlier ones.  A payload may carry the      *)
(* URLs of images as well: clients send back what they were shown before.  *)
(* The cache is Redis; a process whose Redis command fails falls back on a *)
(* dictionary of its own.  Restocks, reviews and orders change what the    *)
(* home page shows and leave the cache alone.  Handlers interleave at      *)
(* every await.                                                            *)
(***************************************************************************)
EXTENDS Naturals, FiniteSets

CONSTANTS
  Mutations,   \* seller requests; each names the file it uploads
  Visitors,    \* GET requests of the cached pages that can be in progress
  Workers,     \* server processes
  At,          \* the process that serves each request
  Picture,     \* a file that is in the bucket at first
  Categories,  \* categories a product can have
  First,       \* the category the product has at first, if it is there
  Payloads,    \* bodies of POST /products and of PATCH: the columns they set
  Shared,      \* files whose URLs another product may be given
  MaxEvents,   \* bound on the failed Redis commands, the restocks, reviews and
               \* orders of the product, and the deletions through other products
  NoImage,     \* image_url is null
  Absent,      \* the product is not created yet
  Gone,        \* the product was deleted
  Nothing      \* no cache entry

Files == Mutations \cup {Picture}

\* The row: its images, its shelf, and the figures that others change: the stock,
\* the rating with the number of reviews, and what was ordered.
Columns == {"image", "gallery", "category", "figures"}
Row == [image : Files \cup {NoImage}, gallery : SUBSET Files, category : Categories,
        figures : Nat]

ASSUME NullAssumption ==
  /\ {Absent, Gone} \cap (Row \cup Categories) = {} /\ Absent # Gone
  /\ NoImage \notin Files
ASSUME PictureAssumption == Picture \notin Mutations
ASSUME ProcessAssumption == At \in [Mutations \cup Visitors -> Workers]
ASSUME FirstAssumption == First \in Categories
ASSUME PayloadAssumption ==
  \A p \in Payloads :
    /\ DOMAIN p \subseteq Columns
    /\ "image" \in DOMAIN p => p.image \in Files \cup {NoImage}
    /\ "gallery" \in DOMAIN p => p.gallery \subseteq Files
    /\ "category" \in DOMAIN p => p.category \in Categories
    /\ "figures" \in DOMAIN p => p.figures \in Nat
ASSUME SharedAssumption == Shared \subseteq Files
ASSUME EventsAssumption == MaxEvents \in Nat

\* storefront:homepage:v1 and catalog:categories:v1
Keys == {"home", "categories"}

\* Redis, and the dictionary of each process.
Redis == "redis"
Stores == Workers \cup {Redis}
ASSUME StoresAssumption == Redis \notin Workers

VARIABLES
  row,     \* the committed product
  files,   \* objects in the bucket
  cache,   \* each store's unexpired entry of each key
  events,  \* how many of those have happened
  pc,      \* where each mutation is
  job,     \* what it does and what it read
  todo,    \* the files it has yet to delete
  due,     \* the keys it has yet to invalidate
  vpc,     \* where each visitor's request is
  visit,   \* the key it asks for and what it queried
  shown,   \* files whose URL clients have been shown
  brought, \* files whose URL a payload put into a product
  dropped  \* gallery images a payload took out of the row

mutations == <<pc, job, todo, due>>
visits == <<vpc, visit>>
urls == <<shown, brought, dropped>>
vars == <<row, files, cache, events, mutations, visits, urls>>

Kinds == {"create", "image", "gallery", "update", "delete"}
Job == [kind : {"image", "gallery", "delete"}, read : Row]
         \cup [kind : {"create", "update"}, payload : Payloads, read : Row]
NoJob == [kind |-> "none"]
NoVisit == [key |-> "none"]

\* A new row has the defaults; the product that is there at first has its image.
Blank == [image |-> NoImage, gallery |-> {}, category |-> First, figures |-> 0]
Original == [image |-> Picture, gallery |-> {}, category |-> First, figures |-> 0]

\* The columns a page shows: the whole row, or the category alone.
Shows(k) == IF k = "home" THEN Columns ELSE {"category"}
Listed(r) == r \notin {Absent, Gone}

\* What a page shows of row r: nothing if it is not there.
Shown(k, r) ==
  IF ~Listed(r) THEN Gone
  ELSE IF k = "home" THEN r ELSE [Blank EXCEPT !.category = r.category]

\* The columns in which a page is out of date.
Value(r, c) == IF Listed(r) THEN r[c] ELSE Gone
Stale(k, page, r) == {c \in Shows(k) : Value(page, c) # Value(r, c)}

Visit == [key : Keys, page : Row \cup {Gone}]

\* An entry.  A column that is out of date is excused if it was queried before the
\* change and stored after it, if an invalidation did not reach the entry, or if
\* the change was one that invalidates nothing.
Entry == [page : Row \cup {Gone}, excused : SUBSET Columns]

Init ==
  /\ row \in {Original, Absent}
  /\ files = {Picture}
  /\ cache = [s \in Stores |-> [k \in Keys |-> Nothing]]
  /\ events = 0
  /\ pc = [m \in Mutations |-> "idle"]
  /\ job = [m \in Mutations |-> NoJob]
  /\ todo = [m \in Mutations |-> {}]
  /\ due = [m \in Mutations |-> {}]
  /\ vpc = [v \in Visitors |-> "idle"]
  /\ visit = [v \in Visitors |-> NoVisit]
  /\ shown = {Picture}
  /\ brought = {}
  /\ dropped = {}

\* One of the bounded events.
Event == events < MaxEvents /\ events' = events + 1

Move(m, to) == pc' = [pc EXCEPT ![m] = to]

\* An entry when the row is r: the columns in C are excused as well, and none is
\* that is up to date.
Excuse(e, C, k, r) ==
  IF e = Nothing THEN e ELSE [e EXCEPT !.excused = (@ \cup C) \cap Stale(k, e.page, r)]

-----------------------------------------------------------------------------
(* Seller mutations.                                                       *)

\* The stored files a row points to.
Urls(r) == IF Listed(r) THEN ({r.image} \cup r.gallery) \ {NoImage} ELSE {}

\* Slip: no "if product.image_url".
EvenNull(kind, read) ==
  CASE kind = "image"  -> {read.image}
    [] kind = "delete" -> Urls(read)
    [] OTHER           -> {}

\* What a handler deletes before it writes: the image it replaces, or, for a
\* deletion, every image of the product as it was read.
Doomed(kind, read) ==
  CASE kind = "image"  -> {read.image} \ {NoImage}
    [] kind = "delete" -> Urls(read)
    [] OTHER           -> {}

\* Where a handler goes when nothing is left to delete.
AfterClearing(kind) == IF kind \in {"image", "gallery"} THEN "uploading" ELSE "saving"

\* The columns a payload sets to another value than was loaded: the ORM writes
\* these and no others.
Changed(p, read) == {c \in DOMAIN p : p[c] # read[c]}

\* Row r with those columns.
Assigned(p, read, r) ==
  LET Now(c) == IF c \in Changed(p, read) THEN p[c] ELSE r[c]
  IN [image |-> Now("image"), gallery |-> Now("gallery"),
      category |-> Now("category"), figures |-> Now("figures")]

\* The files whose URLs a payload carries, and those it puts where they were not.
Carried(p) ==
  {f \in Files : \/ "image" \in DOMAIN p /\ f = p.image
                 \/ "gallery" \in DOMAIN p /\ f \in p.gallery}

Brought(p, read) ==
  {f \in Files : \/ "image" \in Changed(p, read) /\ f = p.image
                 \/ "gallery" \in Changed(p, read) /\ f \in p.gallery \ read.gallery}

\* Clients send URLs they have been shown.
Sendable == {p \in Payloads : Carried(p) \subseteq shown}

\* db.get(Product), and the 404.
Find(m, j) ==
  /\ pc[m] = "idle"
  /\ IF ~Listed(row)
     THEN Move(m, "refused") /\ UNCHANGED <<job, todo>>
     ELSE /\ Move(m, IF Doomed(j.kind, row) # {} THEN "clearing" ELSE AfterClearing(j.kind))
          /\ job' = [job EXCEPT ![m] = j]
          /\ todo' = [todo EXCEPT ![m] = Doomed(j.kind, row)]
  /\ UNCHANGED <<row, files, cache, events, due, visits, urls>>

\* An upload, with the checks of its type and size, or a deletion.
Load(m, kind) == Find(m, [kind |-> kind, read |-> row])

\* PATCH /products/{id}
Update(m, p) == Find(m, [kind |-> "update", payload |-> p, read |-> row])

\* POST /products: there is nothing to read.
Create(m, p) ==
  /\ pc[m] = "idle"
  /\ row = Absent
  /\ "category" \in DOMAIN p
  /\ Move(m, "saving")
  /\ job' = [job EXCEPT ![m] = [kind |-> "create", payload |-> p, read |-> Blank]]
  /\ UNCHANGED <<row, files, cache, events, todo, due, visits, urls>>

\* storage_service.delete_file: a ClientError is logged, and the file stays.
DeleteFile(m, f) ==
  /\ pc[m] = "clearing"
  /\ f \in todo[m]
  /\ todo' = [todo EXCEPT ![m] = @ \ {f}]
  /\ files' \in {files, files \ {f}}
  /\ IF todo[m] = {f} THEN Move(m, AfterClearing(job[m].kind)) ELSE UNCHANGED pc
  /\ UNCHANGED <<row, cache, events, job, due, visits, urls>>

\* storage_service.upload_file, under a name with a random part.
Upload(m) ==
  /\ pc[m] = "uploading"
  /\ files' = files \cup {m}
  /\ Move(m, "saving")
  /\ UNCHANGED <<row, cache, events, job, todo, due, visits, urls>>

\* Slip: the whole row is written as it was read.
WholeRow(m) ==
  LET j == job[m]
  IN CASE j.kind = "image"   -> [j.read EXCEPT !.image = m]
       [] j.kind = "gallery" -> [j.read EXCEPT !.gallery = @ \cup {m}]
       [] OTHER              -> Assigned(j.payload, j.read, j.read)

\* The columns the handler assigns, those that equal what was loaded left out:
\* the gallery is the list it read and its own image.
Written(m) ==
  LET j == job[m]
  IN CASE j.kind = "image"   -> [row EXCEPT !.image = m]
       [] j.kind = "gallery" -> [row EXCEPT !.gallery = j.read.gallery \cup {m}]
       [] j.kind = "update"  -> Assigned(j.payload, j.read, row)
       [] OTHER              -> Assigned(j.payload, j.read, Blank)

\* Slip: a new image is not on the shelves.
InvalidatedByText(kind) == IF kind \in {"image", "gallery"} THEN {} ELSE Keys

\* The prefixes each handler invalidates.
Invalidated(kind) ==
  CASE kind = "gallery" -> {}
    [] kind = "image"   -> {"home"}
    [] OTHER            -> Keys

\* What a commit changes without invalidating a page that shows it.
Unannounced(kind) == IF kind = "gallery" THEN {"gallery"} ELSE {}

\* A commit changes the row to r: clients can see its URLs.
Commit(r, unannounced) ==
  /\ row' = r
  /\ cache' = [s \in Stores |-> [k \in Keys |-> Excuse(cache[s][k], unannounced, k, r)]]
  /\ shown' = shown \cup Urls(r)

\* The commit of a mutation.  What the handler read no longer matters, but for
\* another gallery upload.
Becomes(m, r) ==
  LET j == job[m]
  IN /\ Commit(r, Unannounced(j.kind))
     /\ job' = IF j.kind = "gallery" THEN job ELSE [job EXCEPT ![m] = NoJob]
     /\ Move(m, IF Invalidated(j.kind) = {} THEN "done" ELSE "invalidating")
     /\ due' = [due EXCEPT ![m] = Invalidated(j.kind)]
     /\ brought' = IF j.kind \in {"create", "update"}
                   THEN brought \cup Brought(j.payload, j.read) ELSE brought
     /\ dropped' = IF j.kind = "update" /\ Listed(row)
                   THEN dropped \cup (row.gallery \ r.gallery) ELSE dropped
     /\ UNCHANGED <<files, events, todo, visits>>

\* INSERT, or UPDATE of the columns that changed.
SaveRow(m) ==
  /\ pc[m] = "saving"
  /\ job[m].kind # "delete"
  /\ IF job[m].kind = "create" THEN row = Absent ELSE Listed(row)
  /\ Becomes(m, Written(m))

\* DELETE; a second one finds no row, warns, and goes on.
DeleteRow(m) ==
  /\ pc[m] = "saving"
  /\ job[m].kind = "delete"
  /\ Becomes(m, Gone)

\* A restock, a review or an order commits: it changes the figures, which the home
\* page shows and ranks by, and invalidates nothing.
ChangeFigures ==
  /\ Listed(row)
  /\ Event
  /\ Commit([row EXCEPT !.figures = @ + 1], {"figures"})
  /\ UNCHANGED <<files, mutations, visits, brought, dropped>>

\* Another product, whose payload carried f's URL, is deleted or has its image
\* replaced: f goes from the bucket.
DeletedElsewhere(f) ==
  /\ f \in shown
  /\ Event
  /\ files' = files \ {f}
  /\ brought' = brought \cup {f}
  /\ UNCHANGED <<row, cache, mutations, visits, shown, dropped>>

\* The handler ends; what it read matters only if it has deleted files.
Fail(m) ==
  /\ Move(m, "failed")
  /\ job' = IF Doomed(job[m].kind, job[m].read) = {} THEN [job EXCEPT ![m] = NoJob] ELSE job
  /\ UNCHANGED <<row, files, cache, events, todo, due, visits, urls>>

\* The commit fails: the row to update has gone, the product to delete was
\* ordered, or the database or the process is lost.  Files stay as they are.
SaveFails(m) == pc[m] = "saving" /\ Fail(m)

\* Storage is out of reach, or the process dies.
Crash(m) == pc[m] \in {"clearing", "uploading"} /\ Fail(m)

-----------------------------------------------------------------------------
(* CacheService                                                            *)

\* Categories are invalidated before the home page.
NextKey(m) == IF "categories" \in due[m] THEN "categories" ELSE "home"

\* invalidate_prefix: Redis, unless it fails, and the dictionary of this process;
\* the dictionaries of the others are out of reach.
Invalidate(m, redisFails) ==
  LET k == NextKey(m)
      w == At[m]
  IN /\ pc[m] = "invalidating"
     /\ IF redisFails THEN Event ELSE UNCHANGED events
     /\ cache' = [s \in Stores |-> [cache[s] EXCEPT ![k] =
          IF s = w \/ (s = Redis /\ ~redisFails) THEN Nothing ELSE Excuse(@, Columns, k, row)]]
     /\ due' = [due EXCEPT ![m] = @ \ {k}]
     /\ IF due[m] = {k} THEN Move(m, "done") ELSE UNCHANGED pc
     /\ UNCHANGED <<row, files, job, todo, visits, urls>>

\* The process dies with keys still to invalidate.
DieBeforeInvalidating(m) ==
  /\ pc[m] = "invalidating"
  /\ Move(m, "failed")
  /\ due' = [due EXCEPT ![m] = {}]
  /\ cache' = [s \in Stores |-> [k \in Keys |->
       IF k \in due[m] THEN Excuse(cache[s][k], Columns, k, row) ELSE cache[s][k]]]
  /\ UNCHANGED <<row, files, events, job, todo, visits, urls>>

\* Slip: redis.set without ex.
ExpiresInMemory(s) == s \in Workers

\* Every entry is stored with a time to live.
Expires(s) == TRUE

Expire(s, k) ==
  /\ cache[s][k] # Nothing
  /\ Expires(s)
  /\ cache' = [cache EXCEPT ![s][k] = Nothing]
  /\ UNCHANGED <<row, files, events, mutations, visits, urls>>

-----------------------------------------------------------------------------
(* The cached pages.                                                       *)

\* "if cached": an empty list of categories counts as a miss.
Hit(k, e) == e # Nothing /\ (k = "categories" => e.page # Gone)

\* cache_service.get, from the dictionary if Redis fails.  A hit is answered.
Get(v, k, redisFails) ==
  LET e == cache[IF redisFails THEN At[v] ELSE Redis][k]
  IN /\ vpc[v] = "idle"
     /\ ~Hit(k, e)
     /\ IF redisFails THEN Event ELSE UNCHANGED events
     /\ vpc' = [vpc EXCEPT ![v] = "missed"]
     /\ visit' = [visit EXCEPT ![v] = [key |-> k, page |-> Gone]]
     /\ UNCHANGED <<row, files, cache, mutations, urls>>

\* The queries.
Query(v) ==
  /\ vpc[v] = "missed"
  /\ vpc' = [vpc EXCEPT ![v] = "queried"]
  /\ visit' = [visit EXCEPT ![v].page = Shown(visit[v].key, row)]
  /\ UNCHANGED <<row, files, cache, events, mutations, urls>>

\* Where a SET leaves its value: in Redis; in the dictionary of the process, if Redis
\* fails; or in both, if Redis stored it and its answer came too late.
Landings(w) == {{Redis}, {w}, {Redis, w}}

\* cache_service.set
Set(v, stores) ==
  LET k == visit[v].key
      e == [page |-> visit[v].page, excused |-> Stale(k, visit[v].page, row)]
  IN /\ vpc[v] = "queried"
     /\ IF stores = {Redis} THEN UNCHANGED events ELSE Event
     /\ cache' = [s \in Stores |->
          IF s \in stores THEN [cache[s] EXCEPT ![k] = e] ELSE cache[s]]
     /\ vpc' = [vpc EXCEPT ![v] = "idle"]
     /\ visit' = [visit EXCEPT ![v] = NoVisit]
     /\ UNCHANGED <<row, files, mutations, urls>>

-----------------------------------------------------------------------------
Mutate(m) ==
  \/ \E kind \in {"image", "gallery", "delete"} : Load(m, kind)
  \/ \E p \in Sendable : Create(m, p) \/ Update(m, p)
  \/ SaveFails(m) \/ Crash(m) \/ DieBeforeInvalidating(m)

Proceed(m) ==
  \/ \E f \in Files : DeleteFile(m, f)
  \/ Upload(m) \/ SaveRow(m) \/ DeleteRow(m)
  \/ \E redisFails \in BOOLEAN : Invalidate(m, redisFails)

Fill(v) == Query(v) \/ \E stores \in Landings(At[v]) : Set(v, stores)

Next ==
  \/ \E m \in Mutations : Mutate(m) \/ Proceed(m)
  \/ ChangeFigures
  \/ \E f \in Shared : DeletedElsewhere(f)
  \/ \E s \in Stores, k \in Keys : Expire(s, k)
  \/ \E v \in Visitors :
       \/ \E k \in Keys, redisFails \in BOOLEAN : Get(v, k, redisFails)
       \/ Fill(v)

Spec == Init /\ [][Next]_vars

\* Requests go on, or end in failure; time passes.
FairSpec ==
  /\ Spec
  /\ \A m \in Mutations : WF_vars(Proceed(m) \/ SaveFails(m))
  /\ \A v \in Visitors : WF_vars(Fill(v))
  /\ \A s \in Stores, k \in Keys : WF_vars(Expire(s, k))
-----------------------------------------------------------------------------
(* Properties.                                                             *)

TypeOK ==
  /\ row \in Row \cup {Absent, Gone}
  /\ files \subseteq Files
  /\ cache \in [Stores -> [Keys -> Entry \cup {Nothing}]]
  /\ events \in 0..MaxEvents
  /\ pc \in [Mutations -> {"idle", "refused", "clearing", "uploading", "saving",
                           "invalidating", "done", "failed"}]
  /\ job \in [Mutations -> Job \cup {NoJob}]
  /\ todo \in [Mutations -> SUBSET Files]
  /\ due \in [Mutations -> SUBSET Keys]
  /\ vpc \in [Visitors -> {"idle", "missed", "queried"}]
  /\ visit \in [Visitors -> Visit \cup {NoVisit}]
  /\ shown \subseteq Files /\ brought \subseteq Files /\ dropped \subseteq Files

\* An image the product points to is in the bucket, unless a request that read
\* it, in order to replace it or to delete the product, is still at work or has
\* failed, or a payload brought its URL into a product or a column that did not
\* have it: uploads that all succeed, and edits that bring no URLs, never leave the
\* row with a deleted file.
DanglingNeedsCause ==
  \A f \in Urls(row) \ files :
    \/ f \in brought
    \/ \E m \in Mutations : /\ job[m] # NoJob
                            /\ f \in Doomed(job[m].kind, job[m].read) \ todo[m]

\* An uploaded gallery image stays in the gallery; only another gallery upload
\* that had read the list without it, or a PATCH with a list without it that
\* committed after it, can take it out.
GalleryLossNeedsWriter ==
  \A m \in Mutations : pc[m] = "done" /\ job[m].kind = "gallery" /\ Listed(row) =>
    \/ m \in row.gallery
    \/ m \in dropped
    \/ \E n \in Mutations \ {m} : /\ pc[n] = "done" /\ job[n].kind = "gallery"
                                  /\ m \notin job[n].read.gallery

\* A cached page is out of date in a column only while the change's invalidation
\* is on its way, or for one of four reasons: it was queried before the change and
\* stored after it, an invalidation was lost or could not reach another process,
\* the column is the gallery and the change an upload, or it is a figure and the
\* change a restock, a review or an order.
StaleNeedsCause ==
  \A s \in Stores, k \in Keys : cache[s][k] # Nothing =>
    \A c \in Stale(k, cache[s][k].page, row) :
      \/ c \in cache[s][k].excused
      \/ \E m \in Mutations : pc[m] = "invalidating" /\ k \in due[m]

\* Whatever went wrong, the cache is right again some time after the last change.
CacheCatchesUp ==
  <>[](\A s \in Stores, k \in Keys :
         cache[s][k] # Nothing => cache[s][k].page = Shown(k, row))
=============================================================================
