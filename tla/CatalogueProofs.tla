--------------------------- MODULE CatalogueProofs ---------------------------
(***************************************************************************)
(* Theorems about Catalogue, for any seller requests, payloads, visitors,  *)
(* processes, categories and number of events.                             *)
(***************************************************************************)
EXTENDS Catalogue, TLAPS

Working == {"clearing", "uploading", "saving"}

\* A request at work knows what it does; before a product is there, it creates it.
JobsOK ==
  \A m \in Mutations :
    /\ pc[m] \in {"idle", "invalidating"} => job[m] = NoJob
    /\ pc[m] \in Working => job[m] \in Job
    /\ row = Absent /\ job[m] # NoJob => job[m].kind = "create"
    /\ job[m].kind = "create" => job[m].read = Blank
    /\ pc[m] = "uploading" => job[m].kind \in {"image", "gallery"}

\* Clients have been shown every URL in use, and none of a request's own file
\* before its commit.
ShownOK ==
  /\ Urls(row) \subseteq shown
  /\ \A m \in Mutations : job[m] # NoJob =>
       /\ Urls(job[m].read) \subseteq shown
       /\ job[m].kind \in {"create", "update"} => Carried(job[m].payload) \subseteq shown
  /\ \A m \in Mutations : pc[m] \in {"idle", "refused"} \cup Working => m \notin shown

\* The files of a row that no payload brought were uploaded by requests that have
\* committed: a gallery holds gallery uploads, the image is an image upload.
Uploaded(f, kind) ==
  IF kind = "gallery"
  THEN f \in Mutations /\ pc[f] = "done" /\ job[f].kind = "gallery"
  ELSE f \in Mutations => pc[f] \in {"invalidating", "done", "failed"} /\ job[f] = NoJob

Owned(r) ==
  r \in Row => /\ \A f \in r.gallery \ brought : Uploaded(f, "gallery")
               /\ r.image \in brought \/ Uploaded(r.image, "image")

OwnedOK ==
  /\ Owned(row)
  /\ \A m \in Mutations : job[m] # NoJob => Owned(job[m].read)

\* A request deletes only what it may, and no file that is not in a row yet.
FilesOK ==
  \A m \in Mutations :
    /\ pc[m] = "clearing" => todo[m] \subseteq Doomed(job[m].kind, job[m].read)
    /\ pc[m] = "saving" /\ job[m].kind \in {"image", "gallery"} => m \in files

Doomer(f) ==
  \E m \in Mutations : job[m] # NoJob /\ f \in Doomed(job[m].kind, job[m].read) \ todo[m]

\* A file that may be missing from the bucket.
Explained(f) == f \in files \/ f \in brought \/ Doomer(f)

\* DanglingNeedsCause, also of the galleries that uploads and updates have read.
DanglingOK ==
  Listed(row) =>
    /\ \A f \in Urls(row) : Explained(f)
    /\ \A n \in Mutations : job[n].kind \in {"gallery", "update"} =>
         \A f \in job[n].read.gallery : Explained(f)

\* What a visitor asks for.
VisitsOK == \A v \in Visitors : vpc[v] \in {"missed", "queried"} => visit[v] \in Visit

FilesInv ==
  JobsOK /\ ShownOK /\ OwnedOK /\ FilesOK /\ DanglingOK /\ GalleryLossNeedsWriter
CacheInv == VisitsOK /\ StaleNeedsCause
IInv == TypeOK /\ FilesInv /\ CacheInv

-----------------------------------------------------------------------------
(* Facts about data.                                                       *)

\* A row is there or it is not.
LEMMA Rows ==
  /\ Absent \notin Row /\ Gone \notin Row /\ Absent # Gone
  /\ \A r \in Row : /\ Listed(r)
                    /\ r.image \in Files \cup {NoImage}
                    /\ r.gallery \subseteq Files
                    /\ r.category \in Categories /\ r.figures \in Nat
  /\ \A r \in Row \cup {Absent, Gone} : Listed(r) => r \in Row
  /\ Blank \in Row /\ Original \in Row
  /\ NoImage \notin Files /\ NoImage \notin Mutations /\ Picture \notin Mutations
BY NullAssumption, PictureAssumption, FirstAssumption
DEF Row, Listed, Files, Blank, Original

\* What a request does, and what it read.
LEMMA Jobs ==
  /\ NoJob.kind = "none"
  /\ \A j \in Job : /\ j # NoJob /\ j.kind \in Kinds /\ j.read \in Row
                    /\ j.kind \in {"create", "update"} => j.payload \in Payloads
<1>1. \A j \in Job : j.kind \in Kinds /\ j.read \in Row
  BY DEF Job, Kinds
<1>2. NoJob.kind = "none"
  BY DEF NoJob
<1>3. \A j \in Job : j # NoJob
  BY <1>1, <1>2 DEF Kinds
<1>4. \A j \in Job : j.kind \in {"create", "update"} => j.payload \in Payloads
  BY DEF Job
<1> QED
  BY <1>1, <1>2, <1>3, <1>4

\* What a page shows.
LEMMA PageOf ==
  ASSUME NEW r \in Row \cup {Absent, Gone}, NEW k \in Keys
  PROVE  /\ Shown(k, r) \in Row \cup {Gone}
         /\ Stale(k, Shown(k, r), r) = {}
         /\ \A page : Stale(k, page, r) \subseteq Columns
<1>1. \A page : Stale(k, page, r) \subseteq Columns
  BY DEF Stale, Shows, Columns
<1>2. CASE ~Listed(r)
  <2>1. Shown(k, r) = Gone /\ ~Listed(Gone)
    BY <1>2 DEF Shown, Listed
  <2>2. Stale(k, Gone, r) = {}
    BY <1>2, <2>1 DEF Stale, Value
  <2> QED
    BY <1>1, <2>1, <2>2
<1>3. CASE Listed(r) /\ k = "home"
  <2>1. Shown(k, r) = r /\ r \in Row
    BY <1>3, Rows DEF Shown
  <2>2. Stale(k, r, r) = {}
    BY DEF Stale
  <2> QED
    BY <1>1, <2>1, <2>2
<1>4. CASE Listed(r) /\ k # "home"
  <2> DEFINE page == [Blank EXCEPT !.category = r.category]
  <2>1. page \in Row /\ page["category"] = r["category"]
    BY <1>4, Rows DEF Row, Blank
  <2>2. Shown(k, r) = page /\ Shows(k) = {"category"}
    BY <1>4 DEF Shown, Shows
  <2> HIDE DEF page
  <2>3. Stale(k, page, r) = {}
    BY <1>4, <2>1, <2>2, Rows DEF Stale, Value
  <2> QED
    BY <1>1, <2>1, <2>2, <2>3
<1> QED
  BY <1>2, <1>3, <1>4

\* Only the images of what was read are deleted.
LEMMA Dooms ==
  ASSUME NEW kind, NEW r \in Row
  PROVE  /\ Doomed(kind, r) \subseteq Urls(r)
         /\ Urls(r) = ({r.image} \cup r.gallery) \ {NoImage}
         /\ Urls(r) \subseteq Files /\ r.gallery \subseteq Urls(r)
         /\ kind = "image" => Doomed(kind, r) \subseteq {r.image}
         /\ kind \in {"create", "gallery", "update"} => Doomed(kind, r) = {}
BY Rows DEF Doomed, Urls

\* What a payload makes of a row: a file that is new to a column is one it brought.
LEMMA Assigns ==
  ASSUME NEW p \in Payloads, NEW read \in Row, NEW r \in Row
  PROVE  /\ Assigned(p, read, r) \in Row
         /\ Assigned(p, read, r).image \in {r.image, NoImage} \cup Brought(p, read)
         /\ \/ Assigned(p, read, r).gallery = r.gallery
            \/ Assigned(p, read, r).gallery \subseteq read.gallery \cup Brought(p, read)
         /\ Brought(p, read) \subseteq Carried(p) /\ Carried(p) \subseteq Files
<1> DEFINE Now(c) == IF c \in Changed(p, read) THEN p[c] ELSE r[c]
           a == Assigned(p, read, r)
<1>1. Changed(p, read) \subseteq DOMAIN p
  BY DEF Changed
<1>2. /\ a = [image |-> Now("image"), gallery |-> Now("gallery"),
              category |-> Now("category"), figures |-> Now("figures")]
      /\ a.image = Now("image") /\ a.gallery = Now("gallery")
  BY DEF Assigned
<1>3. /\ Now("image") \in Files \cup {NoImage} /\ Now("gallery") \in SUBSET Files
      /\ Now("category") \in Categories /\ Now("figures") \in Nat
  BY <1>1, PayloadAssumption, Rows
<1>4. a \in Row
  BY <1>2, <1>3 DEF Row
<1>5. Now("image") \in {r.image, NoImage} \cup Brought(p, read)
  BY <1>3 DEF Brought
<1>6. Now("gallery") = r.gallery \/ Now("gallery") \subseteq read.gallery \cup Brought(p, read)
  BY <1>3 DEF Brought
<1>7. Brought(p, read) \subseteq Carried(p) /\ Carried(p) \subseteq Files
  BY <1>1 DEF Brought, Carried
<1> QED
  BY <1>2, <1>4, <1>5, <1>6, <1>7

\* An excuse changes nothing but the excuse.
LEMMA Excuses ==
  ASSUME NEW e \in Entry \cup {Nothing}, NEW C \in SUBSET Columns, NEW k, NEW r
  PROVE  /\ Excuse(e, C, k, r) \in Entry \cup {Nothing}
         /\ Excuse(e, C, k, r) # Nothing =>
              /\ e # Nothing /\ e \in Entry
              /\ Excuse(e, C, k, r).page = e.page
              /\ Excuse(e, C, k, r).excused = (e.excused \cup C) \cap Stale(k, e.page, r)
<1>1. ASSUME e \in Entry, NEW X \in SUBSET Columns
      PROVE  /\ [e EXCEPT !.excused = X] \in Entry
             /\ [e EXCEPT !.excused = X].page = e.page
             /\ [e EXCEPT !.excused = X].excused = X
  BY <1>1 DEF Entry
<1>2. e \in Entry => (e.excused \cup C) \cap Stale(k, e.page, r) \in SUBSET Columns
  BY DEF Entry
<1> QED
  BY <1>1, <1>2 DEF Excuse

\* The events stay within their bound.
LEMMA EventOK ==
  ASSUME TypeOK, Event \/ UNCHANGED events
  PROVE  events' \in 0..MaxEvents
BY EventsAssumption DEF TypeOK, Event

-----------------------------------------------------------------------------
(* Steps that concern neither the row nor the cache.                       *)

\* The product is there with its image, or it is not there.
LEMMA InitOK == Init => IInv
<1> SUFFICES ASSUME Init PROVE IInv
  OBVIOUS
<1>1. TypeOK
  BY Rows, EventsAssumption DEF Init, TypeOK, Files
<1>2. Urls(row) \subseteq {Picture}
  <2>1. row = Original => Urls(row) \subseteq {Picture}
    BY Rows, Dooms DEF Original
  <2> QED
    BY <2>1 DEF Init, Urls, Listed
<1>3. JobsOK /\ FilesOK /\ VisitsOK /\ GalleryLossNeedsWriter /\ StaleNeedsCause
  BY DEF Init, JobsOK, Working, FilesOK, VisitsOK, GalleryLossNeedsWriter, StaleNeedsCause,
     NoJob
<1>4. OwnedOK
  BY Rows DEF Init, OwnedOK, Owned, Uploaded, Original
<1>5. DanglingOK
  BY <1>2, Jobs DEF Init, DanglingOK, Explained
<1>6. ShownOK
  BY <1>2, Rows DEF Init, ShownOK
<1> QED
  BY <1>1, <1>3, <1>4, <1>5, <1>6 DEF IInv, FilesInv, CacheInv

\* The steps of a request before it commits leave the cache and its readers alone.
LEMMA CacheKept ==
  ASSUME CacheInv, UNCHANGED <<row, cache, due, vpc, visit>>,
         \A m \in Mutations : pc[m] = "invalidating" => pc'[m] = "invalidating"
  PROVE  CacheInv'
BY DEF CacheInv, VisitsOK, StaleNeedsCause

\* A committed upload stays one.
LEMMA UploadedKept ==
  ASSUME NEW m \in Mutations, pc[m] \notin {"done", "failed"},
         \A n \in Mutations \ {m} : pc'[n] = pc[n] /\ job'[n] = job[n],
         pc[m] = "invalidating" => /\ pc'[m] \in {"invalidating", "done", "failed"}
                                   /\ job'[m] = job[m],
         NEW f, NEW kind, Uploaded(f, kind)
  PROVE  Uploaded(f, kind)'
BY DEF Uploaded

\* And so do the files of a row: what payloads have brought only grows.
LEMMA OwnedKept ==
  ASSUME brought \subseteq brought',
         \A f : /\ Uploaded(f, "gallery") => Uploaded(f, "gallery")'
                /\ Uploaded(f, "image") => Uploaded(f, "image")',
         NEW r, Owned(r)
  PROVE  Owned(r)'
BY DEF Owned

\* A request starts: it knows the row as it is.
LEMMA StartStep ==
  ASSUME IInv, NEW m \in Mutations,
         \/ \E kind \in {"image", "gallery", "delete"} : Load(m, kind)
         \/ \E p \in Sendable : Create(m, p) \/ Update(m, p)
  PROVE  IInv'
<1> USE DEF IInv, FilesInv
<1>1. /\ pc[m] = "idle" /\ job[m] = NoJob
      /\ UNCHANGED <<row, files, cache, events, due, vpc, visit, shown, brought, dropped>>
  BY DEF Load, Update, Find, Create, visits, urls, JobsOK
<1>2. CASE job' = job /\ pc' = [pc EXCEPT ![m] = "refused"] /\ todo' = todo
  <2>1. TypeOK'
    BY <1>1, <1>2 DEF TypeOK
  <2>2. pc'[m] = "refused" /\ \A n \in Mutations \ {m} : pc'[n] = pc[n]
    BY <1>2 DEF TypeOK
  <2>3. JobsOK' /\ ShownOK'
    BY <1>1, <1>2, <2>2 DEF JobsOK, ShownOK, Working
  <2>4. OwnedOK'
    BY <1>1, <1>2, <2>2 DEF OwnedOK, Owned, Uploaded
  <2>5. FilesOK' /\ DanglingOK' /\ GalleryLossNeedsWriter'
    BY <1>1, <1>2, <2>2 DEF FilesOK, DanglingOK, Explained, Doomer, GalleryLossNeedsWriter
  <2>6. CacheInv'
    BY <1>1, <1>2, <2>2, CacheKept
  <2> QED
    BY <2>1, <2>3, <2>4, <2>5, <2>6
<1>3. ASSUME NEW j \in Job, NEW to \in Working, NEW t \in SUBSET Files,
             /\ j.kind # "create" => row \in Row /\ j.read = row
             /\ j.kind = "create" => j.read = Blank /\ to = "saving"
             /\ j.kind \in {"create", "update"} => Carried(j.payload) \subseteq shown
             /\ to = "clearing" => t = Doomed(j.kind, j.read)
             /\ to # "clearing" => j.kind \in {"image", "gallery"} <=> to = "uploading"
             /\ job' = [job EXCEPT ![m] = j]
             /\ pc' = [pc EXCEPT ![m] = to]
             /\ todo' = [todo EXCEPT ![m] = t]
      PROVE  IInv'
  <2>1. /\ job'[m] = j /\ pc'[m] = to /\ todo'[m] = t /\ j # NoJob
        /\ \A n \in Mutations \ {m} : /\ job'[n] = job[n] /\ pc'[n] = pc[n]
                                      /\ todo'[n] = todo[n]
    BY <1>3, Jobs DEF TypeOK
  <2>2. TypeOK'
    BY <1>1, <1>3 DEF TypeOK, Working
  <2>3. JobsOK'
    BY <1>1, <1>3, <2>1, Rows DEF JobsOK, Working
  <2>4. ShownOK'
    <3>1. Urls(Blank) = {}
      BY Rows, Dooms DEF Blank
    <3>2. Urls(j.read) \subseteq shown
      BY <1>3, <3>1 DEF ShownOK
    <3> QED
      BY <1>1, <1>3, <2>1, <3>2 DEF ShownOK, Working
  <2>5. OwnedOK'
    <3>1. \A r : Owned(r) => Owned(r)'
      BY <1>1, <2>1, UploadedKept, OwnedKept
    <3>2. Owned(Blank)
      BY Rows DEF Owned, Uploaded, Blank
    <3>3. Owned(j.read)
      BY <1>3, <3>2 DEF OwnedOK
    <3> QED
      BY <1>1, <2>1, <3>1, <3>3 DEF OwnedOK
  <2>6. FilesOK'
    BY <1>1, <1>3, <2>1 DEF FilesOK, Working
  <2>7. \A f : Explained(f) => Explained(f)'
    BY <1>1, <2>1 DEF Explained, Doomer
  <2>8. DanglingOK'
    <3>1. row \in Row => row.gallery \subseteq Urls(row)
      BY Dooms
    <3> QED
      BY <1>1, <1>3, <2>1, <2>7, <3>1 DEF DanglingOK
  <2>9. GalleryLossNeedsWriter'
    BY <1>1, <1>3, <2>1 DEF GalleryLossNeedsWriter, Working
  <2>10. CacheInv'
    BY <1>1, <2>1, CacheKept
  <2> QED
    BY <2>2, <2>3, <2>4, <2>5, <2>6, <2>8, <2>9, <2>10
<1>4. ASSUME NEW p \in Sendable, Create(m, p) PROVE IInv'
  <2> DEFINE j == [kind |-> "create", payload |-> p, read |-> Blank]
  <2>1. p \in Payloads /\ Carried(p) \subseteq shown
    BY <1>4 DEF Sendable
  <2>2. j \in Job /\ j.kind = "create" /\ j.read = Blank /\ j.payload = p
    BY <2>1, Rows DEF Job
  <2>3. job' = [job EXCEPT ![m] = j] /\ pc' = [pc EXCEPT ![m] = "saving"] /\ todo' = todo
    BY <1>4 DEF Create, Move
  <2>4. todo[m] \in SUBSET Files /\ todo' = [todo EXCEPT ![m] = todo[m]]
    BY <2>3 DEF TypeOK
  <2> HIDE DEF j
  <2> QED
    BY <1>3, <2>1, <2>2, <2>3, <2>4 DEF Working
<1>5. ASSUME NEW j, Find(m, j), j.read = row, row \in Row => j \in Job,
             j.kind \in {"image", "gallery", "delete", "update"},
             j.kind = "update" => Carried(j.payload) \subseteq shown
      PROVE  IInv'
  <2> DEFINE to == IF Doomed(j.kind, row) # {} THEN "clearing" ELSE AfterClearing(j.kind)
  <2>1. CASE ~Listed(row)
    BY <1>2, <1>5, <2>1 DEF Find, Move
  <2>2. CASE Listed(row)
    <3>1. row \in Row
      BY <2>2, Rows DEF TypeOK
    <3>2. Doomed(j.kind, row) \in SUBSET Files
      BY <3>1, Dooms
    <3>3. /\ job' = [job EXCEPT ![m] = j] /\ pc' = [pc EXCEPT ![m] = to]
          /\ todo' = [todo EXCEPT ![m] = Doomed(j.kind, row)]
      BY <1>5, <2>2 DEF Find, Move
    <3>4. /\ to \in Working
          /\ to # "clearing" => (j.kind \in {"image", "gallery"} <=> to = "uploading")
      BY DEF AfterClearing, Working
    <3> HIDE DEF to
    <3> QED
      BY <1>3, <1>5, <3>1, <3>2, <3>3, <3>4
  <2> QED
    BY <2>1, <2>2
<1>6. ASSUME NEW kind \in {"image", "gallery", "delete"}, Load(m, kind) PROVE IInv'
  <2> DEFINE j == [kind |-> kind, read |-> row]
  <2>1. Find(m, j) /\ j.read = row /\ j.kind = kind /\ (row \in Row => j \in Job)
    BY <1>6 DEF Load, Job
  <2> HIDE DEF j
  <2> QED
    BY <1>5, <2>1
<1>7. ASSUME NEW p \in Sendable, Update(m, p) PROVE IInv'
  <2> DEFINE j == [kind |-> "update", payload |-> p, read |-> row]
  <2>1. p \in Payloads /\ Carried(p) \subseteq shown
    BY <1>7 DEF Sendable
  <2>2. Find(m, j) /\ j.read = row /\ j.kind = "update" /\ j.payload = p
    BY <1>7 DEF Update
  <2>3. row \in Row => j \in Job
    BY <2>1 DEF Job
  <2> HIDE DEF j
  <2> QED
    BY <1>5, <2>1, <2>2, <2>3
<1> QED
  BY <1>4, <1>6, <1>7

\* A file is deleted, or stays: whoever deleted it is still known.
LEMMA DeleteFileStep ==
  ASSUME IInv, NEW m \in Mutations, NEW f \in Files, DeleteFile(m, f)
  PROVE  IInv'
<1> USE DEF IInv, FilesInv
<1>1. /\ pc[m] = "clearing" /\ f \in todo[m] /\ job[m] \in Job /\ job[m] # NoJob
      /\ todo' = [todo EXCEPT ![m] = todo[m] \ {f}]
      /\ files' \in {files, files \ {f}}
      /\ UNCHANGED <<row, cache, events, job, due, vpc, visit, shown, brought, dropped>>
  BY Jobs DEF DeleteFile, visits, urls, JobsOK, Working, TypeOK
<1>2. PICK to \in {"clearing", "uploading", "saving"} :
        /\ pc' = [pc EXCEPT ![m] = to]
        /\ to = "uploading" => job[m].kind \in {"image", "gallery"}
        /\ to = "saving" => job[m].kind \notin {"image", "gallery"}
  BY <1>1 DEF DeleteFile, Move, AfterClearing, TypeOK
<1>3. /\ pc'[m] = to /\ todo'[m] = todo[m] \ {f}
      /\ \A n \in Mutations \ {m} : pc'[n] = pc[n] /\ todo'[n] = todo[n]
  BY <1>1, <1>2 DEF TypeOK
<1>4. f \in Doomed(job[m].kind, job[m].read) /\ job[m].read \in Row
  BY <1>1, Jobs DEF FilesOK
<1>5. TypeOK'
  BY <1>1, <1>2 DEF TypeOK
<1>6. JobsOK' /\ ShownOK'
  BY <1>1, <1>2, <1>3 DEF JobsOK, ShownOK, Working
<1>7. OwnedOK'
  <2>1. \A r : Owned(r) => Owned(r)'
    BY <1>1, <1>3, UploadedKept, OwnedKept
  <2> QED
    BY <1>1, <2>1 DEF OwnedOK
<1>8. FilesOK'
  <2>1. f \in shown
    BY <1>1, <1>4, Dooms DEF ShownOK
  <2>2. \A n \in Mutations : pc[n] = "saving" => f # n
    BY <2>1 DEF ShownOK, Working
  <2> QED
    BY <1>1, <1>2, <1>3, <2>2 DEF FilesOK
<1>9. DanglingOK'
  <2>1. \A g : Explained(g) => Explained(g)'
    <3>1. \A g : Doomer(g) => Doomer(g)'
      BY <1>1, <1>3 DEF Doomer
    <3>2. Doomer(f)'
      BY <1>1, <1>3, <1>4 DEF Doomer
    <3> QED
      BY <1>1, <3>1, <3>2 DEF Explained
  <2> QED
    BY <1>1, <2>1 DEF DanglingOK
<1>10. GalleryLossNeedsWriter'
  BY <1>1, <1>2, <1>3 DEF GalleryLossNeedsWriter
<1>11. CacheInv'
  BY <1>1, <1>3, CacheKept
<1> QED
  BY <1>5, <1>6, <1>7, <1>8, <1>9, <1>10, <1>11

\* A file is uploaded under a name of its own.
LEMMA UploadStep ==
  ASSUME IInv, NEW m \in Mutations, Upload(m)
  PROVE  IInv'
<1> USE DEF IInv, FilesInv
<1>1. /\ pc[m] = "uploading" /\ pc' = [pc EXCEPT ![m] = "saving"]
      /\ files' = files \cup {m}
      /\ UNCHANGED <<row, cache, events, job, todo, due, vpc, visit, shown, brought, dropped>>
  BY DEF Upload, Move, visits, urls
<1>2. pc'[m] = "saving" /\ \A n \in Mutations \ {m} : pc'[n] = pc[n]
  BY <1>1 DEF TypeOK
<1>3. TypeOK'
  BY <1>1 DEF TypeOK, Files
<1>4. JobsOK' /\ ShownOK'
  BY <1>1, <1>2 DEF JobsOK, ShownOK, Working
<1>5. OwnedOK'
  <2>1. \A r : Owned(r) => Owned(r)'
    BY <1>1, <1>2, UploadedKept, OwnedKept
  <2> QED
    BY <1>1, <2>1 DEF OwnedOK
<1>6. FilesOK'
  BY <1>1, <1>2 DEF FilesOK
<1>7. DanglingOK'
  BY <1>1 DEF DanglingOK, Explained, Doomer
<1>8. GalleryLossNeedsWriter'
  BY <1>1, <1>2 DEF GalleryLossNeedsWriter
<1>9. CacheInv'
  BY <1>1, <1>2, CacheKept
<1> QED
  BY <1>3, <1>4, <1>5, <1>6, <1>7, <1>8, <1>9

\* A request fails before its commit: what it did to the files stays, and so does
\* what is known of it, if it may have deleted any.
LEMMA FailStep ==
  ASSUME IInv, NEW m \in Mutations, SaveFails(m) \/ Crash(m)
  PROVE  IInv'
<1> USE DEF IInv, FilesInv
<1>1. /\ pc[m] \in Working /\ pc' = [pc EXCEPT ![m] = "failed"]
      /\ job' = IF Doomed(job[m].kind, job[m].read) = {}
                THEN [job EXCEPT ![m] = NoJob] ELSE job
      /\ UNCHANGED <<row, files, cache, events, todo, due, vpc, visit, shown, brought, dropped>>
  BY DEF SaveFails, Crash, Fail, Move, visits, urls, Working
<1>2. /\ pc'[m] = "failed"
      /\ job'[m] = job[m] \/ (job'[m] = NoJob /\ Doomed(job[m].kind, job[m].read) = {})
      /\ \A n \in Mutations \ {m} : pc'[n] = pc[n] /\ job'[n] = job[n]
  BY <1>1 DEF TypeOK
<1>3. TypeOK'
  BY <1>1 DEF TypeOK
<1>4. JobsOK' /\ ShownOK'
  BY <1>1, <1>2, Jobs DEF JobsOK, ShownOK, Working
<1>5. OwnedOK'
  <2>1. \A r : Owned(r) => Owned(r)'
    BY <1>1, <1>2, UploadedKept, OwnedKept DEF Working
  <2> QED
    BY <1>1, <1>2, <2>1 DEF OwnedOK
<1>6. FilesOK'
  BY <1>1, <1>2 DEF FilesOK
<1>7. DanglingOK'
  <2>1. \A f : Explained(f) => Explained(f)'
    BY <1>1, <1>2 DEF Explained, Doomer
  <2> QED
    BY <1>1, <1>2, <2>1, Jobs DEF DanglingOK
<1>8. GalleryLossNeedsWriter'
  BY <1>1, <1>2 DEF GalleryLossNeedsWriter, Working
<1>9. CacheInv'
  BY <1>1, <1>2, CacheKept DEF Working
<1> QED
  BY <1>3, <1>4, <1>5, <1>6, <1>7, <1>8, <1>9

\* A file goes because a payload brought its URL into another product.
LEMMA ElsewhereStep ==
  ASSUME IInv, NEW f \in Files, DeletedElsewhere(f)
  PROVE  IInv'
<1> USE DEF IInv, FilesInv
<1>1. /\ f \in shown /\ files' = files \ {f} /\ brought' = brought \cup {f}
      /\ UNCHANGED <<row, cache, pc, job, todo, due, vpc, visit, shown, dropped>>
      /\ events' \in 0..MaxEvents
  BY EventOK DEF DeletedElsewhere, mutations, visits
<1>2. TypeOK'
  BY <1>1 DEF TypeOK
<1>3. JobsOK' /\ ShownOK'
  BY <1>1 DEF JobsOK, ShownOK
<1>4. OwnedOK'
  BY <1>1 DEF OwnedOK, Owned, Uploaded
<1>5. FilesOK'
  BY <1>1 DEF FilesOK, ShownOK, Working
<1>6. DanglingOK'
  BY <1>1 DEF DanglingOK, Explained, Doomer
<1>7. GalleryLossNeedsWriter'
  BY <1>1 DEF GalleryLossNeedsWriter
<1>8. CacheInv'
  BY <1>1, CacheKept
<1> QED
  BY <1>2, <1>3, <1>4, <1>5, <1>6, <1>7, <1>8

-----------------------------------------------------------------------------
(* The commit.                                                             *)

Pending(k) == \E m \in Mutations : pc[m] = "invalidating" /\ k \in due[m]

\* The cache when the row becomes r: each column of each page is as before, or its
\* key is to be invalidated, or it is excused.
LEMMA CommitCache ==
  ASSUME TypeOK, StaleNeedsCause,
         NEW r \in Row \cup {Absent, Gone}, NEW C \in SUBSET Columns, Commit(r, C),
         \A n \in Mutations : pc[n] = "invalidating" =>
           pc'[n] = "invalidating" /\ due'[n] = due[n],
         \A k \in Keys : \/ Pending(k)'
                         \/ \A c \in Shows(k) : c \in C \/ Value(r, c) = Value(row, c)
  PROVE  StaleNeedsCause'
<1> SUFFICES ASSUME NEW s \in Stores, NEW k \in Keys, cache'[s][k] # Nothing,
                    NEW c \in Stale(k, cache'[s][k].page, r), ~Pending(k)'
             PROVE  c \in cache'[s][k].excused
  BY DEF StaleNeedsCause, Commit, Pending
<1>1. cache[s][k] \in Entry \cup {Nothing} /\ cache'[s][k] = Excuse(cache[s][k], C, k, r)
  BY DEF Commit, TypeOK
<1>2. /\ cache[s][k] # Nothing /\ cache'[s][k].page = cache[s][k].page
      /\ cache'[s][k].excused
           = (cache[s][k].excused \cup C) \cap Stale(k, cache[s][k].page, r)
  BY <1>1, Excuses
<1>3. ~Pending(k)
  BY DEF Pending
<1>4. CASE c \in C
  BY <1>2, <1>4
<1>5. CASE c \notin C
  <2>1. Value(r, c) = Value(row, c) /\ c \in Shows(k)
    BY <1>5 DEF Stale
  <2>2. c \in Stale(k, cache[s][k].page, row)
    BY <1>2, <2>1 DEF Stale
  <2>3. c \in cache[s][k].excused
    BY <1>2, <1>3, <2>2 DEF StaleNeedsCause, Pending
  <2> QED
    BY <1>2, <2>3
<1> QED
  BY <1>4, <1>5

\* The types of what a commit writes.
LEMMA CommitType ==
  ASSUME TypeOK, NEW r \in Row \cup {Absent, Gone}, NEW C \in SUBSET Columns, Commit(r, C)
  PROVE  /\ row' = r /\ cache' \in [Stores -> [Keys -> Entry \cup {Nothing}]]
         /\ shown' = shown \cup Urls(r) /\ shown' \subseteq Files
<1>1. ASSUME NEW s \in Stores, NEW k \in Keys
      PROVE  Excuse(cache[s][k], C, k, r) \in Entry \cup {Nothing}
  <2>1. cache[s][k] \in Entry \cup {Nothing}
    BY DEF TypeOK
  <2> QED
    BY <2>1, Excuses
<1>2. cache' \in [Stores -> [Keys -> Entry \cup {Nothing}]]
  BY <1>1 DEF Commit
<1>3. Urls(r) \subseteq Files
  <2>1. CASE Listed(r)
    BY <2>1, Rows, Dooms
  <2>2. CASE ~Listed(r)
    BY <2>2 DEF Urls
  <2> QED
    BY <2>1, <2>2
<1> QED
  BY <1>2, <1>3 DEF Commit, TypeOK

\* The figures change, and their column is excused.
LEMMA FiguresStep ==
  ASSUME IInv, ChangeFigures
  PROVE  IInv'
<1> USE DEF IInv, FilesInv
<1> DEFINE r == [row EXCEPT !.figures = @ + 1]
<1>1. row \in Row /\ Listed(row)
  BY Rows DEF ChangeFigures, TypeOK
<1>2. /\ Commit(r, {"figures"}) /\ events' \in 0..MaxEvents
      /\ UNCHANGED <<files, pc, job, todo, due, vpc, visit, brought, dropped>>
  BY EventOK DEF ChangeFigures, mutations, visits
<1>3. /\ r \in Row /\ r.image = row.image /\ r.gallery = row.gallery
      /\ \A c \in Columns \ {"figures"} : r[c] = row[c]
  BY <1>1 DEF Row, Columns
<1> HIDE DEF r
<1>4. {"figures"} \in SUBSET Columns
  BY DEF Columns
<1>5. /\ row' = r /\ cache' \in [Stores -> [Keys -> Entry \cup {Nothing}]]
      /\ shown' = shown \cup Urls(r) /\ shown' \subseteq Files
  BY <1>2, <1>3, <1>4, CommitType
<1>6. Urls(r) = Urls(row) /\ Listed(r)
  BY <1>1, <1>3, Dooms, Rows
<1>7. TypeOK'
  BY <1>2, <1>3, <1>5 DEF TypeOK
<1>8. JobsOK' /\ ShownOK' /\ FilesOK'
  BY <1>1, <1>2, <1>3, <1>5, <1>6, Rows DEF JobsOK, ShownOK, FilesOK
<1>9. OwnedOK'
  BY <1>1, <1>2, <1>3, <1>5 DEF OwnedOK, Owned, Uploaded
<1>10. DanglingOK'
  BY <1>1, <1>2, <1>5, <1>6 DEF DanglingOK, Explained, Doomer
<1>11. GalleryLossNeedsWriter'
  BY <1>1, <1>2, <1>3, <1>5 DEF GalleryLossNeedsWriter
<1>12. StaleNeedsCause'
  <2>1. \A k \in Keys : \A c \in Shows(k) : c \in {"figures"} \/ Value(r, c) = Value(row, c)
    BY <1>1, <1>3, <1>6 DEF Value, Shows, Columns
  <2> QED
    BY <1>2, <1>3, <1>4, <2>1, CommitCache DEF CacheInv
<1>13. VisitsOK'
  BY <1>2 DEF CacheInv, VisitsOK
<1> QED
  BY <1>7, <1>8, <1>9, <1>10, <1>11, <1>12, <1>13 DEF CacheInv

\* What a request at work is, when it commits.
LEMMA Commits ==
  ASSUME IInv, NEW m \in Mutations, NEW r \in Row \cup {Absent, Gone},
         pc[m] = "saving", Becomes(m, r)
  PROVE  /\ job[m] \in Job /\ job[m] # NoJob /\ job[m].kind \in Kinds
         /\ job[m].read \in Row
         /\ row' = r /\ shown' = shown \cup Urls(r)
         /\ UNCHANGED <<files, todo, vpc, visit>>
         /\ job'[m] = IF job[m].kind = "gallery" THEN job[m] ELSE NoJob
         /\ pc'[m] = IF job[m].kind = "gallery" THEN "done" ELSE "invalidating"
         /\ due'[m] = Invalidated(job[m].kind)
         /\ \A n \in Mutations \ {m} : /\ job'[n] = job[n] /\ pc'[n] = pc[n]
                                       /\ due'[n] = due[n]
         /\ brought' = IF job[m].kind \in {"create", "update"}
                       THEN brought \cup Brought(job[m].payload, job[m].read) ELSE brought
         /\ dropped \subseteq dropped'
<1>1. job[m] \in Job /\ job[m] # NoJob /\ job[m].kind \in Kinds /\ job[m].read \in Row
  BY Jobs DEF IInv, FilesInv, JobsOK, Working
<1>2. Invalidated(job[m].kind) = {} <=> job[m].kind = "gallery"
  BY DEF Invalidated, Keys
<1> QED
  BY <1>1, <1>2 DEF Becomes, Commit, Move, visits, IInv, TypeOK

\* The types after a commit.
LEMMA BecomesType ==
  ASSUME IInv, NEW m \in Mutations, NEW r \in Row \cup {Absent, Gone},
         pc[m] = "saving", Becomes(m, r)
  PROVE  TypeOK'
<1> USE DEF IInv
<1>1. Unannounced(job[m].kind) \in SUBSET Columns
  BY DEF Unannounced, Columns
<1>2. /\ row' = r /\ cache' \in [Stores -> [Keys -> Entry \cup {Nothing}]]
      /\ shown' \subseteq Files
  BY <1>1, CommitType DEF Becomes
<1>3. job' \in [Mutations -> Job \cup {NoJob}]
  BY DEF Becomes, TypeOK
<1>4. Invalidated(job[m].kind) \in SUBSET Keys
  BY DEF Invalidated, Keys
<1>5. due' \in [Mutations -> SUBSET Keys]
  BY <1>4 DEF Becomes, TypeOK
<1>6. pc' \in [Mutations -> {"idle", "refused", "clearing", "uploading", "saving",
                             "invalidating", "done", "failed"}]
  BY DEF Becomes, Move, TypeOK
<1>7. brought' \subseteq Files
  <2>1. job[m].kind \in {"create", "update"} =>
          Brought(job[m].payload, job[m].read) \subseteq Files
    BY Commits, Jobs, Rows, Assigns
  <2> QED
    BY <2>1, Commits DEF TypeOK
<1>8. dropped' \subseteq Files
  BY Rows DEF Becomes, TypeOK
<1>9. UNCHANGED <<files, events, todo, vpc, visit>>
  BY DEF Becomes, visits
<1> QED
  BY <1>2, <1>3, <1>5, <1>6, <1>7, <1>8, <1>9 DEF TypeOK

\* The cache after a commit: an image is on the home page alone, and a gallery
\* upload is excused.
LEMMA BecomesCache ==
  ASSUME IInv, NEW m \in Mutations, NEW r \in Row \cup {Absent, Gone},
         pc[m] = "saving", Becomes(m, r),
         job[m].kind = "image" => Value(r, "category") = Value(row, "category"),
         job[m].kind = "gallery" =>
           \A c \in Columns \ {"gallery"} : Value(r, c) = Value(row, c)
  PROVE  CacheInv'
<1> USE DEF IInv
<1>1. VisitsOK'
  BY Commits DEF CacheInv, VisitsOK
<1>2. ASSUME NEW k \in Keys
      PROVE  \/ Pending(k)'
             \/ \A c \in Shows(k) : c \in Unannounced(job[m].kind) \/ Value(r, c) = Value(row, c)
  <2>1. CASE job[m].kind = "gallery"
    BY <2>1 DEF Unannounced, Shows, Columns
  <2>2. CASE k \in Invalidated(job[m].kind)
    <3>1. job[m].kind # "gallery"
      BY <2>2 DEF Invalidated
    <3> QED
      BY <2>2, <3>1, Commits DEF Pending
  <2>3. CASE job[m].kind = "image" /\ k # "home"
    BY <2>3 DEF Shows
  <2> QED
    BY <2>1, <2>2, <2>3 DEF Invalidated, Keys
<1>3. Unannounced(job[m].kind) \in SUBSET Columns
  BY DEF Unannounced, Columns
<1>4. StaleNeedsCause'
  <2>1. \A n \in Mutations : pc[n] = "invalidating" =>
          pc'[n] = "invalidating" /\ due'[n] = due[n]
    BY Commits
  <2>2. Commit(r, Unannounced(job[m].kind))
    BY DEF Becomes
  <2> QED
    BY <1>2, <1>3, <2>1, <2>2, CommitCache DEF CacheInv
<1> QED
  BY <1>1, <1>4 DEF CacheInv

\* What every commit keeps that leaves the product there.
LEMMA CommitKeeps ==
  ASSUME IInv, NEW m \in Mutations, NEW r \in Row, pc[m] = "saving", Becomes(m, r),
         Urls(r) \subseteq shown \cup {m}
  PROVE  /\ JobsOK' /\ ShownOK' /\ FilesOK'
         /\ \A s : Owned(s) => Owned(s)'
         /\ \A n \in Mutations : job'[n] # NoJob => job'[n] = job[n] /\ Owned(job[n].read)'
<1> USE DEF IInv, FilesInv
<1>1. row' = r /\ r # Absent
  BY Commits, Rows
<1>2. JobsOK'
  BY <1>1, Jobs, Commits DEF JobsOK, Working
<1>3. ShownOK'
  BY <1>1, Commits DEF ShownOK, Working
<1>4. FilesOK'
  BY Commits DEF FilesOK
<1>5. \A s : Owned(s) => Owned(s)'
  BY Commits, UploadedKept, OwnedKept
<1>6. \A n \in Mutations : job'[n] # NoJob => job'[n] = job[n]
  BY Commits
<1> QED
  BY <1>2, <1>3, <1>4, <1>5, <1>6 DEF OwnedOK

\* A new image: nobody has read it, and what it replaces is in no gallery, unless a
\* payload brought it there.
LEMMA SaveImage ==
  ASSUME IInv, NEW m \in Mutations, pc[m] = "saving", job[m].kind = "image",
         row \in Row, Becomes(m, Written(m))
  PROVE  FilesInv'
<1> USE DEF IInv, FilesInv
<1> DEFINE r == Written(m)
<1>1. r \in Row /\ r.image = m /\ r.gallery = row.gallery
  BY DEF Written, Row, Files
<1>2. /\ row' = r /\ UNCHANGED <<files, todo, brought>> /\ dropped \subseteq dropped'
      /\ job[m].read \in Row /\ job[m] # NoJob /\ job'[m] = NoJob /\ pc'[m] = "invalidating"
      /\ \A n \in Mutations \ {m} : job'[n] = job[n] /\ pc'[n] = pc[n]
  BY <1>1, Commits
<1>3. Urls(r) \subseteq shown \cup {m}
  BY <1>1, Dooms DEF ShownOK
<1>4. /\ JobsOK' /\ ShownOK' /\ FilesOK'
      /\ \A s : Owned(s) => Owned(s)'
      /\ \A n \in Mutations : job'[n] # NoJob => job'[n] = job[n] /\ Owned(job[n].read)'
  BY <1>1, <1>3, CommitKeeps
<1> HIDE DEF r
<1>5. OwnedOK'
  <2>1. Uploaded(m, "image")'
    BY <1>2 DEF Uploaded
  <2>2. Owned(row)'
    BY <1>1, <1>2, <1>4, <2>1 DEF OwnedOK, Owned
  <2> QED
    BY <1>4, <2>2 DEF OwnedOK
<1>6. DanglingOK'
  <2>1. ASSUME NEW f, Explained(f), Uploaded(f, "gallery") PROVE Explained(f)'
    <3>1. \A n \in Mutations \ {m} :
            job[n] # NoJob /\ f \in Doomed(job[n].kind, job[n].read) \ todo[n] => Doomer(f)'
      BY <1>2 DEF Doomer
    <3>2. f \in Doomed(job[m].kind, job[m].read) => f \in brought
      <4>1. Owned(job[m].read) /\ f \in Mutations /\ job[f].kind = "gallery"
        BY <1>2, <2>1 DEF OwnedOK, Uploaded
      <4>2. job[m].read.image = f => f \in brought
        BY <1>2, <4>1, Jobs DEF Owned, Uploaded
      <4> QED
        BY <1>2, <4>2, Dooms
    <3> QED
      BY <1>2, <2>1, <3>1, <3>2 DEF Explained, Doomer
  <2>2. \A f \in brought : Explained(f)'
    BY <1>2 DEF Explained
  <2>3. \A f \in row.gallery : Explained(f)'
    BY <2>1, <2>2, Rows, Dooms DEF DanglingOK, OwnedOK, Owned
  <2>4. Explained(m)'
    BY <1>2 DEF FilesOK, Explained
  <2>5. \A f \in Urls(r) : Explained(f)'
    BY <1>1, <2>3, <2>4, Dooms
  <2>6. ASSUME NEW n \in Mutations, job'[n].kind \in {"gallery", "update"},
               NEW f \in job'[n].read.gallery
        PROVE  Explained(f)'
    <3>1. job'[n] # NoJob /\ job'[n] = job[n]
      BY <1>4, <2>6, Jobs
    <3>2. job[n].read \in Row /\ Owned(job[n].read)
      BY <3>1, Jobs DEF OwnedOK, TypeOK
    <3>3. Explained(f)
      BY <2>6, <3>1, Rows DEF DanglingOK
    <3> QED
      BY <2>1, <2>2, <2>6, <3>1, <3>2, <3>3 DEF Owned
  <2> QED
    BY <1>2, <2>5, <2>6 DEF DanglingOK
<1>7. GalleryLossNeedsWriter'
  BY <1>1, <1>2, Rows, Jobs DEF GalleryLossNeedsWriter
<1> QED
  BY <1>4, <1>5, <1>6, <1>7

\* A new gallery: what was read, and the request's own image.
LEMMA SaveGallery ==
  ASSUME IInv, NEW m \in Mutations, pc[m] = "saving", job[m].kind = "gallery",
         row \in Row, Becomes(m, Written(m))
  PROVE  FilesInv'
<1> USE DEF IInv, FilesInv
<1> DEFINE r == Written(m)
<1>1. job[m] # NoJob /\ job[m].read \in Row /\ Owned(job[m].read)
  BY Jobs DEF JobsOK, Working, OwnedOK
<1>2. /\ r \in Row /\ r.image = row.image
      /\ r.gallery = job[m].read.gallery \cup {m}
  BY <1>1 DEF Written, Row, Files
<1>3. /\ row' = r /\ UNCHANGED <<files, todo, brought>> /\ dropped \subseteq dropped'
      /\ job'[m] = job[m] /\ pc'[m] = "done"
      /\ \A n \in Mutations : job'[n] = job[n]
      /\ \A n \in Mutations \ {m} : pc'[n] = pc[n]
  BY <1>2, Commits
<1>4. Urls(r) \subseteq shown \cup {m}
  BY <1>1, <1>2, Dooms DEF ShownOK
<1>5. /\ JobsOK' /\ ShownOK' /\ FilesOK'
      /\ \A s : Owned(s) => Owned(s)'
      /\ \A n \in Mutations : job'[n] # NoJob => job'[n] = job[n] /\ Owned(job[n].read)'
  BY <1>2, <1>4, CommitKeeps
<1> HIDE DEF r
<1>6. OwnedOK'
  <2>1. Uploaded(m, "gallery")'
    BY <1>3 DEF Uploaded
  <2>2. \A f : /\ Uploaded(f, "gallery") => Uploaded(f, "gallery")'
               /\ Uploaded(f, "image") => Uploaded(f, "image")'
    BY <1>3, UploadedKept
  <2>3. /\ \A f \in job[m].read.gallery \ brought : Uploaded(f, "gallery")'
        /\ row.image \in brought \/ Uploaded(row.image, "image")
    BY <1>1, <2>2 DEF OwnedOK, Owned
  <2>4. r.image \in brought \/ \A f : f = r.image => Uploaded(f, "image")'
    BY <1>2, <2>2, <2>3
  <2>5. Owned(row)'
    BY <1>2, <1>3, <2>1, <2>3, <2>4 DEF Owned
  <2> QED
    BY <1>5, <2>5 DEF OwnedOK
<1>7. DanglingOK'
  <2>1. m \in files /\ \A f : Explained(f)' <=> Explained(f)
    BY <1>3 DEF FilesOK, Explained, Doomer
  <2>2. \A f \in Urls(row) \cup job[m].read.gallery \cup {m} : Explained(f)
    BY <2>1, Rows DEF DanglingOK, Explained
  <2>3. Urls(r) \subseteq Urls(row) \cup job[m].read.gallery \cup {m}
    BY <1>2, Dooms
  <2> QED
    BY <1>2, <1>3, <2>1, <2>2, <2>3, Rows DEF DanglingOK
<1>8. GalleryLossNeedsWriter'
  <2> SUFFICES ASSUME NEW n \in Mutations, pc'[n] = "done", job'[n].kind = "gallery",
                      n \notin r.gallery
               PROVE  \E q \in Mutations \ {n} : /\ pc'[q] = "done" /\ job'[q].kind = "gallery"
                                                 /\ n \notin job'[q].read.gallery
    BY <1>3 DEF GalleryLossNeedsWriter
  <2>1. m # n /\ n \notin job[m].read.gallery
    BY <1>2
  <2> QED
    BY <1>3, <2>1
<1> QED
  BY <1>5, <1>6, <1>7, <1>8

\* A payload: what it did not bring was in the row, or in the gallery it had read.
LEMMA SavePayload ==
  ASSUME IInv, NEW m \in Mutations, pc[m] = "saving", NEW old \in Row,
         Becomes(m, Assigned(job[m].payload, job[m].read, old)),
         \/ job[m].kind = "update" /\ row = old
         \/ job[m].kind = "create" /\ row = Absent /\ old = Blank /\ job[m].read = Blank
  PROVE  FilesInv'
<1> USE DEF IInv, FilesInv
<1>1. /\ job[m] \in Job /\ job[m] # NoJob /\ job[m].read \in Row
      /\ job[m].payload \in Payloads /\ Owned(job[m].read)
  BY Jobs DEF JobsOK, Working, OwnedOK
<1>2. PICK p \in Payloads : p = job[m].payload
  BY <1>1
<1>3. PICK read \in Row : read = job[m].read
  BY <1>1
<1>4. PICK r \in Row : r = Assigned(p, read, old)
  BY Assigns
<1>5. PICK B \in SUBSET Files : B = Brought(p, read) /\ B \subseteq shown
  BY <1>1, <1>2, <1>3, Assigns DEF ShownOK
<1>6. /\ r.image \in {old.image, NoImage} \cup B
      /\ r.gallery = old.gallery \/ r.gallery \subseteq read.gallery \cup B
  BY <1>4, <1>5, Assigns
<1>7. Becomes(m, r)
  BY <1>2, <1>3, <1>4
<1>8. /\ row' = r /\ UNCHANGED <<files, todo>> /\ dropped \subseteq dropped'
      /\ brought' = brought \cup B
      /\ job'[m] = NoJob /\ pc'[m] = "invalidating"
      /\ \A n \in Mutations \ {m} : job'[n] = job[n] /\ pc'[n] = pc[n]
  BY <1>2, <1>3, <1>5, <1>7, Commits
<1>9. Urls(Blank) = {} /\ Blank.gallery = {}
  BY Rows, Dooms DEF Blank
<1>10. Urls(old) \subseteq shown /\ Urls(read) \subseteq shown
  BY <1>1, <1>3, <1>9 DEF ShownOK
<1>11. Urls(r) \subseteq Urls(old) \cup read.gallery \cup B
  BY <1>6, Dooms
<1>12. Urls(r) \subseteq shown \cup {m}
  BY <1>5, <1>10, <1>11, Dooms
<1>13. /\ JobsOK' /\ ShownOK' /\ FilesOK'
       /\ \A s : Owned(s) => Owned(s)'
       /\ \A n \in Mutations : job'[n] # NoJob => job'[n] = job[n] /\ Owned(job[n].read)'
  BY <1>7, <1>12, CommitKeeps
<1>14. OwnedOK'
  <2>1. \A f : /\ Uploaded(f, "gallery") => Uploaded(f, "gallery")'
               /\ Uploaded(f, "image") => Uploaded(f, "image")'
    BY <1>8, UploadedKept
  <2>2. Owned(old) /\ Owned(read)
    BY <1>1, <1>3, Rows DEF OwnedOK, Owned, Uploaded, Blank
  <2>3. \A f \in r.gallery \ brought' : Uploaded(f, "gallery")'
    BY <1>6, <1>8, <2>1, <2>2 DEF Owned
  <2>4. \A f : f = r.image => f \in brought' \/ Uploaded(f, "image")'
    BY <1>6, <1>8, <2>1, <2>2, Rows DEF Owned, Uploaded
  <2>5. Owned(row)'
    BY <1>8, <2>3, <2>4 DEF Owned
  <2> QED
    BY <1>13, <2>5 DEF OwnedOK
<1>15. DanglingOK'
  <2>1. \A f : Explained(f) => Explained(f)'
    <3>1. Doomed(job[m].kind, job[m].read) = {}
      BY DEF Doomed
    <3> QED
      BY <1>8, <3>1 DEF Explained, Doomer
  <2>2. \A f \in B : Explained(f)'
    BY <1>8 DEF Explained
  <2>3. CASE job[m].kind = "update"
    <3>1. \A f \in Urls(old) \cup read.gallery : Explained(f)
      BY <1>3, <2>3, Rows DEF DanglingOK
    <3>2. \A n \in Mutations : job'[n].kind \in {"gallery", "update"} =>
            \A f \in job'[n].read.gallery : Explained(f)
      BY <1>8, <2>3, Jobs, Rows DEF DanglingOK
    <3> QED
      BY <1>8, <1>11, <2>1, <2>2, <3>1, <3>2 DEF DanglingOK
  <2>4. CASE job[m].kind = "create"
    <3>1. Urls(r) \subseteq B
      BY <1>3, <1>9, <1>11, <2>4
    <3>2. \A n \in Mutations : job'[n].kind \notin {"gallery", "update"}
      BY <1>8, <2>4, Jobs DEF JobsOK
    <3> QED
      BY <1>8, <2>2, <3>1, <3>2 DEF DanglingOK
  <2> QED
    BY <2>3, <2>4
<1>16. GalleryLossNeedsWriter'
  <2>1. CASE job[m].kind = "update"
    <3>1. row.gallery \ r.gallery \subseteq dropped'
      BY <1>7, <2>1, Rows DEF Becomes
    <3> QED
      BY <1>8, <2>1, <3>1, Jobs, Rows DEF GalleryLossNeedsWriter
  <2>2. CASE job[m].kind = "create"
    <3>1. \A n \in Mutations : job'[n].kind # "gallery"
      BY <1>8, <2>2, Jobs DEF JobsOK
    <3> QED
      BY <3>1 DEF GalleryLossNeedsWriter
  <2> QED
    BY <2>1, <2>2
<1> QED
  BY <1>13, <1>14, <1>15, <1>16

\* The row is created, changed or deleted.
LEMMA SaveStep ==
  ASSUME IInv, NEW m \in Mutations, SaveRow(m) \/ DeleteRow(m)
  PROVE  IInv'
<1> USE DEF IInv
<1>1. /\ pc[m] = "saving" /\ job[m] \in Job /\ job[m] # NoJob /\ job[m].kind \in Kinds
      /\ job[m].read \in Row
      /\ job[m].kind \in {"create", "update"} => job[m].payload \in Payloads
  BY Jobs DEF SaveRow, DeleteRow, FilesInv, JobsOK, Working
<1>2. CASE DeleteRow(m)
  <2>1. Becomes(m, Gone) /\ job[m].kind = "delete"
    BY <1>2 DEF DeleteRow
  <2>2. TypeOK' /\ CacheInv'
    BY <1>1, <2>1, BecomesType, BecomesCache
  <2>3. /\ row' = Gone /\ UNCHANGED <<files, todo, brought>> /\ shown' = shown \cup Urls(Gone)
        /\ job'[m] = NoJob /\ pc'[m] = "invalidating"
        /\ \A n \in Mutations \ {m} : job'[n] = job[n] /\ pc'[n] = pc[n]
    BY <1>1, <2>1, Commits
  <2>4. Urls(Gone) = {} /\ ~Listed(Gone)
    BY DEF Urls, Listed
  <2>5. JobsOK' /\ FilesOK' /\ ShownOK'
    BY <2>3, <2>4, Rows, Jobs DEF FilesInv, JobsOK, FilesOK, ShownOK, Working
  <2>6. OwnedOK'
    <3>1. \A s : Owned(s) => Owned(s)'
      BY <1>1, <2>3, UploadedKept, OwnedKept
    <3> QED
      BY <2>3, <3>1, Rows DEF FilesInv, OwnedOK, Owned
  <2>7. DanglingOK' /\ GalleryLossNeedsWriter'
    BY <2>3, <2>4 DEF DanglingOK, GalleryLossNeedsWriter
  <2> QED
    BY <2>2, <2>5, <2>6, <2>7 DEF FilesInv
<1>3. CASE SaveRow(m) /\ job[m].kind = "create"
  <2> DEFINE r == Assigned(job[m].payload, job[m].read, Blank)
  <2>1. Becomes(m, r) /\ row = Absent
    BY <1>3 DEF SaveRow, Written
  <2>2. r \in Row
    BY <1>1, <1>3, Rows, Assigns
  <2>3. TypeOK' /\ CacheInv'
    BY <1>1, <1>3, <2>1, <2>2, BecomesType, BecomesCache
  <2>4. job[m].read = Blank
    BY <1>3 DEF FilesInv, JobsOK
  <2>5. FilesInv'
    BY <1>1, <1>3, <2>1, <2>4, Rows, SavePayload
  <2> QED
    BY <2>3, <2>5
<1>4. CASE SaveRow(m) /\ job[m].kind # "create"
  <2>1. Becomes(m, Written(m)) /\ row \in Row /\ job[m].kind \in {"image", "gallery", "update"}
    BY <1>1, <1>4, Rows DEF SaveRow, Kinds, TypeOK
  <2>2. /\ Written(m) \in Row
        /\ job[m].kind = "image" => Written(m)["category"] = row["category"]
        /\ job[m].kind = "gallery" =>
             \A c \in Columns \ {"gallery"} : Written(m)[c] = row[c]
        /\ job[m].kind = "update" => Written(m) = Assigned(job[m].payload, job[m].read, row)
    <3>1. CASE job[m].kind = "image"
      BY <2>1, <3>1 DEF Written, Row, Files
    <3>2. CASE job[m].kind = "gallery"
      <4>1. job[m].read.gallery \cup {m} \in SUBSET Files
        BY <1>1, Rows DEF Files
      <4> QED
        BY <2>1, <3>2, <4>1 DEF Written, Row, Columns
    <3>3. CASE job[m].kind = "update"
      BY <1>1, <2>1, <3>3, Assigns DEF Written
    <3> QED
      BY <2>1, <3>1, <3>2, <3>3
  <2>3. Listed(row) /\ Listed(Written(m))
    BY <2>1, <2>2, Rows
  <2>4. TypeOK' /\ CacheInv'
    BY <1>1, <2>1, <2>2, <2>3, BecomesType, BecomesCache DEF Value
  <2>5. FilesInv'
    BY <1>1, <2>1, <2>2, SaveImage, SaveGallery, SavePayload
  <2> QED
    BY <2>4, <2>5
<1> QED
  BY <1>2, <1>3, <1>4

-----------------------------------------------------------------------------
(* The cache.                                                              *)

\* What happens to the cache leaves the files alone.
LEMMA FilesKept ==
  ASSUME IInv, UNCHANGED <<row, files, job, todo, shown, brought, dropped>>,
         pc' = pc \/ \E m \in Mutations, to \in {"done", "failed"} :
                      pc[m] = "invalidating" /\ pc' = [pc EXCEPT ![m] = to]
  PROVE  FilesInv'
<1> USE DEF IInv, FilesInv
<1>1. CASE pc' = pc
  BY <1>1 DEF JobsOK, ShownOK, OwnedOK, Owned, Uploaded, FilesOK, DanglingOK, Explained,
     Doomer, GalleryLossNeedsWriter
<1>2. ASSUME NEW m \in Mutations, NEW to \in {"done", "failed"},
             pc[m] = "invalidating", pc' = [pc EXCEPT ![m] = to]
      PROVE  FilesInv'
  <2>1. /\ pc'[m] = to /\ job[m] = NoJob
        /\ \A n \in Mutations \ {m} : pc'[n] = pc[n]
    BY <1>2 DEF TypeOK, JobsOK
  <2>2. JobsOK' /\ ShownOK' /\ FilesOK' /\ DanglingOK'
    BY <1>2, <2>1 DEF JobsOK, ShownOK, Working, FilesOK, DanglingOK, Explained, Doomer
  <2>3. OwnedOK'
    <3>1. \A r : Owned(r) => Owned(r)'
      BY <1>2, <2>1, UploadedKept, OwnedKept
    <3> QED
      BY <3>1 DEF OwnedOK
  <2>4. GalleryLossNeedsWriter'
    BY <1>2, <2>1, Jobs DEF GalleryLossNeedsWriter
  <2> QED
    BY <2>2, <2>3, <2>4
<1> QED
  BY <1>1, <1>2

\* Entries that a step removes, leaves as they are, or excuses in every column, while
\* it ends no other invalidation.
LEMMA CacheChecked ==
  ASSUME TypeOK, StaleNeedsCause, row' = row, NEW D \in SUBSET Keys,
         \A s \in Stores, l \in Keys :
           \/ cache'[s][l] = Nothing
           \/ cache'[s][l] = Excuse(cache[s][l], Columns, l, row)
           \/ l \notin D /\ cache'[s][l] = cache[s][l],
         \A n \in Mutations, l \in Keys \ D :
           pc[n] = "invalidating" /\ l \in due[n] => pc'[n] = "invalidating" /\ l \in due'[n]
  PROVE  StaleNeedsCause'
<1> SUFFICES ASSUME NEW s \in Stores, NEW l \in Keys, cache'[s][l] # Nothing,
                    NEW c \in Stale(l, cache'[s][l].page, row), ~Pending(l)'
             PROVE  c \in cache'[s][l].excused
  BY DEF StaleNeedsCause, Pending
<1>1. c \in Columns
  BY DEF Stale, Shows, Columns
<1>2. cache[s][l] \in Entry \cup {Nothing} /\ Columns \in SUBSET Columns
  BY DEF TypeOK
<1>3. CASE cache'[s][l] = Excuse(cache[s][l], Columns, l, row)
  BY <1>1, <1>2, <1>3, Excuses
<1>4. CASE l \notin D /\ cache'[s][l] = cache[s][l]
  BY <1>4 DEF StaleNeedsCause, Pending
<1> QED
  BY <1>3, <1>4

\* Keys are invalidated one by one; what is not reached is excused.
LEMMA InvalidateStep ==
  ASSUME IInv, NEW m \in Mutations, NEW redisFails \in BOOLEAN,
         Invalidate(m, redisFails)
  PROVE  IInv'
<1> USE DEF IInv
<1> DEFINE k == NextKey(m)
           hit(s) == s = At[m] \/ (s = Redis /\ ~redisFails)
<1>1. /\ pc[m] = "invalidating" /\ k \in Keys
      /\ pc' = IF due[m] = {k} THEN [pc EXCEPT ![m] = "done"] ELSE pc
      /\ due' = [due EXCEPT ![m] = due[m] \ {k}]
      /\ cache' = [s \in Stores |-> [cache[s] EXCEPT ![k] =
           IF hit(s) THEN Nothing ELSE Excuse(@, Columns, k, row)]]
      /\ UNCHANGED <<row, files, job, todo, vpc, visit, shown, brought, dropped>>
      /\ events' \in 0..MaxEvents
  BY EventOK DEF Invalidate, Move, visits, urls, NextKey, Keys
<1> HIDE DEF k, hit
<1>2. ASSUME NEW s \in Stores, NEW l \in Keys
      PROVE  /\ l # k => cache'[s][l] = cache[s][l]
             /\ l = k => \/ cache'[s][l] = Nothing
                         \/ cache'[s][l] = Excuse(cache[s][l], Columns, l, row)
             /\ cache'[s][l] \in Entry \cup {Nothing}
  <2>1. cache[s][l] \in Entry \cup {Nothing} /\ Columns \in SUBSET Columns
    BY DEF TypeOK
  <2>2. cache'[s][l] = IF l = k THEN IF hit(s) THEN Nothing
                                     ELSE Excuse(cache[s][l], Columns, l, row)
                       ELSE cache[s][l]
    BY <1>1 DEF TypeOK
  <2> QED
    BY <2>1, <2>2, Excuses
<1>3. TypeOK'
  <2>1. cache' \in [Stores -> [Keys -> Entry \cup {Nothing}]]
    <3>1. \A s \in Stores : cache'[s] = [l \in Keys |-> cache'[s][l]]
      BY <1>1 DEF TypeOK
    <3>2. \A s \in Stores : cache'[s] \in [Keys -> Entry \cup {Nothing}]
      BY <1>2, <3>1
    <3> QED
      BY <1>1, <3>2
  <2> QED
    BY <1>1, <2>1 DEF TypeOK
<1>4. FilesInv'
  <2>1. pc' = pc \/ pc' = [pc EXCEPT ![m] = "done"]
    BY <1>1
  <2> QED
    BY <1>1, <2>1, FilesKept
<1>5. StaleNeedsCause'
  <2>1. PICK D \in SUBSET Keys : D = {k}
    BY <1>1
  <2>2. \A n \in Mutations, l \in Keys \ D :
          pc[n] = "invalidating" /\ l \in due[n] => pc'[n] = "invalidating" /\ l \in due'[n]
    BY <1>1, <2>1 DEF TypeOK
  <2>3. \A s \in Stores, l \in Keys :
          \/ cache'[s][l] = Nothing
          \/ cache'[s][l] = Excuse(cache[s][l], Columns, l, row)
          \/ l \notin D /\ cache'[s][l] = cache[s][l]
    BY <1>2, <2>1
  <2> QED
    BY <1>1, <2>2, <2>3, CacheChecked DEF CacheInv
<1>6. VisitsOK'
  BY <1>1 DEF CacheInv, VisitsOK
<1> QED
  BY <1>3, <1>4, <1>5, <1>6 DEF CacheInv

\* The process dies: what it had to invalidate is excused.
LEMMA DieStep ==
  ASSUME IInv, NEW m \in Mutations, DieBeforeInvalidating(m)
  PROVE  IInv'
<1> USE DEF IInv
<1>1. /\ pc[m] = "invalidating" /\ pc' = [pc EXCEPT ![m] = "failed"]
      /\ due' = [due EXCEPT ![m] = {}]
      /\ cache' = [s \in Stores |-> [l \in Keys |->
           IF l \in due[m] THEN Excuse(cache[s][l], Columns, l, row) ELSE cache[s][l]]]
      /\ UNCHANGED <<row, files, events, job, todo, vpc, visit, shown, brought, dropped>>
  BY DEF DieBeforeInvalidating, Move, visits, urls
<1>2. PICK D \in SUBSET Keys : D = due[m]
  BY DEF TypeOK
<1>3. \A s \in Stores, l \in Keys :
        cache'[s][l] = IF l \in D THEN Excuse(cache[s][l], Columns, l, row) ELSE cache[s][l]
  BY <1>1, <1>2
<1>4. TypeOK'
  <2>1. ASSUME NEW s \in Stores, NEW l \in Keys PROVE cache'[s][l] \in Entry \cup {Nothing}
    <3>1. cache[s][l] \in Entry \cup {Nothing} /\ Columns \in SUBSET Columns
      BY DEF TypeOK
    <3> QED
      BY <1>3, <3>1, Excuses
  <2>2. cache' \in [Stores -> [Keys -> Entry \cup {Nothing}]]
    BY <1>1, <2>1
  <2> QED
    BY <1>1, <2>2 DEF TypeOK
<1>5. FilesInv'
  BY <1>1, FilesKept
<1>6. StaleNeedsCause'
  <2>1. \A n \in Mutations, l \in Keys \ D :
          pc[n] = "invalidating" /\ l \in due[n] => pc'[n] = "invalidating" /\ l \in due'[n]
    BY <1>1, <1>2 DEF TypeOK
  <2>2. \A s \in Stores, l \in Keys :
          \/ cache'[s][l] = Nothing
          \/ cache'[s][l] = Excuse(cache[s][l], Columns, l, row)
          \/ l \notin D /\ cache'[s][l] = cache[s][l]
    BY <1>3
  <2> QED
    BY <1>1, <2>1, <2>2, CacheChecked DEF CacheInv
<1>7. VisitsOK'
  BY <1>1 DEF CacheInv, VisitsOK
<1> QED
  BY <1>4, <1>5, <1>6, <1>7 DEF CacheInv

\* An entry expires.
LEMMA ExpireStep ==
  ASSUME IInv, NEW s \in Stores, NEW k \in Keys, Expire(s, k)
  PROVE  IInv'
<1> USE DEF IInv
<1>1. /\ cache' = [cache EXCEPT ![s][k] = Nothing]
      /\ UNCHANGED <<row, files, events, pc, job, todo, due, vpc, visit>>
      /\ UNCHANGED <<shown, brought, dropped>>
  BY DEF Expire, mutations, visits, urls
<1>2. \A t \in Stores, l \in Keys : cache'[t][l] # Nothing => cache'[t][l] = cache[t][l]
  BY <1>1 DEF TypeOK
<1>3. TypeOK'
  BY <1>1 DEF TypeOK
<1>4. FilesInv'
  BY <1>1, FilesKept
<1>5. CacheInv'
  BY <1>1, <1>2 DEF CacheInv, VisitsOK, StaleNeedsCause
<1> QED
  BY <1>3, <1>4, <1>5

\* A page is missed, queried and stored.
LEMMA VisitStep ==
  ASSUME IInv, NEW v \in Visitors,
         \/ \E k \in Keys, redisFails \in BOOLEAN : Get(v, k, redisFails)
         \/ Query(v)
         \/ \E stores \in Landings(At[v]) : Set(v, stores)
  PROVE  IInv'
<1> USE DEF IInv
<1>1. UNCHANGED <<row, files, pc, job, todo, due, shown, brought, dropped>>
  BY DEF Get, Query, Set, mutations, urls
<1>2. FilesInv'
  BY <1>1, FilesKept
<1>3. ASSUME NEW k \in Keys, NEW redisFails \in BOOLEAN, Get(v, k, redisFails)
      PROVE  IInv'
  <2> DEFINE new == [key |-> k, page |-> Gone]
  <2>1. /\ vpc' = [vpc EXCEPT ![v] = "missed"]
        /\ visit' = [visit EXCEPT ![v] = new]
        /\ events' \in 0..MaxEvents /\ cache' = cache
    BY <1>3, EventOK DEF Get
  <2>2. new \in Visit
    BY DEF Visit
  <2> HIDE DEF new
  <2>3. TypeOK'
    BY <1>1, <2>1, <2>2 DEF TypeOK
  <2>4. CacheInv'
    BY <1>1, <2>1, <2>2 DEF CacheInv, VisitsOK, StaleNeedsCause, TypeOK
  <2> QED
    BY <1>2, <2>3, <2>4
<1>4. CASE Query(v)
  <2> DEFINE new == [visit[v] EXCEPT !.page = Shown(visit[v].key, row)]
  <2>1. /\ vpc[v] = "missed" /\ visit[v] \in Visit
        /\ vpc' = [vpc EXCEPT ![v] = "queried"]
        /\ visit' = [visit EXCEPT ![v] = new]
        /\ UNCHANGED <<events, cache>>
    BY <1>4 DEF Query, CacheInv, VisitsOK, TypeOK
  <2>2. new \in Visit
    <3>1. visit[v].key \in Keys
      BY <2>1 DEF Visit
    <3>2. Shown(visit[v].key, row) \in Row \cup {Gone}
      BY <3>1, PageOf DEF TypeOK
    <3> QED
      BY <2>1, <3>2 DEF Visit
  <2> HIDE DEF new
  <2>3. TypeOK'
    BY <1>1, <2>1, <2>2 DEF TypeOK
  <2>4. CacheInv'
    BY <1>1, <2>1, <2>2 DEF CacheInv, VisitsOK, StaleNeedsCause, TypeOK
  <2> QED
    BY <1>2, <2>3, <2>4
<1>5. ASSUME NEW stores \in Landings(At[v]), Set(v, stores)
      PROVE  IInv'
  <2> DEFINE l == visit[v].key
             new == [page |-> visit[v].page, excused |-> Stale(l, visit[v].page, row)]
  <2>1. vpc[v] = "queried" /\ visit[v] \in Visit /\ l \in Keys /\ visit[v].page \in Row \cup {Gone}
    <3>1. vpc[v] = "queried" /\ visit[v] \in Visit
      BY <1>5 DEF Set, CacheInv, VisitsOK
    <3> QED
      BY <3>1 DEF Visit
  <2>2. Stale(l, visit[v].page, row) \in SUBSET Columns
    BY <2>1, PageOf DEF TypeOK
  <2>3. /\ new \in Entry /\ new.page = visit[v].page
        /\ new.excused = Stale(l, new.page, row)
    BY <2>1, <2>2 DEF Entry
  <2>4. /\ vpc' = [vpc EXCEPT ![v] = "idle"]
        /\ visit' = [visit EXCEPT ![v] = NoVisit]
        /\ cache' = [s \in Stores |->
             IF s \in stores THEN [cache[s] EXCEPT ![l] = new] ELSE cache[s]]
        /\ events' \in 0..MaxEvents
    BY <1>5, EventOK DEF Set
  <2> HIDE DEF new, l
  <2>5. TypeOK'
    <3>1. cache' \in [Stores -> [Keys -> Entry \cup {Nothing}]]
      BY <2>3, <2>4 DEF TypeOK
    <3> QED
      BY <1>1, <2>4, <3>1 DEF TypeOK
  <2>6. \A s \in Stores, q \in Keys :
          (cache'[s][q] = new /\ q = l) \/ cache'[s][q] = cache[s][q]
    BY <2>4 DEF TypeOK
  <2>7. StaleNeedsCause'
    BY <1>1, <2>3, <2>6 DEF CacheInv, StaleNeedsCause
  <2>8. VisitsOK'
    BY <1>1, <2>4 DEF CacheInv, VisitsOK, TypeOK
  <2> QED
    BY <1>2, <2>5, <2>7, <2>8 DEF CacheInv
<1> QED
  BY <1>3, <1>4, <1>5

\* Every step preserves the inductive invariant.
LEMMA Step == IInv /\ [Next]_vars => IInv'
<1> SUFFICES ASSUME IInv, [Next]_vars PROVE IInv'
  OBVIOUS
<1>1. CASE UNCHANGED vars
  <2>1. /\ UNCHANGED <<row, files, cache, events, pc, job, todo, due, vpc, visit>>
        /\ UNCHANGED <<shown, brought, dropped>>
    BY <1>1 DEF vars, mutations, visits, urls
  <2>2. TypeOK'
    BY <2>1 DEF IInv, TypeOK
  <2>3. FilesInv'
    BY <2>1, FilesKept
  <2>4. CacheInv'
    BY <2>1, CacheKept DEF IInv
  <2> QED
    BY <2>2, <2>3, <2>4 DEF IInv
<1>2. ASSUME NEW m \in Mutations, Mutate(m) PROVE IInv'
  BY <1>2, StartStep, FailStep, DieStep DEF Mutate
<1>3. ASSUME NEW m \in Mutations, Proceed(m) PROVE IInv'
  BY <1>3, DeleteFileStep, UploadStep, SaveStep, InvalidateStep DEF Proceed
<1>4. CASE ChangeFigures
  BY <1>4, FiguresStep
<1>5. ASSUME NEW f \in Shared, DeletedElsewhere(f) PROVE IInv'
  BY <1>5, SharedAssumption, ElsewhereStep
<1>6. ASSUME NEW s \in Stores, NEW k \in Keys, Expire(s, k) PROVE IInv'
  BY <1>6, ExpireStep
<1>7. ASSUME NEW v \in Visitors,
             \/ \E k \in Keys, redisFails \in BOOLEAN : Get(v, k, redisFails)
             \/ Fill(v)
      PROVE  IInv'
  BY <1>7, VisitStep DEF Fill
<1> QED
  BY <1>1, <1>2, <1>3, <1>4, <1>5, <1>6, <1>7 DEF Next

\* The strengthened invariant holds throughout.
THEOREM Inductive == Spec => []IInv
<1> QED
  BY InitOK, Step, PTL DEF Spec

-----------------------------------------------------------------------------
(* What follows.                                                           *)

\* The variables keep their types, with the events up to their bound.
THEOREM TypeCorrect == Spec => []TypeOK
<1>1. IInv => TypeOK
  BY DEF IInv
<1> QED
  BY <1>1, Inductive, PTL

\* The product points to a file that is not there only if a request that had read
\* it, to replace it or to delete the product, is at work or has failed, or a payload
\* brought its URL into a product or a column that did not have it.
THEOREM Dangling == Spec => []DanglingNeedsCause
<1>1. IInv => DanglingNeedsCause
  <2>1. ~Listed(row) => Urls(row) = {}
    BY DEF Urls
  <2> QED
    BY <2>1 DEF IInv, FilesInv, DanglingOK, Explained, Doomer, DanglingNeedsCause
<1> QED
  BY <1>1, Inductive, PTL

\* A gallery image is lost only to another gallery upload that had read the list
\* without it, or to a PATCH with a list without it.
THEOREM GalleryLost == Spec => []GalleryLossNeedsWriter
<1>1. IInv => GalleryLossNeedsWriter
  BY DEF IInv, FilesInv
<1> QED
  BY <1>1, Inductive, PTL

\* A column of an entry of any store is out of date only for one of the causes that
\* StaleNeedsCause names.
THEOREM StalePages == Spec => []StaleNeedsCause
<1>1. IInv => StaleNeedsCause
  BY DEF IInv, CacheInv
<1> QED
  BY <1>1, Inductive, PTL
=============================================================================
