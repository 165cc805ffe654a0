------------------------- MODULE PasswordResetProofs -------------------------
(***************************************************************************)
(* Theorems about PasswordReset, for any requests, processes and accounts, *)
(* any keys that are prefixes or patterns of others, and any number of     *)
(* faults.                                                                 *)
(***************************************************************************)
EXTENDS PasswordReset, TLAPS

Started == {"drawn", "matched", "evicted", "done"}

\* What a request is about is known while it runs, and stays.
JobsOK ==
  \A r \in Requests :
    /\ pc[r] \in Started => job[r] \in Job
    /\ job[r] # NoJob => pc[r] # "idle"
    /\ pc[r] = "drawn" => Kind[r] = "forgot"
    /\ pc[r] \in {"matched", "evicted"} => Kind[r] \in {"verify", "reset"}
    /\ pc[r] # "idle" /\ Kind[r] = "forgot" => job[r] \in Job /\ job[r].code = r

\* A code was drawn for the account it is stored for and submitted for, and had
\* been sent when it was submitted.
CodesOwned ==
  /\ \A s \in Stores, u \in Users : cache[s][u] # Nothing =>
       pc[cache[s][u].code] # "idle" /\ job[cache[s][u].code].user = u
  /\ \A r \in Requests : job[r] # NoJob /\ Kind[r] # "forgot" =>
       pc[job[r].code] = "done" /\ job[job[r].code].user = job[r].user

\* A password was set by a reset that is done.
PasswordsOK ==
  \A u \in Users : password[u] # Original =>
    LET r == password[u]
    IN r \in Requests /\ Kind[r] = "reset" /\ pc[r] = "done" /\ job[r].user = u

\* Whoever is about to use a code or to store it again is excused, or the code
\* is in force.
ReadersOK ==
  \A r \in Requests :
    pc[r] = "matched" \/ (pc[r] = "evicted" /\ Kind[r] = "verify") =>
      job[r].excused \/ job[r].code = inForce[job[r].user]

\* A code that was used is not in force, and never will be.
UsedOK ==
  \A r \in Requests :
    Kind[r] = "reset" /\ pc[r] \in {"evicted", "done"} =>
      job[r].excused \/ job[r].code # inForce[job[r].user]

IInv ==
  /\ TypeOK
  /\ JobsOK
  /\ CodesOwned
  /\ PasswordsOK
  /\ ReadersOK
  /\ UsedOK
  /\ CodeUsedOnce
  /\ LatestCodeOnly

-----------------------------------------------------------------------------
(* Facts about data.                                                       *)

\* A job is not NoJob, and a code is a request.
LEMMA Jobs ==
  /\ \A j \in Job : /\ j # NoJob
                    /\ j.user \in Users /\ j.code \in Codes /\ j.excused \in BOOLEAN
  /\ Codes \subseteq Requests /\ Nothing \notin Requests /\ Original \notin Requests
  /\ \A e \in Entry : e.code \in Codes /\ e.excused \in BOOLEAN
<1>1. Codes \subseteq Requests /\ Nothing \notin Requests /\ Original \notin Requests
  BY NullAssumption DEF Codes
<1>2. \A j \in Job : j # NoJob
  <2> SUFFICES ASSUME NEW j \in Job, j = NoJob PROVE FALSE
    OBVIOUS
  <2>1. j.code \in Codes /\ j.code = Nothing
    BY DEF Job, NoJob
  <2> QED
    BY <1>1, <2>1
<1> QED
  BY <1>1, <1>2 DEF Job, Entry

\* An entry that is out of date keeps its code and is excused.
LEMMA OutOfDates ==
  ASSUME NEW e \in Entry \cup {Nothing}, NEW c
  PROVE  LET f == OutOfDate(e, c)
         IN /\ f \in Entry \cup {Nothing}
            /\ f = Nothing <=> e = Nothing
            /\ f # Nothing => /\ f.code = e.code
                              /\ f.excused \/ f.code = c
                              /\ e.excused => f.excused
<1>1. ASSUME e \in Entry, e.code # c
      PROVE  [e EXCEPT !.excused = TRUE] \in Entry
  BY <1>1 DEF Entry
<1> QED
  BY <1>1, Jobs, NothingAssumption DEF OutOfDate, Entry

\* A request that is overtaken keeps what it is about and is excused.
LEMMA Overtakes ==
  ASSUME IInv, NEW u \in Users, NEW c
  PROVE  /\ Overtaken(u, c) \in [Requests -> Job \cup {NoJob}]
         /\ \A r \in Requests :
              LET j == Overtaken(u, c)[r]
              IN /\ j = NoJob <=> job[r] = NoJob
                 /\ j \in Job <=> job[r] \in Job
                 /\ job[r] \in Job =>
                      /\ j.user = job[r].user
                      /\ j.code = job[r].code
                      /\ job[r].excused => j.excused
                      /\ pc[r] \in {"matched", "evicted"} /\ j.user = u =>
                           j.excused \/ j.code = c
                      /\ ~(pc[r] \in {"matched", "evicted"} /\ j.user = u) =>
                           j = job[r]
<1> USE DEF IInv
<1>1. \A r \in Requests : job[r] \in Job =>
        LET j == [job[r] EXCEPT !.excused = TRUE]
        IN j \in Job /\ j.user = job[r].user /\ j.code = job[r].code /\ j.excused
  BY DEF Job
<1>2. \A r \in Requests : pc[r] \in {"matched", "evicted"} => job[r] \in Job
  BY DEF JobsOK, Started
<1>3. \A r \in Requests : job[r] \in Job \cup {NoJob} /\ (job[r] \in Job => job[r] # NoJob)
  BY Jobs DEF TypeOK
<1> QED
  BY <1>1, <1>2, <1>3, Jobs DEF Overtaken

\* A value is stored somewhere, in the stores that the process uses.
LEMMA Lands ==
  ASSUME NEW r \in Requests, NEW stores \in Landings(At[r])
  PROVE  stores \subseteq Stores /\ stores # {}
BY ProcessAssumption DEF Landings, Stores

-----------------------------------------------------------------------------
(* Steps.                                                                  *)

\* Before the first request no code exists.
LEMMA InitOK == Init => IInv
<1> SUFFICES ASSUME Init PROVE IInv
  OBVIOUS
<1>1. TypeOK
  BY FaultsAssumption DEF Init, TypeOK
<1>2. JobsOK /\ CodesOwned /\ PasswordsOK /\ ReadersOK /\ UsedOK /\ CodeUsedOnce
      /\ LatestCodeOnly
  BY DEF Init, JobsOK, Started, CodesOwned, PasswordsOK, ReadersOK, UsedOK,
     CodeUsedOnce, LatestCodeOnly
<1> QED
  BY <1>1, <1>2 DEF IInv

\* A code is drawn: nobody knows it yet.
LEMMA ForgotStep ==
  ASSUME IInv, NEW r \in Requests, NEW u \in Users, Forgot(r, u)
  PROVE  IInv'
<1> USE DEF IInv
<1> DEFINE new == [user |-> u, code |-> r, excused |-> FALSE]
<1>1. /\ pc[r] = "idle" /\ Kind[r] = "forgot"
      /\ pc' = [pc EXCEPT ![r] = "drawn"]
      /\ job' = [job EXCEPT ![r] = new]
      /\ UNCHANGED <<password, cache, inForce, faults>>
  BY DEF Forgot, Move
<1>2. new \in Job /\ new.code = r /\ new # NoJob /\ r \in Codes
  BY <1>1, Jobs DEF Job, Codes
<1>3. /\ pc'[r] = "drawn" /\ job'[r] = new
      /\ \A q \in Requests \ {r} : pc'[q] = pc[q] /\ job'[q] = job[q]
  BY <1>1 DEF TypeOK
<1>4. TypeOK'
  BY <1>1, <1>2 DEF TypeOK
<1>5. JobsOK'
  BY <1>1, <1>2, <1>3 DEF JobsOK, Started
<1>6. CodesOwned'
  <2>1. \A s \in Stores, v \in Users : cache[s][v] # Nothing =>
          cache[s][v].code \in Requests \ {r}
    BY <1>1, Jobs DEF CodesOwned, TypeOK
  <2>2. \A q \in Requests : job[q] # NoJob /\ Kind[q] # "forgot" =>
          q # r /\ job[q].code \in Requests \ {r}
    BY <1>1, Jobs DEF CodesOwned, TypeOK
  <2> QED
    BY <1>1, <1>3, <2>1, <2>2 DEF CodesOwned
<1>7. PasswordsOK'
  BY <1>1, <1>3 DEF PasswordsOK
<1>8. ReadersOK' /\ UsedOK' /\ CodeUsedOnce' /\ LatestCodeOnly'
  BY <1>1, <1>3 DEF ReadersOK, UsedOK, CodeUsedOnce, LatestCodeOnly
<1> QED
  BY <1>4, <1>5, <1>6, <1>7, <1>8

\* A code is submitted: what the store holds decides.
LEMMA SubmitStep ==
  ASSUME IInv, NEW r \in Requests, NEW u \in Users, NEW c \in Mailed,
         NEW fails \in BOOLEAN, Submit(r, u, c, fails)
  PROVE  IInv'
<1> USE DEF IInv
<1> DEFINE s == Reached(r, fails)
           e == cache[s][u]
           new == [user |-> u, code |-> c, excused |-> e.excused]
<1>1. /\ pc[r] = "idle" /\ Kind[r] \in {"verify", "reset"}
      /\ faults' \in 0..MaxFaults
      /\ UNCHANGED <<password, cache, inForce>>
  BY FaultsAssumption DEF Submit, Fault, TypeOK
<1>2. c \in Codes /\ c \in Requests /\ pc[c] = "done" /\ c # r /\ s \in Stores
  BY <1>1, ProcessAssumption, Jobs DEF Mailed, Reached, Stores
<1>3. CASE Matches(e, c)
  <2>1. /\ pc' = [pc EXCEPT ![r] = "matched"]
        /\ job' = [job EXCEPT ![r] = new]
    BY <1>3 DEF Submit, Move
  <2>2. e \in Entry /\ e # Nothing /\ e.code = c
    BY <1>2, <1>3 DEF Matches, TypeOK
  <2> HIDE DEF e, s
  <2>3. new \in Job /\ new.code = c /\ new.user = u /\ new.excused = e.excused
        /\ new # NoJob
    BY <1>2, <2>2, Jobs DEF Job
  <2> HIDE DEF new
  <2>4. /\ pc'[r] = "matched" /\ job'[r] = new
        /\ \A q \in Requests \ {r} : pc'[q] = pc[q] /\ job'[q] = job[q]
    BY <2>1 DEF TypeOK
  <2>5. TypeOK'
    BY <1>1, <2>1, <2>3 DEF TypeOK
  <2>6. JobsOK'
    BY <1>1, <2>3, <2>4 DEF JobsOK, Started
  <2>7. CodesOwned'
    <3>1. \A t \in Stores, v \in Users : cache[t][v] # Nothing =>
            cache[t][v].code \in Requests \ {r}
      BY <1>1, Jobs DEF CodesOwned, TypeOK
    <3>2. \A q \in Requests : job[q] # NoJob /\ Kind[q] # "forgot" =>
            q # r /\ job[q].code \in Requests \ {r}
      BY <1>1, Jobs DEF CodesOwned, JobsOK, TypeOK
    <3>3. job[c].user = u
      BY <1>2, <2>2 DEF CodesOwned, e
    <3> QED
      BY <1>1, <1>2, <2>3, <2>4, <3>1, <3>2, <3>3 DEF CodesOwned
  <2>8. PasswordsOK'
    BY <1>1, <2>4 DEF PasswordsOK
  <2>9. new.excused \/ new.code = inForce[u]
    BY <1>2, <2>2, <2>3 DEF LatestCodeOnly, e
  <2>10. ReadersOK' /\ UsedOK' /\ CodeUsedOnce' /\ LatestCodeOnly'
    BY <1>1, <2>3, <2>4, <2>9 DEF ReadersOK, UsedOK, CodeUsedOnce, LatestCodeOnly
  <2> QED
    BY <2>5, <2>6, <2>7, <2>8, <2>10
<1>4. CASE ~Matches(e, c)
  <2>1. pc' = [pc EXCEPT ![r] = "failed"] /\ job' = job
    BY <1>4 DEF Submit, Move
  <2> HIDE DEF e, s
  <2>2. TypeOK' /\ JobsOK'
    BY <1>1, <2>1 DEF TypeOK, JobsOK, Started
  <2>3. CodesOwned'
    BY <1>1, <2>1 DEF CodesOwned, TypeOK
  <2>4. PasswordsOK' /\ ReadersOK' /\ UsedOK' /\ CodeUsedOnce' /\ LatestCodeOnly'
    BY <1>1, <2>1 DEF PasswordsOK, ReadersOK, UsedOK, CodeUsedOnce, LatestCodeOnly,
       TypeOK
  <2> QED
    BY <2>2, <2>3, <2>4
<1> QED
  BY <1>3, <1>4

\* A request saves the password or dies: it had its turn.
LEMMA LeaveStep ==
  ASSUME IInv, NEW r \in Requests, SaveReset(r) \/ Crash(r)
  PROVE  IInv'
<1> USE DEF IInv
<1>1. /\ UNCHANGED <<cache, inForce, faults, job>>
      /\ pc[r] \in {"drawn", "matched", "evicted"}
  BY DEF SaveReset, Crash
<1>2. PICK to \in {"done", "failed"} : pc' = [pc EXCEPT ![r] = to]
  BY DEF SaveReset, Crash, Move
<1>3. /\ pc'[r] = to
      /\ \A q \in Requests \ {r} : pc'[q] = pc[q]
  BY <1>2 DEF TypeOK
<1>4. CASE SaveReset(r)
  <2>1. /\ password' = [password EXCEPT ![job[r].user] = r]
        /\ pc[r] = "evicted" /\ Kind[r] = "reset" /\ pc'[r] = "done"
    BY <1>4 DEF SaveReset, Move, TypeOK
  <2>2. job[r].user \in Users
    BY <2>1, Jobs DEF JobsOK, Started
  <2>3. TypeOK'
    BY <1>1, <1>2, <2>1, <2>2 DEF TypeOK
  <2>4. PasswordsOK'
    BY <1>1, <1>3, <2>1, <2>2 DEF PasswordsOK, TypeOK
  <2>5. JobsOK'
    BY <1>1, <1>3, <2>1 DEF JobsOK, Started
  <2>6. CodesOwned'
    BY <1>1, <1>3, <2>1, Jobs DEF CodesOwned, TypeOK
  <2>7. ReadersOK' /\ UsedOK' /\ CodeUsedOnce' /\ LatestCodeOnly'
    BY <1>1, <1>3, <2>1 DEF ReadersOK, UsedOK, CodeUsedOnce, LatestCodeOnly
  <2> QED
    BY <2>3, <2>4, <2>5, <2>6, <2>7
<1>5. CASE Crash(r)
  <2>1. password' = password /\ pc'[r] = "failed"
    BY <1>5 DEF Crash, Move, TypeOK
  <2>2. TypeOK'
    BY <1>1, <1>2, <2>1 DEF TypeOK
  <2>3. PasswordsOK'
    BY <1>1, <1>3, <2>1 DEF PasswordsOK
  <2>4. JobsOK'
    BY <1>1, <1>3, <2>1 DEF JobsOK, Started
  <2>5. CodesOwned'
    BY <1>1, <1>3, <2>1, Jobs DEF CodesOwned, TypeOK
  <2>6. ReadersOK' /\ UsedOK' /\ CodeUsedOnce' /\ LatestCodeOnly'
    BY <1>1, <1>3, <2>1 DEF ReadersOK, UsedOK, CodeUsedOnce, LatestCodeOnly
  <2> QED
    BY <2>2, <2>3, <2>4, <2>5, <2>6
<1> QED
  BY <1>4, <1>5

\* A drawn code is stored: it is the one in force, and the others are excused.
LEMMA StoreStep ==
  ASSUME IInv, NEW r \in Requests, NEW stores \in Landings(At[r]),
         StoreCode(r, stores)
  PROVE  IInv'
<1> USE DEF IInv
<1> DEFINE u == job[r].user
           new == [code |-> r, excused |-> FALSE]
<1>1. /\ pc[r] = "drawn" /\ Kind[r] = "forgot"
      /\ job[r] \in Job /\ job[r].code = r /\ u \in Users /\ r \in Codes
      /\ new \in Entry
  BY Jobs DEF StoreCode, JobsOK, Started, Codes, Entry
<1>2. /\ password' = password
      /\ faults' \in 0..MaxFaults
      /\ cache' = [s \in Stores |-> [cache[s] EXCEPT ![u] =
           IF s \in stores THEN new ELSE OutOfDate(@, r)]]
      /\ inForce' = [inForce EXCEPT ![u] = r]
      /\ job' = Overtaken(u, r)
      /\ pc' = [pc EXCEPT ![r] = "done"]
  BY <1>1, FaultsAssumption DEF StoreCode, Fault, Overwritten, Stored, Move, TypeOK
<1> HIDE DEF u
<1>3. /\ pc'[r] = "done"
      /\ \A q \in Requests \ {r} : pc'[q] = pc[q]
  BY <1>2 DEF TypeOK
<1>4. /\ inForce'[u] = r
      /\ \A v \in Users \ {u} : inForce'[v] = inForce[v]
  BY <1>1, <1>2 DEF TypeOK
<1>5. /\ \A s \in stores : s \in Stores => cache'[s][u] = new
      /\ \A s \in Stores \ stores : cache'[s][u] = OutOfDate(cache[s][u], r)
      /\ \A s \in Stores, v \in Users \ {u} : cache'[s][v] = cache[s][v]
  BY <1>1, <1>2 DEF TypeOK
<1>6. \A s \in Stores \ stores : LET e == cache[s][u]  f == cache'[s][u]
        IN /\ f \in Entry \cup {Nothing}
           /\ f = Nothing <=> e = Nothing
           /\ f # Nothing => f.code = e.code /\ (f.excused \/ f.code = r)
  <2> SUFFICES ASSUME NEW s \in Stores \ stores
               PROVE  LET e == cache[s][u]  f == cache'[s][u]
                      IN /\ f \in Entry \cup {Nothing}
                         /\ f = Nothing <=> e = Nothing
                         /\ f # Nothing => f.code = e.code /\ (f.excused \/ f.code = r)
    OBVIOUS
  <2>1. cache[s][u] \in Entry \cup {Nothing}
    BY <1>1 DEF TypeOK
  <2> QED
    BY <1>5, <2>1, OutOfDates
<1>7. /\ job' \in [Requests -> Job \cup {NoJob}]
      /\ \A q \in Requests :
           /\ job'[q] = NoJob <=> job[q] = NoJob
           /\ job'[q] \in Job <=> job[q] \in Job
           /\ job[q] \in Job =>
                /\ job'[q].user = job[q].user
                /\ job'[q].code = job[q].code
                /\ job[q].excused => job'[q].excused
                /\ pc[q] \in {"matched", "evicted"} /\ job'[q].user = u =>
                     job'[q].excused \/ job'[q].code = r
                /\ ~(pc[q] \in {"matched", "evicted"} /\ job'[q].user = u) =>
                     job'[q] = job[q]
  BY <1>1, <1>2, Overtakes
<1>8. TypeOK'
  <2>1. cache' \in [Stores -> [Users -> Entry \cup {Nothing}]]
    <3>1. ASSUME NEW s \in Stores, NEW v \in Users
          PROVE  cache'[s][v] \in Entry \cup {Nothing}
      <4>1. cache[s][v] \in Entry \cup {Nothing}
        BY DEF TypeOK
      <4>2. CASE v # u
        BY <1>5, <4>1, <4>2
      <4>3. CASE v = u /\ s \in stores
        BY <1>1, <1>5, <4>3
      <4>4. CASE v = u /\ s \notin stores
        BY <1>6, <4>4
      <4> QED
        BY <4>2, <4>3, <4>4
    <3> QED
      BY <1>2, <3>1 DEF TypeOK
  <2> QED
    BY <1>1, <1>2, <1>7, <2>1 DEF TypeOK
<1>9. JobsOK'
  BY <1>1, <1>3, <1>7 DEF JobsOK, Started
<1>10. \A q \in Requests : job[q] # NoJob /\ Kind[q] # "forgot" =>
         /\ job[q] \in Job /\ job'[q] \in Job
         /\ pc[job[q].code] = "done" /\ job[q].code \in Requests \ {r}
         /\ job[job[q].code] \in Job
  BY <1>1, <1>7, Jobs DEF CodesOwned, JobsOK, Started, TypeOK
<1>11. CodesOwned'
  <2>1. \A q \in Requests : job'[q] # NoJob /\ Kind[q] # "forgot" =>
          pc'[job'[q].code] = "done" /\ job'[job'[q].code].user = job'[q].user
    BY <1>3, <1>7, <1>10 DEF CodesOwned
  <2>2. ASSUME NEW s \in Stores, NEW v \in Users, cache'[s][v] # Nothing
        PROVE  pc'[cache'[s][v].code] # "idle" /\ job'[cache'[s][v].code].user = v
    <3>1. CASE s \in stores /\ v = u
      BY <1>1, <1>3, <1>5, <1>7, <3>1 DEF u
    <3>2. CASE ~(s \in stores /\ v = u)
      <4>1. cache[s][v] # Nothing /\ cache'[s][v].code = cache[s][v].code
        BY <1>5, <1>6, <2>2, <3>2
      <4>2. cache[s][v].code \in Codes
        BY <4>1, Jobs DEF TypeOK
      <4>3. pc[cache[s][v].code] # "idle" /\ job[cache[s][v].code].user = v
        BY <4>1 DEF CodesOwned
      <4>4. job[cache[s][v].code] \in Job
        BY <4>2, <4>3 DEF JobsOK, Codes
      <4> QED
        BY <1>3, <1>7, <4>1, <4>2, <4>3, <4>4, Jobs
    <3> QED
      BY <3>1, <3>2
  <2> QED
    BY <2>1, <2>2 DEF CodesOwned
<1>12. PasswordsOK'
  <2>1. \A q \in Requests : pc[q] = "done" => job[q] \in Job
    BY DEF JobsOK, Started
  <2> QED
    BY <1>1, <1>2, <1>3, <1>7, <2>1 DEF PasswordsOK
<1>13. \A q \in Requests : Kind[q] # "forgot" /\ pc[q] \in Started =>
         /\ q # r /\ pc'[q] = pc[q] /\ job[q] \in Job /\ job[q] # NoJob
         /\ job'[q].user = job[q].user /\ job'[q].code = job[q].code
         /\ job[q].user \in Users /\ job[q].code # r
         /\ job[q].excused => job'[q].excused
  BY <1>1, <1>3, <1>7, <1>10, Jobs DEF JobsOK
<1>14. ReadersOK'
  <2> SUFFICES ASSUME NEW q \in Requests,
                      pc'[q] = "matched" \/ (pc'[q] = "evicted" /\ Kind[q] = "verify")
               PROVE  job'[q].excused \/ job'[q].code = inForce'[job'[q].user]
    BY DEF ReadersOK
  <2>1. q # r /\ pc'[q] = pc[q] /\ Kind[q] # "forgot" /\ pc[q] \in Started
    BY <1>3 DEF JobsOK, Started
  <2>2. job[q].excused \/ job[q].code = inForce[job[q].user]
    BY <2>1 DEF ReadersOK
  <2> QED
    BY <1>4, <1>7, <1>13, <2>1, <2>2
<1>15. \A q \in Requests : Kind[q] = "reset" /\ pc'[q] \in {"evicted", "done"} =>
         pc[q] \in {"evicted", "done"} /\ pc[q] \in Started /\ Kind[q] # "forgot"
  BY <1>1, <1>3 DEF Started
<1>16. UsedOK'
  <2> SUFFICES ASSUME NEW q \in Requests, Kind[q] = "reset",
                      pc'[q] \in {"evicted", "done"}
               PROVE  job'[q].excused \/ job'[q].code # inForce'[job'[q].user]
    BY DEF UsedOK
  <2>1. job[q].excused \/ job[q].code # inForce[job[q].user]
    BY <1>15 DEF UsedOK
  <2> QED
    BY <1>4, <1>13, <1>15, <2>1
<1>18. CodeUsedOnce'
  <2> SUFFICES ASSUME NEW p \in Requests, NEW q \in Requests,
                      p # q, Kind[p] = "reset", Kind[q] = "reset",
                      job'[p].user = job'[q].user, job'[p].code = job'[q].code,
                      pc'[p] \in {"evicted", "done"}, pc'[q] \in {"evicted", "done"}
               PROVE  job'[p].excused \/ job'[q].excused
    BY DEF CodeUsedOnce
  <2>1. job[p].excused \/ job[q].excused
    BY <1>13, <1>15 DEF CodeUsedOnce
  <2> QED
    BY <1>13, <1>15, <2>1
<1>17. LatestCodeOnly'
  BY <1>1, <1>4, <1>5, <1>6 DEF LatestCodeOnly
<1> QED
  BY <1>8, <1>9, <1>11, <1>12, <1>14, <1>16, <1>17, <1>18

\* Eviction: a reset takes the code out of force, and its own use is the one
\* that needs no excuse.
LEMMA EvictStep ==
  ASSUME IInv, NEW r \in Requests, NEW fails \in BOOLEAN, Evict(r, fails)
  PROVE  IInv'
<1> USE DEF IInv
<1> DEFINE u == job[r].user
           uses == Kind[r] = "reset" /\ inForce[u] = job[r].code
           c == IF uses THEN Nothing ELSE inForce[u]
           hit(s) == s = At[r] \/ (s = Redis /\ ~fails)
<1>1. /\ pc[r] = "matched" /\ Kind[r] \in {"verify", "reset"}
      /\ job[r] \in Job /\ u \in Users /\ job[r].code \in Codes
      /\ c \in Codes \cup {Nothing}
  BY Jobs DEF Evict, JobsOK, Started, TypeOK
<1>2. /\ password' = password
      /\ faults' \in 0..MaxFaults
      /\ cache' = [s \in Stores |-> [v \in Users |->
           IF hit(s) THEN IF v \in Evicted(s, u) THEN Nothing ELSE cache[s][v]
           ELSE IF v = u THEN OutOfDate(cache[s][v], c) ELSE cache[s][v]]]
      /\ inForce' = [inForce EXCEPT ![u] = c]
      /\ job' = [Overtaken(u, c) EXCEPT ![r] = job[r]]
      /\ pc' = [pc EXCEPT ![r] = "evicted"]
  BY FaultsAssumption DEF Evict, Fault, Move, TypeOK
<1>3. Kind[r] = "reset" /\ job[r].code = inForce[u] => c = Nothing
  OBVIOUS
<1>4. c = inForce[u] \/ (c = Nothing /\ Kind[r] = "reset" /\ job[r].code = inForce[u])
  OBVIOUS
<1>5. \A s \in Stores : u \in Evicted(s, u)
  BY <1>1, ExtendingAssumption DEF Evicted
<1> HIDE DEF u, c, hit
<1>6. /\ pc'[r] = "evicted" /\ job'[r] = job[r]
      /\ \A q \in Requests \ {r} : pc'[q] = pc[q]
  BY <1>1, <1>2, Overtakes DEF TypeOK
<1>7. /\ inForce'[u] = c
      /\ \A v \in Users \ {u} : inForce'[v] = inForce[v]
  BY <1>1, <1>2 DEF TypeOK
<1>8. /\ job' \in [Requests -> Job \cup {NoJob}]
      /\ \A q \in Requests :
           /\ job'[q] = NoJob <=> job[q] = NoJob
           /\ job'[q] \in Job <=> job[q] \in Job
           /\ job[q] \in Job =>
                /\ job'[q].user = job[q].user
                /\ job'[q].code = job[q].code
                /\ job[q].excused => job'[q].excused
                /\ q # r /\ pc[q] \in {"matched", "evicted"} /\ job'[q].user = u =>
                     job'[q].excused \/ job'[q].code = c
                /\ ~(pc[q] \in {"matched", "evicted"} /\ job'[q].user = u) =>
                     job'[q] = job[q]
  <2>1. \A q \in Requests \ {r} : job'[q] = Overtaken(u, c)[q]
    BY <1>1, <1>2, Overtakes
  <2> QED
    BY <1>1, <1>2, <1>6, <2>1, Overtakes
<1>9. \A s \in Stores, v \in Users : LET e == cache[s][v]  f == cache'[s][v]
        IN /\ f \in Entry \cup {Nothing}
           /\ f # Nothing => /\ e # Nothing /\ f.code = e.code
                             /\ v = u => f.excused \/ f.code = c
                             /\ v # u => f = e
  <2> SUFFICES ASSUME NEW s \in Stores, NEW v \in Users
               PROVE  LET e == cache[s][v]  f == cache'[s][v]
                      IN /\ f \in Entry \cup {Nothing}
                         /\ f # Nothing => /\ e # Nothing /\ f.code = e.code
                                           /\ v = u => f.excused \/ f.code = c
                                           /\ v # u => f = e
    OBVIOUS
  <2>1. cache[s][v] \in Entry \cup {Nothing}
    BY DEF TypeOK
  <2>2. cache'[s][v] =
          IF hit(s) THEN IF v \in Evicted(s, u) THEN Nothing ELSE cache[s][v]
          ELSE IF v = u THEN OutOfDate(cache[s][v], c) ELSE cache[s][v]
    BY <1>2
  <2> QED
    BY <1>5, <2>1, <2>2, OutOfDates
<1>10. TypeOK'
  <2>1. cache' \in [Stores -> [Users -> Entry \cup {Nothing}]]
    BY <1>2, <1>9
  <2> QED
    BY <1>1, <1>2, <1>8, <2>1 DEF TypeOK
<1>11. JobsOK'
  BY <1>1, <1>6, <1>8 DEF JobsOK, Started
<1>12. \A q \in Requests : job[q] # NoJob /\ Kind[q] # "forgot" =>
         /\ job[q] \in Job /\ job'[q] \in Job
         /\ pc[job[q].code] = "done" /\ job[q].code \in Requests \ {r}
         /\ job[job[q].code] \in Job
  BY <1>1, <1>8, Jobs DEF CodesOwned, JobsOK, Started, TypeOK
<1>13. CodesOwned'
  <2>1. \A q \in Requests : job'[q] # NoJob /\ Kind[q] # "forgot" =>
          pc'[job'[q].code] = "done" /\ job'[job'[q].code].user = job'[q].user
    BY <1>6, <1>8, <1>12 DEF CodesOwned
  <2>2. ASSUME NEW s \in Stores, NEW v \in Users, cache'[s][v] # Nothing
        PROVE  pc'[cache'[s][v].code] # "idle" /\ job'[cache'[s][v].code].user = v
    <3>1. cache[s][v] # Nothing /\ cache'[s][v].code = cache[s][v].code
      BY <1>9, <2>2
    <3>2. cache[s][v].code \in Codes
      BY <3>1, Jobs DEF TypeOK
    <3>3. pc[cache[s][v].code] # "idle" /\ job[cache[s][v].code].user = v
      BY <3>1 DEF CodesOwned
    <3>4. job[cache[s][v].code] \in Job
      BY <3>2, <3>3 DEF JobsOK, Codes
    <3> QED
      BY <1>6, <1>8, <3>1, <3>2, <3>3, <3>4, Jobs
  <2> QED
    BY <2>1, <2>2 DEF CodesOwned
<1>14. PasswordsOK'
  <2>1. \A q \in Requests : pc[q] = "done" => job[q] \in Job
    BY DEF JobsOK, Started
  <2> QED
    BY <1>1, <1>2, <1>6, <1>8, <2>1 DEF PasswordsOK
<1>15. \A q \in Requests : Kind[q] # "forgot" /\ pc[q] \in Started =>
         /\ job[q] \in Job /\ job[q] # NoJob
         /\ job'[q].user = job[q].user /\ job'[q].code = job[q].code
         /\ job[q].user \in Users /\ job[q].code # Nothing
         /\ job[q].excused => job'[q].excused
  BY <1>8, <1>12, Jobs DEF JobsOK
<1>16. ReadersOK'
  <2> SUFFICES ASSUME NEW q \in Requests,
                      pc'[q] = "matched" \/ (pc'[q] = "evicted" /\ Kind[q] = "verify")
               PROVE  job'[q].excused \/ job'[q].code = inForce'[job'[q].user]
    BY DEF ReadersOK
  <2>1. /\ pc[q] = "matched" \/ (pc[q] = "evicted" /\ Kind[q] = "verify")
        /\ q = r => Kind[q] = "verify"
    BY <1>1, <1>6
  <2>2. Kind[q] # "forgot" /\ pc[q] \in Started
    BY <2>1 DEF JobsOK, Started
  <2>3. job[q].excused \/ job[q].code = inForce[job[q].user]
    BY <2>1 DEF ReadersOK
  <2>4. CASE q = r
    BY <1>4, <1>6, <1>7, <2>1, <2>3, <2>4 DEF u
  <2>5. CASE q # r
    BY <1>7, <1>8, <1>15, <2>1, <2>2, <2>3, <2>5
  <2> QED
    BY <2>4, <2>5
<1>17. \A q \in Requests : Kind[q] = "reset" /\ pc'[q] \in {"evicted", "done"} =>
         /\ pc[q] \in Started /\ Kind[q] # "forgot"
         /\ q # r => pc[q] \in {"evicted", "done"}
  BY <1>1, <1>6 DEF Started
<1>18. UsedOK'
  <2> SUFFICES ASSUME NEW q \in Requests, Kind[q] = "reset",
                      pc'[q] \in {"evicted", "done"}
               PROVE  job'[q].excused \/ job'[q].code # inForce'[job'[q].user]
    BY DEF UsedOK
  <2>1. CASE q = r
    <3>1. job[r].excused \/ job[r].code = inForce[u]
      BY <1>1 DEF ReadersOK, u
    <3>2. job[r].code # Nothing
      BY <1>1, Jobs
    <3> QED
      BY <1>3, <1>6, <1>7, <2>1, <3>1, <3>2 DEF u
  <2>2. CASE q # r
    <3>1. job[q].excused \/ job[q].code # inForce[job[q].user]
      BY <1>17, <2>2 DEF UsedOK
    <3> QED
      BY <1>4, <1>7, <1>15, <1>17, <2>2, <3>1
  <2> QED
    BY <2>1, <2>2
<1>19. CodeUsedOnce'
  <2> SUFFICES ASSUME NEW p \in Requests, NEW q \in Requests,
                      p # q, Kind[p] = "reset", Kind[q] = "reset",
                      job'[p].user = job'[q].user, job'[p].code = job'[q].code,
                      pc'[p] \in {"evicted", "done"}, pc'[q] \in {"evicted", "done"}
               PROVE  job'[p].excused \/ job'[q].excused
    BY DEF CodeUsedOnce
  <2>1. job[p].user = job[q].user /\ job[p].code = job[q].code
    BY <1>15, <1>17
  <2>2. job[p].excused \/ job[q].excused
    <3>1. \A x \in Requests : x # r /\ Kind[x] = "reset" /\ pc'[x] \in {"evicted", "done"}
            => job[x].excused \/ job[x].code # inForce[job[x].user]
      BY <1>17 DEF UsedOK
    <3>2. job[r].excused \/ job[r].code = inForce[job[r].user]
      BY <1>1 DEF ReadersOK
    <3>3. CASE p # r /\ q # r
      BY <1>15, <1>17, <2>1, <3>3 DEF CodeUsedOnce
    <3> QED
      BY <2>1, <3>1, <3>2, <3>3
  <2> QED
    BY <1>15, <1>17, <2>2
<1>20. LatestCodeOnly'
  BY <1>7, <1>9 DEF LatestCodeOnly
<1> QED
  BY <1>10, <1>11, <1>13, <1>14, <1>16, <1>18, <1>19, <1>20

\* A verified code is stored again: it is in force, or the request is excused.
LEMMA RestoreStep ==
  ASSUME IInv, NEW r \in Requests, NEW stores \in Landings(At[r]),
         Restore(r, stores)
  PROVE  IInv'
<1> USE DEF IInv
<1> DEFINE u == job[r].user
           new == [code |-> job[r].code, excused |-> job[r].excused]
<1>1. /\ pc[r] = "evicted" /\ Kind[r] = "verify"
      /\ job[r] \in Job /\ job[r] # NoJob
  BY Jobs DEF Restore, JobsOK, Started
<1>2. u \in Users /\ new \in Entry /\ new.code = job[r].code
  BY <1>1, Jobs DEF Entry
<1>3. /\ UNCHANGED <<password, inForce, job>>
      /\ faults' \in 0..MaxFaults
      /\ cache' = [s \in Stores |->
           IF s \in stores THEN [cache[s] EXCEPT ![u] = new] ELSE cache[s]]
      /\ pc' = [pc EXCEPT ![r] = "done"]
  BY FaultsAssumption DEF Restore, Fault, Stored, Move, TypeOK
<1>4. new.excused \/ new.code = inForce[u]
  BY <1>1 DEF ReadersOK
<1>5. pc[new.code] = "done" /\ job[new.code].user = u /\ new.code \in Requests
  BY <1>1, <1>2, Jobs DEF CodesOwned
<1> HIDE DEF u, new
<1>6. /\ pc'[r] = "done"
      /\ \A q \in Requests \ {r} : pc'[q] = pc[q]
  BY <1>3 DEF TypeOK
<1>7. \A s \in Stores, v \in Users :
        cache'[s][v] = IF s \in stores /\ v = u THEN new ELSE cache[s][v]
  BY <1>2, <1>3 DEF TypeOK
<1>8. TypeOK'
  <2>1. cache' \in [Stores -> [Users -> Entry \cup {Nothing}]]
    BY <1>2, <1>3 DEF TypeOK
  <2> QED
    BY <1>3, <2>1 DEF TypeOK
<1>9. JobsOK'
  BY <1>1, <1>3, <1>6 DEF JobsOK, Started
<1>10. CodesOwned'
  BY <1>3, <1>5, <1>6, <1>7, Jobs DEF CodesOwned, TypeOK
<1>11. PasswordsOK'
  BY <1>3, <1>6 DEF PasswordsOK
<1>12. ReadersOK' /\ UsedOK' /\ CodeUsedOnce'
  BY <1>1, <1>3, <1>6 DEF ReadersOK, UsedOK, CodeUsedOnce
<1>13. LatestCodeOnly'
  BY <1>3, <1>4, <1>7 DEF LatestCodeOnly
<1> QED
  BY <1>8, <1>9, <1>10, <1>11, <1>12, <1>13

\* An entry that expires is gone.
LEMMA ExpireStep ==
  ASSUME IInv, NEW s \in Stores, NEW u \in Users, Expire(s, u)
  PROVE  IInv'
<1> USE DEF IInv
<1>1. /\ UNCHANGED <<password, inForce, faults, pc, job>>
      /\ cache' = [cache EXCEPT ![s][u] = Nothing]
  BY DEF Expire
<1>2. \A t \in Stores, v \in Users : cache'[t][v] # Nothing => cache'[t][v] = cache[t][v]
  BY <1>1 DEF TypeOK
<1>3. TypeOK'
  BY <1>1 DEF TypeOK
<1>4. JobsOK' /\ PasswordsOK' /\ ReadersOK' /\ UsedOK' /\ CodeUsedOnce'
  BY <1>1 DEF JobsOK, PasswordsOK, ReadersOK, UsedOK, CodeUsedOnce
<1>5. CodesOwned' /\ LatestCodeOnly'
  BY <1>1, <1>2 DEF CodesOwned, LatestCodeOnly
<1> QED
  BY <1>3, <1>4, <1>5

\* Every step preserves the inductive invariant.
LEMMA Inductive == IInv /\ [Next]_vars => IInv'
<1> SUFFICES ASSUME IInv, [Next]_vars PROVE IInv'
  OBVIOUS
<1>1. CASE UNCHANGED vars
  BY <1>1 DEF vars, IInv, TypeOK, JobsOK, CodesOwned, PasswordsOK, ReadersOK, UsedOK,
     CodeUsedOnce, LatestCodeOnly
<1> QED
  BY <1>1, ForgotStep, SubmitStep, StoreStep, EvictStep, RestoreStep, LeaveStep,
     ExpireStep DEF Next

\* The inductive invariant holds throughout.
THEOREM Invariant == Spec => []IInv
<1> QED
  BY InitOK, Inductive, PTL DEF Spec

-----------------------------------------------------------------------------
(* What follows.                                                           *)

\* The variables keep their types, with Redis failing up to the bound.
THEOREM TypeCorrect == Spec => []TypeOK
<1>1. IInv => TypeOK
  BY DEF IInv
<1> QED
  BY <1>1, Invariant, PTL

\* A reset sets the password of the account its code was drawn for, whatever
\* else is stored, evicted, replaced or stored again meanwhile.
THEOREM OwnCode == Spec => []ResetByOwnCode
<1>1. IInv => ResetByOwnCode
  <2> SUFFICES ASSUME IInv, NEW u \in Users, password[u] # Original
               PROVE  /\ job[password[u]].user = u
                      /\ job[job[password[u]].code].user = u
    BY DEF ResetByOwnCode
  <2>1. /\ password[u] \in Requests /\ Kind[password[u]] = "reset"
        /\ pc[password[u]] = "done" /\ job[password[u]].user = u
    BY DEF IInv, PasswordsOK
  <2>2. job[password[u]] # NoJob
    BY <2>1, Jobs DEF IInv, JobsOK, Started
  <2> QED
    BY <2>1, <2>2 DEF IInv, CodesOwned
<1> QED
  BY <1>1, Invariant, PTL

\* Of two resets with one code, one had an excuse: reading and evicting the code
\* are two commands, and an eviction may fail.
THEOREM UsedOnce == Spec => []CodeUsedOnce
<1>1. IInv => CodeUsedOnce
  BY DEF IInv
<1> QED
  BY <1>1, Invariant, PTL

\* A code that a store still has is in force, or has an excuse.
THEOREM LatestCode == Spec => []LatestCodeOnly
<1>1. IInv => LatestCodeOnly
  BY DEF IInv
<1> QED
  BY <1>1, Invariant, PTL

\* No request takes away the code in force but one that matched a code, of that
\* account or of one whose key is a prefix or a pattern, or a verification that was overtaken.
THEOREM LostToMatch == Spec => LostOnlyToMatch
<1> DEFINE Step == \A u \in Users : Held(u) /\ ~Held(u)' /\ pc' # pc =>
       \E r \in Requests :
         \/ pc'[r] = "evicted" /\ pc[r] = "matched" /\ u \in Matching[job[r].user]
         \/ pc'[r] = "done" /\ pc[r] = "evicted" /\ job[r].excused
<1>1. IInv /\ [Next]_vars => [Step]_vars
  <2> SUFFICES ASSUME IInv, Next, NEW u \in Users, Held(u), ~Held(u)', pc' # pc
               PROVE  \E r \in Requests :
                        \/ /\ pc'[r] = "evicted" /\ pc[r] = "matched"
                           /\ u \in Matching[job[r].user]
                        \/ pc'[r] = "done" /\ pc[r] = "evicted" /\ job[r].excused
    OBVIOUS
  <2> USE DEF IInv
  <2>1. PICK s \in Stores : cache[s][u] # Nothing /\ cache[s][u].code = inForce[u]
    BY DEF Held
  <2>2. ~(cache'[s][u] = cache[s][u] /\ inForce'[u] = inForce[u])
    BY <2>1 DEF Held
  <2>3. ASSUME NEW r \in Requests, NEW stores \in Landings(At[r]),
               StoreCode(r, stores)
        PROVE  FALSE
    <3> PICK t \in stores : t \in Stores
      BY Lands
    <3>1. job[r].code = r /\ job[r].user \in Users /\ r # Nothing
      BY <2>3, Jobs DEF StoreCode, JobsOK, Started
    <3>2. u = job[r].user
      BY <2>2, <2>3 DEF StoreCode, TypeOK
    <3>3. cache'[t][u] = [code |-> r, excused |-> FALSE] /\ inForce'[u] = r
      BY <2>3, <3>1, <3>2 DEF StoreCode, Overwritten, Stored, TypeOK
    <3>4. [code |-> r, excused |-> FALSE] \in Entry
      BY <2>3, <3>1 DEF Entry, Codes, StoreCode, JobsOK
    <3> QED
      BY <3>1, <3>3, <3>4, NothingAssumption DEF Held
  <2>4. ASSUME NEW r \in Requests, NEW fails \in BOOLEAN, Evict(r, fails)
        PROVE  /\ pc'[r] = "evicted" /\ pc[r] = "matched"
               /\ u \in Matching[job[r].user]
    <3>1. pc'[r] = "evicted" /\ pc[r] = "matched" /\ job[r].user \in Users
      BY <2>4, Jobs DEF Evict, Move, JobsOK, Started, TypeOK
    <3>2. ASSUME u \notin Matching[job[r].user] PROVE FALSE
      <4>1. u # job[r].user
        BY <3>1, <3>2, ExtendingAssumption
      <4>2. u \notin Evicted(s, job[r].user)
        BY <3>1, <3>2, ExtendingAssumption DEF Evicted
      <4>3. cache'[s][u] = cache[s][u] /\ inForce'[u] = inForce[u]
        BY <2>1, <2>4, <3>1, <4>1, <4>2 DEF Evict, TypeOK
      <4> QED
        BY <2>2, <4>3
    <3> QED
      BY <3>1, <3>2
  <2>5. ASSUME NEW r \in Requests, NEW stores \in Landings(At[r]),
               Restore(r, stores)
        PROVE  pc'[r] = "done" /\ pc[r] = "evicted" /\ job[r].excused
    <3> PICK t \in stores : t \in Stores
      BY Lands
    <3> DEFINE new == [code |-> job[r].code, excused |-> job[r].excused]
    <3>1. /\ pc'[r] = "done" /\ pc[r] = "evicted" /\ Kind[r] = "verify"
          /\ job[r] \in Job
      BY <2>5 DEF Restore, Move, JobsOK, Started, TypeOK
    <3>2. inForce' = inForce /\ cache' = [x \in Stores |->
             IF x \in stores THEN [cache[x] EXCEPT ![job[r].user] = new] ELSE cache[x]]
      BY <2>5 DEF Restore, Stored
    <3>3. u = job[r].user
      BY <2>1, <2>2, <3>1, <3>2 DEF TypeOK
    <3>4. cache'[t][u] = new /\ new \in Entry /\ new.code = job[r].code
      BY <3>1, <3>2, <3>3, Jobs DEF TypeOK, Entry
    <3>5. ASSUME ~job[r].excused PROVE FALSE
      <4>1. job[r].code = inForce[u]
        BY <3>1, <3>3, <3>5 DEF ReadersOK
      <4> QED
        BY <3>1, <3>2, <3>4, <4>1, NothingAssumption DEF Held
    <3> QED
      BY <3>1, <3>5
  <2>6. \/ \E r \in Requests :
             \/ \E stores \in Landings(At[r]) : StoreCode(r, stores) \/ Restore(r, stores)
             \/ \E fails \in BOOLEAN : Evict(r, fails)
        \/ cache' = cache /\ inForce' = inForce
        \/ pc' = pc
    BY DEF Next, Forgot, Submit, SaveReset, Crash, Expire
  <2> QED
    BY <2>2, <2>3, <2>4, <2>5, <2>6
<1> QED
  BY <1>1, Invariant, PTL DEF Spec, LostOnlyToMatch
=============================================================================
