---------------------------- MODULE PasswordReset ----------------------------
(***************************************************************************)
(* Reset codes: forgot-password, verify-reset-code and reset-password      *)
(* (app/api/v1/auth.py), the codes of app/services/otp.py and the cache    *)
(* they are kept in (app/core/cache.py).                                   *)
(*                                                                         *)
(* A code is a cache entry with a time to live, in Redis or, when a        *)
(* command of Redis fails, in the dictionary of the process.  Reading,     *)
(* evicting and storing a code are separate commands, so requests that     *)
(* overlap act on a code that has been used or replaced since they read    *)
(* it.  A code is named after the request that generated it; that two      *)
(* draws of a million give the same code is left out.                      *)
(***************************************************************************)
EXTENDS Naturals

CONSTANTS
  Requests,   \* requests that can be made
  Kind,       \* the endpoint each is for
  Workers,    \* server processes
  At,         \* the process that serves each request
  Users,      \* accounts
  Extending,  \* the accounts whose cache key begins with an account's key
  Matching,   \* those whose key an account's key matches as a pattern of Redis
  MaxFaults,  \* bound on the Redis commands that fail
  Original,   \* the password an account has at first
  Nothing     \* no cache entry, or no code in force

ASSUME KindAssumption ==
  Kind \in [Requests -> {"forgot", "verify", "reset"}]
ASSUME ProcessAssumption == At \in [Requests -> Workers]
ASSUME ExtendingAssumption ==
  /\ Extending \in [Users -> SUBSET Users] /\ Matching \in [Users -> SUBSET Users]
  /\ \A u \in Users : u \in Extending[u] /\ Extending[u] \subseteq Matching[u]
ASSUME FaultsAssumption == MaxFaults \in Nat
ASSUME NullAssumption == {Original, Nothing} \cap Requests = {}

\* Redis, and the dictionary of each process.
Redis == "redis"
Stores == Workers \cup {Redis}
ASSUME StoresAssumption == Redis \notin Workers

Codes == {r \in Requests : Kind[r] = "forgot"}

VARIABLES
  password,  \* the reset that set each account's password
  cache,     \* each store's unexpired entry of each account
  inForce,   \* the last code stored for each account, until a reset uses it
  faults,    \* Redis commands that have failed
  pc,        \* where each request is
  job        \* what it is about and what it has read

vars == <<password, cache, inForce, faults, pc, job>>

\* A code that is not in force has an excuse: a request that had read it before
\* stored it again, or a store was out of reach when it was used or replaced.
Entry == [code : Codes, excused : BOOLEAN]
ASSUME NothingAssumption == Nothing \notin Entry

Job == [user : Users, code : Codes, excused : BOOLEAN]
NoJob == [code |-> Nothing]

Init ==
  /\ password = [u \in Users |-> Original]
  /\ cache = [s \in Stores |-> [u \in Users |-> Nothing]]
  /\ inForce = [u \in Users |-> Nothing]
  /\ faults = 0
  /\ pc = [r \in Requests |-> "idle"]
  /\ job = [r \in Requests |-> NoJob]

Move(r, to) == pc' = [pc EXCEPT ![r] = to]

\* A Redis command fails, or not.
Fault(fails) ==
  /\ fails => faults < MaxFaults
  /\ faults' = IF fails THEN faults + 1 ELSE faults

\* The store a get works on.
Reached(r, fails) == IF fails THEN At[r] ELSE Redis

\* Where a SET leaves its value: in Redis; in the dictionary of the process, if Redis
\* fails; or in both, if Redis stored it and its answer came too late.
Landings(w) == {{Redis}, {w}, {Redis, w}}

\* Code c is in force for u from now on: entries in stores the step does not
\* reach, and requests that have read another code, are excused.
OutOfDate(e, c) == IF e # Nothing /\ e.code # c THEN [e EXCEPT !.excused = TRUE] ELSE e

Overtaken(u, c) ==
  [r \in Requests |->
    IF pc[r] \in {"matched", "evicted"} /\ job[r].user = u /\ job[r].code # c
    THEN [job[r] EXCEPT !.excused = TRUE] ELSE job[r]]

-----------------------------------------------------------------------------
(* forgot-password                                                         *)

\* The account is found and a code drawn.
Forgot(r, u) ==
  /\ pc[r] = "idle" /\ Kind[r] = "forgot"
  /\ Move(r, "drawn")
  /\ job' = [job EXCEPT ![r] = [user |-> u, code |-> r, excused |-> FALSE]]
  /\ UNCHANGED <<password, cache, inForce, faults>>

\* Slip: a verification issues a ticket of its own.
Ticket(r) == r

\* The code a request stores: the one it drew, or the one it verified.
Stored(r) == job[r].code

\* Slip: SET NX.
IfAbsent(old, new) == IF old = Nothing THEN new ELSE old

\* SET overwrites.
Overwritten(old, new) == new

\* store_otp; the mail follows, whether or not it can be sent.
StoreCode(r, stores) ==
  LET u == job[r].user
  IN /\ pc[r] = "drawn"
     /\ Fault(stores # {Redis})
     /\ cache' = [s \in Stores |-> [cache[s] EXCEPT ![u] =
          IF s \in stores THEN Overwritten(@, [code |-> Stored(r), excused |-> FALSE])
          ELSE OutOfDate(@, r)]]
     /\ inForce' = [inForce EXCEPT ![u] = r]
     /\ job' = Overtaken(u, r)
     /\ Move(r, "done")
     /\ UNCHANGED password

-----------------------------------------------------------------------------
(* verify-reset-code and reset-password                                    *)

\* Codes that customers have been sent.
Mailed == {f \in Codes : pc[f] = "done"}

\* Slip: the code is not compared.
AnyStored(e, c) == e # Nothing

Matches(e, c) == e # Nothing /\ e.code = c

\* verify_otp: get and compare.
Submit(r, u, c, fails) ==
  LET e == cache[Reached(r, fails)][u]
  IN /\ pc[r] = "idle" /\ Kind[r] \in {"verify", "reset"}
     /\ Fault(fails)
     /\ IF Matches(e, c)
        THEN /\ Move(r, "matched")
             /\ job' = [job EXCEPT ![r] =
                  [user |-> u, code |-> c, excused |-> e.excused]]
        ELSE Move(r, "failed") /\ UNCHANGED job
     /\ UNCHANGED <<password, cache, inForce>>

\* Slip: the code is left to expire.
NoneEvicted(s, u) == {}

\* Slip: every code is evicted.
AllEvicted(s, u) == Users

\* The keys that go with the key of u: in Redis KEYS reads it as a pattern, in which
\* an e-mail's * and ? match others; in a dictionary those that begin with it.
Evicted(s, u) == IF s = Redis THEN Matching[u] ELSE Extending[u]

\* verify_otp: invalidate_prefix, in Redis unless it fails and in the dictionary.
\* A reset uses the code up; a verification is going to store it again.
Evict(r, fails) ==
  LET u == job[r].user
      uses == Kind[r] = "reset" /\ inForce[u] = job[r].code
      c == IF uses THEN Nothing ELSE inForce[u]
  IN /\ pc[r] = "matched"
     /\ Fault(fails)
     /\ cache' = [s \in Stores |-> [v \in Users |->
          IF s = At[r] \/ (s = Redis /\ ~fails)
          THEN IF v \in Evicted(s, u) THEN Nothing ELSE cache[s][v]
          ELSE IF v = u THEN OutOfDate(cache[s][v], c) ELSE cache[s][v]]]
     /\ inForce' = [inForce EXCEPT ![u] = c]
     /\ job' = [Overtaken(u, c) EXCEPT ![r] = job[r]]
     /\ Move(r, "evicted")
     /\ UNCHANGED password

\* verify-reset-code stores the code again, for the full time.
Restore(r, stores) ==
  /\ pc[r] = "evicted" /\ Kind[r] = "verify"
  /\ Fault(stores # {Redis})
  /\ cache' = [s \in Stores |->
       IF s \in stores
       THEN [cache[s] EXCEPT ![job[r].user] =
              [code |-> Stored(r), excused |-> job[r].excused]]
       ELSE cache[s]]
  /\ Move(r, "done")
  /\ UNCHANGED <<password, inForce, job>>

\* reset-password commits the new hash.
SaveReset(r) ==
  /\ pc[r] = "evicted" /\ Kind[r] = "reset"
  /\ password' = [password EXCEPT ![job[r].user] = r]
  /\ Move(r, "done")
  /\ UNCHANGED <<cache, inForce, faults, job>>

-----------------------------------------------------------------------------
\* The process dies, or the commit fails: a code that was evicted is lost.
Crash(r) ==
  /\ pc[r] \in {"drawn", "matched", "evicted"}
  /\ Move(r, "failed")
  /\ UNCHANGED <<password, cache, inForce, faults, job>>

\* Every entry is stored with a time to live, a verified one with a new one.
Expire(s, u) ==
  /\ cache[s][u] # Nothing
  /\ cache' = [cache EXCEPT ![s][u] = Nothing]
  /\ UNCHANGED <<password, inForce, faults, pc, job>>

Next ==
  \/ \E r \in Requests, u \in Users :
       \/ Forgot(r, u)
       \/ \E c \in Mailed, fails \in BOOLEAN : Submit(r, u, c, fails)
  \/ \E r \in Requests :
       \/ \E stores \in Landings(At[r]) : StoreCode(r, stores) \/ Restore(r, stores)
       \/ \E fails \in BOOLEAN : Evict(r, fails)
       \/ SaveReset(r) \/ Crash(r)
  \/ \E s \in Stores, u \in Users : Expire(s, u)

Spec == Init /\ [][Next]_vars

-----------------------------------------------------------------------------
(* Properties.                                                             *)

TypeOK ==
  /\ password \in [Users -> Requests \cup {Original}]
  /\ cache \in [Stores -> [Users -> Entry \cup {Nothing}]]
  /\ inForce \in [Users -> Codes \cup {Nothing}]
  /\ faults \in 0..MaxFaults
  /\ pc \in [Requests -> {"idle", "drawn", "matched", "evicted", "done", "failed"}]
  /\ job \in [Requests -> Job \cup {NoJob}]

\* An account's password is set only by a reset with a code that was generated
\* for this account, however often codes are used, stored again or replaced.
ResetByOwnCode ==
  \A u \in Users : password[u] # Original =>
    /\ job[password[u]].user = u
    /\ job[job[password[u]].code].user = u

\* A code resets a password once.  A second reset with it had read the code
\* before it was used, or found it in a store that kept it or that a verification
\* in progress had put it back into.
CodeUsedOnce ==
  \A q, r \in Requests :
    /\ q # r /\ Kind[q] = "reset" /\ Kind[r] = "reset"
    /\ job[q] # NoJob /\ job[r] # NoJob
    /\ job[q].user = job[r].user /\ job[q].code = job[r].code
    /\ pc[q] \in {"evicted", "done"} /\ pc[r] \in {"evicted", "done"}
    => job[q].excused \/ job[r].excused

\* A code that can be read is the one last generated, and not used yet, but for
\* the same two reasons.
LatestCodeOnly ==
  \A s \in Stores, u \in Users :
    cache[s][u] # Nothing => cache[s][u].excused \/ cache[s][u].code = inForce[u]

\* The code in force can be read somewhere.
Held(u) == \E s \in Stores : cache[s][u] # Nothing /\ cache[s][u].code = inForce[u]

\* The code in force disappears only when its time is up, when a request for its
\* account or for one whose key is a prefix or a pattern of its key matched, or when
\* a verification that was overtaken stores the older code over it.
LostOnlyToMatch ==
  [][\A u \in Users : Held(u) /\ ~Held(u)' /\ pc' # pc =>
       \E r \in Requests :
         \/ pc'[r] = "evicted" /\ pc[r] = "matched" /\ u \in Matching[job[r].user]
         \/ pc'[r] = "done" /\ pc[r] = "evicted" /\ job[r].excused]_vars
=============================================================================
