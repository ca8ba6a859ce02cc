-------------------------------- MODULE Team --------------------------------
(***************************************************************************)
(* The team of one church: its admin accounts, their invitations, and the  *)
(* sessions that authenticateAdmin lets in.  A session carries the         *)
(* token_version of its account; every request compares it with the        *)
(* database through a Redis cache that one caller at a time rebuilds, and  *)
(* logging out or deactivating somebody bumps the version and evicts the   *)
(* cached one.                                                             *)
(*                                                                         *)
(* All accounts have the role ADMIN: the others are never counted and the  *)
(* SYSTEM actor cannot be touched.  Redis is external.                     *)
(***************************************************************************)
EXTENDS Naturals, FiniteSets

CONSTANTS
    Admins,         \* people who are or may become admins
    Founders,       \* those with an account from registration
    Requests,       \* concurrent HTTP requests
    TeamRequests,   \* those of them that may change the team
    NoAdmin, NoEntry,
    MaxVersion      \* bound: token_version

ASSUME TeamAssumption ==
    /\ Founders \subseteq Admins /\ Founders # {}
    /\ TeamRequests \subseteq Requests
    /\ NoAdmin \notin Admins /\ NoEntry \notin Nat
    /\ MaxVersion \in Nat

VARIABLES
    active, password, invited, version,   \* admin_users rows
    issued,        \* the token versions of each account that were signed
    cache, locked, \* Redis: admin_token_version:{id} and its rebuild lock
    pc,            \* requests: next step
    who, held,     \* their session: account and version
    target, seen   \* what they read: an account, and a version

dbVars == <<active, password, invited, version>>
cacheVars == <<cache, locked>>
procVars == <<pc, who, held, target, seen>>
vars == <<dbVars, issued, cacheVars, procVars>>

Versions == 0 .. MaxVersion

Init ==
    /\ active = [a \in Admins |-> a \in Founders]
    /\ password = [a \in Admins |-> a \in Founders]
    /\ invited = [a \in Admins |-> FALSE]
    /\ version = [a \in Admins |-> 0]
    /\ issued = [a \in Admins |-> {}]
    /\ cache = [a \in Admins |-> NoEntry]
    /\ locked = [a \in Admins |-> FALSE]
    /\ pc = [r \in Requests |-> "idle"]
    /\ who = [r \in Requests |-> NoAdmin]
    /\ held = [r \in Requests |-> 0]
    /\ target = [r \in Requests |-> NoAdmin]
    /\ seen = [r \in Requests |-> 0]

Goto(r, step) == pc' = [pc EXCEPT ![r] = step]

Finish(r) ==
    /\ Goto(r, "idle")
    /\ who' = [who EXCEPT ![r] = NoAdmin]
    /\ held' = [held EXCEPT ![r] = 0]
    /\ target' = [target EXCEPT ![r] = NoAdmin]
    /\ seen' = [seen EXCEPT ![r] = 0]

\* A request that is about account a and goes on at this step.
Start(r, a, v, step) ==
    /\ pc[r] = "idle"
    /\ who' = [who EXCEPT ![r] = a]
    /\ held' = [held EXCEPT ![r] = v]
    /\ Goto(r, step)
    /\ UNCHANGED <<target, seen>>

-----------------------------------------------------------------------------
(* Signing in: admin-auth.service.ts login, admin-users.service.ts accept. *)

\* The account is read, then bcrypt takes its time.
Login(r, a) ==
    /\ active[a] /\ password[a]
    /\ Start(r, a, version[a], "sign")
    /\ UNCHANGED <<dbVars, issued, cacheVars>>

\* The token carries the version that was read.
Sign(r) ==
    /\ pc[r] = "sign"
    /\ issued' = [issued EXCEPT ![who[r]] = @ \cup {held[r]}]
    /\ Finish(r)
    /\ UNCHANGED <<dbVars, cacheVars>>

\* An invite link is known by its hash; a newer invite replaces it.
AcceptInvite(r, a) ==
    /\ invited[a]
    /\ Start(r, a, version[a], "activate")
    /\ UNCHANGED <<dbVars, issued, cacheVars>>

\* activateWithPassword, by id whatever the row has become, then the token.
Activate(r) ==
    /\ pc[r] = "activate"
    /\ active' = [active EXCEPT ![who[r]] = TRUE]
    /\ password' = [password EXCEPT ![who[r]] = TRUE]
    /\ invited' = [invited EXCEPT ![who[r]] = FALSE]
    /\ Goto(r, "sign")
    /\ UNCHANGED <<version, issued, cacheVars, who, held, target, seen>>

-----------------------------------------------------------------------------
(* authenticateAdmin over cacheAside.ts getOrSetWithLock.                  *)

Request(r, a, v) ==
    /\ v \in issued[a]
    /\ Start(r, a, v, "get")
    /\ UNCHANGED <<dbVars, issued, cacheVars>>

\* The gate: any difference refuses the request.  (The token and the version
\* are not used after it.)
Judge(r, v) ==
    IF v = held[r]
    THEN /\ Goto(r, "admitted")
         /\ held' = [held EXCEPT ![r] = 0]
         /\ seen' = [seen EXCEPT ![r] = 0]
         /\ UNCHANGED <<who, target>>
    ELSE Finish(r)

\* GET, and on a miss SET lock NX: what may come in between is another caller's
\* rebuild, which this one then repeats.
GetCached(r) ==
    /\ pc[r] = "get"
    /\ IF cache[who[r]] # NoEntry
       THEN Judge(r, cache[who[r]]) /\ UNCHANGED locked
       ELSE /\ locked' = [locked EXCEPT ![who[r]] = TRUE]
            /\ Goto(r, IF locked[who[r]] THEN "wait" ELSE "fetch")
            /\ UNCHANGED <<who, held, target, seen>>
    /\ UNCHANGED <<dbVars, issued, cache>>

Fetch(r) ==
    /\ pc[r] = "fetch"
    /\ seen' = [seen EXCEPT ![r] = version[who[r]]]
    /\ Goto(r, "set")
    /\ UNCHANGED <<dbVars, issued, cacheVars, who, held, target>>

\* The value is cached for 30 s and the lock deleted, whoever holds it by now.
SetCached(r) ==
    /\ pc[r] = "set"
    /\ cache' = [cache EXCEPT ![who[r]] = seen[r]]
    /\ locked' = [locked EXCEPT ![who[r]] = FALSE]
    /\ Judge(r, seen[r])
    /\ UNCHANGED <<dbVars, issued>>

\* Polling finds the rebuilt value, or gives up and asks the database.
Poll(r) ==
    /\ pc[r] = "wait"
    /\ cache[who[r]] # NoEntry
    /\ Judge(r, cache[who[r]])
    /\ UNCHANGED <<dbVars, issued, cacheVars>>

WaitedLongEnough(r) ==
    /\ pc[r] = "wait"
    /\ Judge(r, version[who[r]])
    /\ UNCHANGED <<dbVars, issued, cacheVars>>

\* A Redis call fails: the database answers, and nothing is cached.
RedisFails(r) ==
    /\ pc[r] \in {"get", "wait"}
    /\ Judge(r, version[who[r]])
    /\ UNCHANGED <<dbVars, issued, cacheVars>>

\* (Mutant: the value is cached without a time to live.)
NeverExpires(a) == FALSE /\ UNCHANGED vars

ExpireCache(a) ==
    /\ cache[a] # NoEntry
    /\ cache' = [cache EXCEPT ![a] = NoEntry]
    /\ UNCHANGED <<dbVars, issued, locked, procVars>>

ExpireLock(a) ==
    /\ locked[a]
    /\ locked' = [locked EXCEPT ![a] = FALSE]
    /\ UNCHANGED <<dbVars, issued, cache, procVars>>

-----------------------------------------------------------------------------
(* What an admitted request does.                                          *)

\* Reads and other work that leaves the team alone.
Serve(r) ==
    /\ pc[r] = "admitted"
    /\ Finish(r)
    /\ UNCHANGED <<dbVars, issued, cacheVars>>

Bump(a) == version' = [version EXCEPT ![a] = @ + 1]

\* (Mutant: the new version goes to the cache before the database has it.)
LogoutAhead(r) ==
    /\ pc[r] = "admitted"
    /\ version[who[r]] < MaxVersion
    /\ cache' = [cache EXCEPT ![who[r]] = version[who[r]] + 1]
    /\ Finish(r)
    /\ UNCHANGED <<dbVars, issued, locked>>

Logout(r) ==
    /\ pc[r] = "admitted"
    /\ version[who[r]] < MaxVersion
    /\ Bump(who[r])
    /\ target' = [target EXCEPT ![r] = who[r]]
    /\ Goto(r, "evict")
    /\ UNCHANGED <<active, password, invited, issued, cacheVars, who, held, seen>>

\* setActive reads its target: not oneself, and nobody without a password.
ReadActivate(r, a) ==
    /\ pc[r] = "admitted" /\ r \in TeamRequests
    /\ password[a]
    /\ target' = [target EXCEPT ![r] = a]
    /\ Goto(r, "reactivate")
    /\ UNCHANGED <<dbVars, issued, cacheVars, who, held, seen>>

ReadDeactivate(r, a) ==
    /\ pc[r] = "admitted" /\ r \in TeamRequests
    /\ a # who[r]
    /\ target' = [target EXCEPT ![r] = a]
    /\ Goto(r, IF active[a] THEN "count" ELSE "deactivate")
    /\ UNCHANGED <<dbVars, issued, cacheVars, who, held, seen>>

ActiveAdmins == {a \in Admins : active[a]}

\* (Mutant: an off-by-one in the guard.)
CountAny(r) ==
    /\ pc[r] = "count"
    /\ IF Cardinality(ActiveAdmins) < 1 THEN Finish(r)
       ELSE Goto(r, "deactivate") /\ UNCHANGED <<who, held, target, seen>>
    /\ UNCHANGED <<dbVars, issued, cacheVars>>

\* The last active admin is kept.
CountAdmins(r) ==
    /\ pc[r] = "count"
    /\ IF Cardinality(ActiveAdmins) <= 1 THEN Finish(r)
       ELSE Goto(r, "deactivate") /\ UNCHANGED <<who, held, target, seen>>
    /\ UNCHANGED <<dbVars, issued, cacheVars>>

Reactivate(r) ==
    /\ pc[r] = "reactivate"
    /\ active' = [active EXCEPT ![target[r]] = TRUE]
    /\ Finish(r)
    /\ UNCHANGED <<password, invited, version, issued, cacheVars>>

Deactivate(r) ==
    /\ pc[r] = "deactivate"
    /\ version[target[r]] < MaxVersion
    /\ active' = [active EXCEPT ![target[r]] = FALSE]
    /\ Bump(target[r])
    /\ Goto(r, "evict")
    /\ UNCHANGED <<password, invited, issued, cacheVars, who, held, target, seen>>

Evict(r) ==
    /\ pc[r] = "evict"
    /\ cache' = [cache EXCEPT ![target[r]] = NoEntry]
    /\ Finish(r)
    /\ UNCHANGED <<dbVars, issued, locked>>

\* invite refuses who has an active account already.
Invite(r, a) ==
    /\ pc[r] = "admitted" /\ r \in TeamRequests
    /\ ~(active[a] /\ password[a])
    /\ target' = [target EXCEPT ![r] = a]
    /\ Goto(r, "invite")
    /\ UNCHANGED <<dbVars, issued, cacheVars, who, held, seen>>

\* createInvited or updateInviteToken: both leave the account inactive.
WriteInvite(r) ==
    /\ pc[r] = "invite"
    /\ invited' = [invited EXCEPT ![target[r]] = TRUE]
    /\ active' = [active EXCEPT ![target[r]] = FALSE]
    /\ Finish(r)
    /\ UNCHANGED <<password, version, issued, cacheVars>>

\* A query throws, the eviction fails, or the process stops: the request ends
\* where it is.
Fail(r) ==
    /\ pc[r] # "idle"
    /\ Finish(r)
    /\ UNCHANGED <<dbVars, issued, cacheVars>>

-----------------------------------------------------------------------------
RequestStep(r) ==
    \/ Sign(r) \/ Activate(r)
    \/ GetCached(r) \/ Fetch(r) \/ SetCached(r) \/ Poll(r)
    \/ WaitedLongEnough(r)
    \/ CountAdmins(r) \/ Reactivate(r) \/ Deactivate(r) \/ Evict(r) \/ WriteInvite(r)
    \/ Serve(r)

Admitted(r) ==
    \/ Logout(r)
    \/ \E a \in Admins : ReadActivate(r, a) \/ ReadDeactivate(r, a) \/ Invite(r, a)

Next ==
    \/ \E r \in Requests :
           \/ \E a \in Admins : Login(r, a) \/ AcceptInvite(r, a)
           \/ \E a \in Admins, v \in Versions : Request(r, a, v)
           \/ RequestStep(r) \/ Admitted(r) \/ RedisFails(r) \/ Fail(r)
    \/ \E a \in Admins : ExpireCache(a) \/ ExpireLock(a)

Spec == Init /\ [][Next]_vars

\* Requests go on once they started, and Redis expires what it was told to: no
\* entry and no lock stays for ever.
Fairness ==
    /\ \A r \in Requests : WF_vars(RequestStep(r))
    /\ \A a \in Admins : WF_vars(ExpireCache(a)) /\ WF_vars(ExpireLock(a))

FairSpec == Spec /\ Fairness

-----------------------------------------------------------------------------
(* Properties.                                                             *)

TypeOK ==
    /\ active \in [Admins -> BOOLEAN] /\ password \in [Admins -> BOOLEAN]
    /\ invited \in [Admins -> BOOLEAN] /\ locked \in [Admins -> BOOLEAN]
    /\ version \in [Admins -> Versions]
    /\ issued \in [Admins -> SUBSET Versions]
    /\ cache \in [Admins -> Versions \cup {NoEntry}]
    /\ pc \in [Requests -> {"idle", "sign", "activate", "get", "fetch", "set", "wait",
                            "admitted", "count", "reactivate", "deactivate", "evict", "invite"}]
    /\ who \in [Requests -> Admins \cup {NoAdmin}]
    /\ target \in [Requests -> Admins \cup {NoAdmin}]
    /\ held \in [Requests -> Versions] /\ seen \in [Requests -> Versions]

\* "The last active ADMIN cannot be deactivated (org lockout)": some admin can
\* always sign in, whoever is invited, deactivated and brought back, and by
\* sessions that should have ended.  (While one request at a time changes the
\* team.)
LastAdminStays == \E a \in Admins : active[a] /\ password[a]

\* A revoked session stays revoked: what the cache holds, or is about to, is
\* never ahead of the database, so no version that was cached or signed becomes
\* valid later.
NothingAhead ==
    /\ \A a \in Admins : cache[a] # NoEntry => cache[a] <= version[a]
    /\ \A r \in Requests : pc[r] = "set" => seen[r] <= version[who[r]]
    /\ \A a \in Admins : \A v \in issued[a] : v <= version[a]

\* "Revocation isn't instant", but it comes: however rebuilds, evictions and
\* failures of Redis interleave, in the end the cache never says anything but
\* the database's version.  Until then an ended session may be let in, or a new
\* one refused.
RevocationSettles == <>[](\A a \in Admins : cache[a] \in {NoEntry, version[a]})

=============================================================================
