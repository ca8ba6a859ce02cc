----------------------------- MODULE TeamProofs -----------------------------
(***************************************************************************)
(* Proofs about Team.tla, for any number of accounts and requests.  With   *)
(* no restriction on which requests change the team, versions only grow,   *)
(* and nothing that was signed, cached or read is ahead of the database.   *)
(* With at most one that does, some admin can always sign in.              *)
(***************************************************************************)
EXTENDS Team, FiniteSetTheorems, TLAPS

\* A request that needs its account or its target has one.
Subjects ==
    \A r \in Requests :
        /\ pc[r] \in {"sign", "activate", "get", "wait", "fetch", "set", "admitted"} =>
              who[r] \in Admins
        /\ pc[r] \in {"count", "reactivate", "deactivate", "evict", "invite"} =>
              target[r] \in Admins

\* Who is signing in read a version the database had.
Signing ==
    \A r \in Requests : pc[r] \in {"sign", "activate"} => held[r] <= version[who[r]]

TeamInv == TypeOK /\ Subjects /\ Signing /\ NothingAhead

LEMMA VersionsAreNat == Versions \subseteq Nat /\ 0 \in Versions /\ NoEntry \notin Versions
BY TeamAssumption DEF TeamAssumption, Versions

\* The initial state has no session, no entry and no request.
LEMMA InitInv == Init => TeamInv
BY TeamAssumption, VersionsAreNat
   DEF Init, TeamInv, TypeOK, Subjects, Signing, NothingAhead

\* A step that leaves the versions, the tokens and the cache alone, and moves one
\* request, keeps the invariant if the request's new fields do.
LEMMA MoveKeeps ==
    ASSUME TeamInv, NEW r \in Requests,
           UNCHANGED <<version, issued, cache>>,
           active' \in [Admins -> BOOLEAN], password' \in [Admins -> BOOLEAN],
           invited' \in [Admins -> BOOLEAN], locked' \in [Admins -> BOOLEAN],
           NEW step, NEW a \in Admins \cup {NoAdmin}, NEW v \in Versions,
           NEW b \in Admins \cup {NoAdmin}, NEW n \in Versions,
           pc' = [pc EXCEPT ![r] = step],
           step \in {"idle", "sign", "activate", "get", "fetch", "set", "wait",
                     "admitted", "count", "reactivate", "deactivate", "evict", "invite"},
           who' = [who EXCEPT ![r] = a], held' = [held EXCEPT ![r] = v],
           target' = [target EXCEPT ![r] = b], seen' = [seen EXCEPT ![r] = n],
           step \in {"sign", "activate", "get", "wait", "fetch", "set", "admitted"} => a \in Admins,
           step \in {"count", "reactivate", "deactivate", "evict", "invite"} => b \in Admins,
           step \in {"sign", "activate"} => v <= version[a],
           step = "set" => n <= version[a]
    PROVE  TeamInv'
<1>1. TypeOK'
  BY DEF TeamInv, TypeOK
<1>2. Subjects'
  BY DEF TeamInv, TypeOK, Subjects
<1>3. Signing'
  BY DEF TeamInv, TypeOK, Signing
<1>4. NothingAhead'
  BY DEF TeamInv, TypeOK, NothingAhead
<1> QED BY <1>1, <1>2, <1>3, <1>4 DEF TeamInv

\* The end of a request, whatever it left in the rows that are not versions.
LEMMA FinishKeeps ==
    ASSUME TeamInv, NEW r \in Requests, Finish(r),
           UNCHANGED <<version, issued, cache>>,
           active' \in [Admins -> BOOLEAN], password' \in [Admins -> BOOLEAN],
           invited' \in [Admins -> BOOLEAN], locked' \in [Admins -> BOOLEAN]
    PROVE  TeamInv'
<1>1. 0 \in Versions
  BY VersionsAreNat
<1> QED BY <1>1, MoveKeeps DEF Finish, Goto

\* The gate admits a request about an account, or ends it.
LEMMA JudgeKeeps ==
    ASSUME TeamInv, NEW r \in Requests, NEW v, Judge(r, v), who[r] \in Admins,
           UNCHANGED <<version, issued, cache>>,
           active' \in [Admins -> BOOLEAN], password' \in [Admins -> BOOLEAN],
           invited' \in [Admins -> BOOLEAN], locked' \in [Admins -> BOOLEAN]
    PROVE  TeamInv'
<1>1. CASE v = held[r]
  <2>1. 0 \in Versions
    BY VersionsAreNat
  <2>2. who' = [who EXCEPT ![r] = who[r]] /\ target' = [target EXCEPT ![r] = target[r]]
    BY <1>1 DEF Judge, TeamInv, TypeOK
  <2>3. who[r] \in Admins \cup {NoAdmin} /\ target[r] \in Admins \cup {NoAdmin}
    BY DEF TeamInv, TypeOK
  <2>4. /\ pc' = [pc EXCEPT ![r] = "admitted"]
        /\ held' = [held EXCEPT ![r] = 0] /\ seen' = [seen EXCEPT ![r] = 0]
    BY <1>1 DEF Judge, Goto
  <2> QED BY <2>1, <2>2, <2>3, <2>4, MoveKeeps
<1>2. CASE v # held[r]
  BY <1>2, FinishKeeps DEF Judge
<1> QED BY <1>1, <1>2

\* Bumping a version keeps everything: all the others are bounds from below.
LEMMA BumpKeeps ==
    ASSUME TeamInv, NEW r \in Requests, NEW a \in Admins,
           version[a] < MaxVersion, Bump(a), UNCHANGED <<issued, cache, who, held, seen, locked>>,
           active' \in [Admins -> BOOLEAN], password' \in [Admins -> BOOLEAN],
           invited' \in [Admins -> BOOLEAN],
           pc' = [pc EXCEPT ![r] = "evict"], target' = [target EXCEPT ![r] = a]
    PROVE  TeamInv'
<1> USE VersionsAreNat
<1>1. \A c \in Admins : version'[c] \in Versions /\ version[c] <= version'[c]
  BY TeamAssumption DEF TeamInv, TypeOK, Bump, Versions, TeamAssumption
<1>2. version' \in [Admins -> Versions]
  BY <1>1 DEF TeamInv, TypeOK, Bump
<1>3. TypeOK'
  BY <1>2 DEF TeamInv, TypeOK
<1>4. Subjects'
  BY DEF TeamInv, TypeOK, Subjects
<1>5. \A c \in Admins : version[c] \in Nat /\ version'[c] \in Nat
  BY <1>1 DEF TeamInv, TypeOK
<1>6. Signing'
  <2> SUFFICES ASSUME NEW q \in Requests, pc'[q] \in {"sign", "activate"}
               PROVE  held[q] <= version'[who[q]]
    BY DEF Signing
  <2>1. pc[q] \in {"sign", "activate"}
    BY DEF TeamInv, TypeOK
  <2>2. who[q] \in Admins /\ held[q] <= version[who[q]] /\ held[q] \in Nat
    BY <2>1 DEF TeamInv, TypeOK, Subjects, Signing
  <2> QED BY <1>1, <1>5, <2>2
<1>7. NothingAhead'
  <2>1. ASSUME NEW c \in Admins, cache[c] # NoEntry
        PROVE  cache[c] <= version'[c]
    <3>1. cache[c] <= version[c] /\ cache[c] \in Nat
      BY <2>1 DEF TeamInv, TypeOK, NothingAhead
    <3> QED BY <3>1, <1>1, <1>5
  <2>2. ASSUME NEW q \in Requests, pc'[q] = "set"
        PROVE  seen[q] <= version'[who[q]]
    <3>1. pc[q] = "set"
      BY <2>2 DEF TeamInv, TypeOK
    <3>2. who[q] \in Admins /\ seen[q] <= version[who[q]] /\ seen[q] \in Nat
      BY <3>1 DEF TeamInv, TypeOK, Subjects, NothingAhead
    <3> QED BY <3>2, <1>1, <1>5
  <2>3. ASSUME NEW c \in Admins, NEW v \in issued[c]
        PROVE  v <= version'[c]
    <3>1. v \in Nat /\ v <= version[c]
      BY <2>3 DEF TeamInv, TypeOK, NothingAhead
    <3> QED BY <3>1, <1>1, <1>5
  <2> QED BY <2>1, <2>2, <2>3 DEF NothingAhead
<1> QED BY <1>3, <1>4, <1>6, <1>7 DEF TeamInv

\* Writing back what was there is no change.
LEMMA WriteSame ==
    ASSUME TypeOK, NEW r \in Requests
    PROVE  /\ who = [who EXCEPT ![r] = who[r]] /\ held = [held EXCEPT ![r] = held[r]]
           /\ target = [target EXCEPT ![r] = target[r]] /\ seen = [seen EXCEPT ![r] = seen[r]]
           /\ who[r] \in Admins \cup {NoAdmin} /\ target[r] \in Admins \cup {NoAdmin}
           /\ held[r] \in Versions /\ seen[r] \in Versions
<1>1. who = [who EXCEPT ![r] = who[r]] /\ target = [target EXCEPT ![r] = target[r]]
  BY DEF TypeOK
<1>2. held = [held EXCEPT ![r] = held[r]] /\ seen = [seen EXCEPT ![r] = seen[r]]
  BY DEF TypeOK
<1>3. who[r] \in Admins \cup {NoAdmin} /\ target[r] \in Admins \cup {NoAdmin}
  BY DEF TypeOK
<1>4. held[r] \in Versions /\ seen[r] \in Versions
  BY DEF TypeOK
<1> QED BY <1>1, <1>2, <1>3, <1>4

\* The version of an account that is read now.
LEMMA VersionFits ==
    ASSUME TeamInv, NEW a \in Admins
    PROVE  version[a] \in Versions /\ version[a] <= version[a]
<1>1. version[a] \in Versions
  BY DEF TeamInv, TypeOK
<1>2. version[a] \in Nat
  BY <1>1, VersionsAreNat
<1> QED BY <1>1, <1>2

\* A request that moves on with what it has.
LEMMA GoKeeps ==
    ASSUME TeamInv, NEW r \in Requests, NEW step, Goto(r, step),
           UNCHANGED <<version, issued, cache, who, held, target, seen>>,
           active' \in [Admins -> BOOLEAN], password' \in [Admins -> BOOLEAN],
           invited' \in [Admins -> BOOLEAN], locked' \in [Admins -> BOOLEAN],
           \/ step \in {"wait", "fetch", "sign"} /\ who[r] \in Admins
           \/ step = "deactivate" /\ target[r] \in Admins,
           step = "sign" => held[r] <= version[who[r]]
    PROVE  TeamInv'
<1>t. TypeOK
  BY DEF TeamInv
<1>3. pc' = [pc EXCEPT ![r] = step]
  BY DEF Goto
<1>4. TypeOK'
  <2>1. step \in {"wait", "fetch", "sign", "deactivate"}
    OBVIOUS
  <2> QED BY <1>t, <1>3, <2>1 DEF TypeOK
<1>5. Subjects'
  BY <1>t, <1>3 DEF TeamInv, Subjects, TypeOK
<1>6. Signing'
  BY <1>t, <1>3 DEF TeamInv, Signing, TypeOK
<1>7. NothingAhead'
  BY <1>t, <1>3 DEF TeamInv, NothingAhead, TypeOK
<1> QED BY <1>4, <1>5, <1>6, <1>7 DEF TeamInv

\* A request that starts about an account.
LEMMA StartKeeps ==
    ASSUME TeamInv, NEW r \in Requests, NEW a \in Admins, NEW v \in Versions, NEW step,
           Start(r, a, v, step), UNCHANGED <<dbVars, issued, cacheVars>>,
           \/ step = "get"
           \/ step \in {"sign", "activate"} /\ v <= version[a]
    PROVE  TeamInv'
<1>t. TypeOK
  BY DEF TeamInv
<1>1. target' = [target EXCEPT ![r] = target[r]] /\ seen' = [seen EXCEPT ![r] = seen[r]]
  BY <1>t, WriteSame DEF Start
<1>2. target[r] \in Admins \cup {NoAdmin} /\ seen[r] \in Versions
  BY <1>t, WriteSame
<1>3. /\ pc' = [pc EXCEPT ![r] = step]
      /\ who' = [who EXCEPT ![r] = a] /\ held' = [held EXCEPT ![r] = v]
  BY DEF Start, Goto
<1>4. /\ active' \in [Admins -> BOOLEAN] /\ password' \in [Admins -> BOOLEAN]
      /\ invited' \in [Admins -> BOOLEAN] /\ locked' \in [Admins -> BOOLEAN]
      /\ UNCHANGED <<version, issued, cache>>
  BY <1>t DEF dbVars, cacheVars, TypeOK
<1> QED BY <1>1, <1>2, <1>3, <1>4, MoveKeeps

LEMMA StepKeeps == TeamInv /\ [Next]_vars => TeamInv'
<1> SUFFICES ASSUME TeamInv, [Next]_vars PROVE TeamInv'
  OBVIOUS
<1> USE VersionsAreNat
<1>t. TypeOK
  BY DEF TeamInv
<1>db. ASSUME UNCHANGED <<active, password, invited>>
       PROVE  /\ active' \in [Admins -> BOOLEAN] /\ password' \in [Admins -> BOOLEAN]
              /\ invited' \in [Admins -> BOOLEAN]
  BY <1>db, <1>t DEF TypeOK
<1>lk. ASSUME UNCHANGED locked PROVE locked' \in [Admins -> BOOLEAN]
  BY <1>lk, <1>t DEF TypeOK
<1>1. ASSUME NEW r \in Requests, NEW a \in Admins, Login(r, a) \/ AcceptInvite(r, a)
      PROVE  TeamInv'
  BY <1>1, VersionFits, StartKeeps DEF Login, AcceptInvite
<1>3. ASSUME NEW r \in Requests, NEW a \in Admins, NEW v \in Versions, Request(r, a, v)
      PROVE  TeamInv'
  BY <1>3, StartKeeps DEF Request
<1>4. ASSUME NEW r \in Requests, Sign(r) PROVE TeamInv'
  <2>1. who[r] \in Admins /\ held[r] <= version[who[r]] /\ held[r] \in Versions
    BY <1>4, <1>t DEF Sign, TeamInv, Subjects, Signing, TypeOK
  <2>2. TypeOK'
    BY <1>4, <1>t, <2>1 DEF Sign, Finish, Goto, dbVars, cacheVars, TypeOK
  <2>3. Subjects' /\ Signing'
    BY <1>4, <1>t DEF Sign, Finish, Goto, dbVars, cacheVars, TypeOK, TeamInv, Subjects, Signing
  <2>4. NothingAhead'
    BY <1>4, <1>t, <2>1 DEF Sign, Finish, Goto, dbVars, cacheVars, TypeOK, TeamInv, NothingAhead
  <2> QED BY <2>2, <2>3, <2>4 DEF TeamInv
<1>5. ASSUME NEW r \in Requests, Activate(r) PROVE TeamInv'
  <2>1. who[r] \in Admins /\ held[r] <= version[who[r]]
    BY <1>5 DEF Activate, TeamInv, Subjects, Signing
  <2>2. /\ active' \in [Admins -> BOOLEAN] /\ password' \in [Admins -> BOOLEAN]
        /\ invited' \in [Admins -> BOOLEAN]
    BY <1>5, <1>t DEF Activate, TypeOK
  <2> QED BY <1>5, <1>lk, <2>1, <2>2, GoKeeps DEF Activate, cacheVars
<1>6. ASSUME NEW r \in Requests, GetCached(r) PROVE TeamInv'
  <2>1. who[r] \in Admins
    BY <1>6 DEF GetCached, TeamInv, Subjects
  <2>2. CASE cache[who[r]] # NoEntry
    BY <1>6, <1>db, <1>lk, <2>1, <2>2, JudgeKeeps DEF GetCached, dbVars
  <2>3. CASE cache[who[r]] = NoEntry
    <3>1. locked' \in [Admins -> BOOLEAN]
      BY <1>6, <2>3, <1>t DEF GetCached, TypeOK
    <3>2. CASE locked[who[r]]
      BY <1>6, <1>db, <2>1, <2>3, <3>1, <3>2, GoKeeps DEF GetCached, dbVars
    <3>3. CASE ~locked[who[r]]
      BY <1>6, <1>db, <2>1, <2>3, <3>1, <3>3, GoKeeps DEF GetCached, dbVars
    <3> QED BY <3>2, <3>3
  <2> QED BY <2>2, <2>3
<1>7. ASSUME NEW r \in Requests, Fetch(r) PROVE TeamInv'
  <2>1. who[r] \in Admins
    BY <1>7 DEF Fetch, TeamInv, Subjects
  <2>2. /\ who' = [who EXCEPT ![r] = who[r]] /\ held' = [held EXCEPT ![r] = held[r]]
        /\ target' = [target EXCEPT ![r] = target[r]]
        /\ target[r] \in Admins \cup {NoAdmin} /\ held[r] \in Versions
    BY <1>7, <1>t, WriteSame DEF Fetch
  <2>3. /\ pc' = [pc EXCEPT ![r] = "set"] /\ seen' = [seen EXCEPT ![r] = version[who[r]]]
        /\ version[who[r]] \in Versions /\ version[who[r]] <= version[who[r]]
    BY <1>7, <2>1, VersionFits DEF Fetch, Goto
  <2>4. UNCHANGED <<version, issued, cache, locked, active, password, invited>>
    BY <1>7 DEF Fetch, dbVars, cacheVars
  <2> QED BY <1>db, <1>lk, <2>1, <2>2, <2>3, <2>4, MoveKeeps
<1>8. ASSUME NEW r \in Requests, SetCached(r) PROVE TeamInv'
  <2>1. who[r] \in Admins /\ seen[r] <= version[who[r]] /\ seen[r] \in Versions
    BY <1>8, <1>t DEF SetCached, TeamInv, Subjects, NothingAhead, TypeOK
  <2> DEFINE step == IF seen[r] = held[r] THEN "admitted" ELSE "idle"
  <2>2. step \in {"admitted", "idle"} /\ pc' = [pc EXCEPT ![r] = step]
    BY <1>8 DEF SetCached, Judge, Finish, Goto
  <2>3. /\ who' = [who EXCEPT ![r] = IF step = "admitted" THEN who[r] ELSE NoAdmin]
        /\ target' = [target EXCEPT ![r] = IF step = "admitted" THEN target[r] ELSE NoAdmin]
        /\ held' = [held EXCEPT ![r] = 0] /\ seen' = [seen EXCEPT ![r] = 0]
    BY <1>8, <1>t, WriteSame DEF SetCached, Judge, Finish, Goto
  <2> HIDE DEF step
  <2>4. TypeOK'
    BY <1>8, <1>t, <2>1, <2>2, <2>3 DEF SetCached, dbVars, TypeOK
  <2>5. Subjects' /\ Signing'
    BY <1>8, <1>t, <2>1, <2>2, <2>3 DEF SetCached, dbVars, TypeOK, TeamInv, Subjects, Signing
  <2>6. NothingAhead'
    BY <1>8, <1>t, <2>1, <2>2, <2>3 DEF SetCached, dbVars, TypeOK, TeamInv, NothingAhead
  <2> QED BY <2>4, <2>5, <2>6 DEF TeamInv
<1>9. ASSUME NEW r \in Requests, Poll(r) \/ WaitedLongEnough(r) \/ RedisFails(r)
      PROVE  TeamInv'
  <2>1. who[r] \in Admins
    BY <1>9 DEF Poll, WaitedLongEnough, RedisFails, TeamInv, Subjects
  <2> QED BY <1>9, <1>db, <1>lk, <2>1, JudgeKeeps
          DEF Poll, WaitedLongEnough, RedisFails, dbVars, cacheVars
<1>10. ASSUME NEW r \in Requests, CountAdmins(r) PROVE TeamInv'
  <2>1. target[r] \in Admins
    BY <1>10 DEF CountAdmins, TeamInv, Subjects
  <2>2. CASE Cardinality(ActiveAdmins) <= 1
    BY <1>10, <1>db, <1>lk, <2>2, FinishKeeps DEF CountAdmins, dbVars, cacheVars
  <2>3. CASE ~(Cardinality(ActiveAdmins) <= 1)
    BY <1>10, <1>db, <1>lk, <2>1, <2>3, GoKeeps DEF CountAdmins, dbVars, cacheVars
  <2> QED BY <2>2, <2>3
<1>11. ASSUME NEW r \in Requests, Reactivate(r) \/ WriteInvite(r) \/ Serve(r) \/ Fail(r)
       PROVE  TeamInv'
  <2>1. /\ active' \in [Admins -> BOOLEAN] /\ password' \in [Admins -> BOOLEAN]
        /\ invited' \in [Admins -> BOOLEAN]
    BY <1>11, <1>t DEF Reactivate, WriteInvite, Serve, Fail, dbVars, TypeOK
  <2> QED BY <1>11, <1>lk, <2>1, FinishKeeps
          DEF Reactivate, WriteInvite, Serve, Fail, dbVars, cacheVars
<1>12. ASSUME NEW r \in Requests, Deactivate(r) PROVE TeamInv'
  <2>1. target[r] \in Admins /\ target' = [target EXCEPT ![r] = target[r]]
    BY <1>12, <1>t, WriteSame DEF Deactivate, TeamInv, Subjects
  <2>2. /\ active' \in [Admins -> BOOLEAN] /\ password' \in [Admins -> BOOLEAN]
        /\ invited' \in [Admins -> BOOLEAN]
    BY <1>12, <1>t DEF Deactivate, TypeOK
  <2> QED BY <1>12, <2>1, <2>2, BumpKeeps DEF Deactivate, Goto, cacheVars
<1>13. ASSUME NEW r \in Requests, Logout(r) PROVE TeamInv'
  <2>1. who[r] \in Admins
    BY <1>13 DEF Logout, TeamInv, Subjects
  <2> QED BY <1>13, <1>db, <2>1, BumpKeeps DEF Logout, Goto, cacheVars
<1>14. ASSUME NEW r \in Requests, NEW a \in Admins,
              ReadActivate(r, a) \/ ReadDeactivate(r, a) \/ Invite(r, a)
       PROVE  TeamInv'
  <2>1. PICK step \in {"reactivate", "count", "deactivate", "invite"} :
            pc' = [pc EXCEPT ![r] = step]
    BY <1>14 DEF ReadActivate, ReadDeactivate, Invite, Goto
  <2>2. /\ target' = [target EXCEPT ![r] = a]
        /\ UNCHANGED <<dbVars, issued, cacheVars, who, held, seen>>
    BY <1>14 DEF ReadActivate, ReadDeactivate, Invite
  <2>3. /\ who' = [who EXCEPT ![r] = who[r]] /\ held' = [held EXCEPT ![r] = held[r]]
        /\ seen' = [seen EXCEPT ![r] = seen[r]]
        /\ who[r] \in Admins \cup {NoAdmin} /\ held[r] \in Versions /\ seen[r] \in Versions
    BY <2>2, <1>t, WriteSame
  <2>4. UNCHANGED <<version, issued, cache, locked, active, password, invited>>
    BY <2>2 DEF dbVars, cacheVars
  <2> QED BY <1>db, <1>lk, <2>1, <2>2, <2>3, <2>4, MoveKeeps, ZenonT(60)
<1>15. ASSUME NEW a \in Admins, ExpireCache(a) \/ ExpireLock(a) PROVE TeamInv'
  <2>1. TypeOK' /\ Subjects' /\ Signing'
    BY <1>15, <1>t DEF ExpireCache, ExpireLock, dbVars, procVars, TypeOK, TeamInv, Subjects, Signing
  <2>2. NothingAhead'
    BY <1>15, <1>t DEF ExpireCache, ExpireLock, dbVars, procVars, TypeOK, TeamInv, NothingAhead
  <2> QED BY <2>1, <2>2 DEF TeamInv
<1>16. ASSUME NEW r \in Requests, Evict(r) PROVE TeamInv'
  <2>1. TypeOK'
    BY <1>16, <1>t DEF Evict, Finish, Goto, dbVars, TypeOK
  <2>2. Subjects' /\ Signing'
    BY <1>16, <1>t DEF Evict, Finish, Goto, dbVars, TypeOK, TeamInv, Subjects, Signing
  <2>3. NothingAhead'
    BY <1>16, <1>t DEF Evict, Finish, Goto, dbVars, TypeOK, TeamInv, NothingAhead
  <2> QED BY <2>1, <2>2, <2>3 DEF TeamInv
<1>17. ASSUME UNCHANGED vars PROVE TeamInv'
  <2>1. TypeOK' /\ Subjects'
    BY <1>17, <1>t DEF vars, dbVars, cacheVars, procVars, TypeOK, TeamInv, Subjects
  <2>2. Signing' /\ NothingAhead'
    BY <1>17, <1>t DEF vars, dbVars, cacheVars, procVars, TeamInv, Signing, NothingAhead
  <2> QED BY <2>1, <2>2 DEF TeamInv
<1> QED
  BY <1>1, <1>3, <1>4, <1>5, <1>6, <1>7, <1>8, <1>9, <1>10, <1>11, <1>12, <1>13,
     <1>14, <1>15, <1>16, <1>17
     DEF Next, RequestStep, Admitted

\* The inductive invariant holds in every state, and with it the type of the
\* rows, the cache and the requests.
THEOREM TeamTypeCorrect == Spec => []TypeOK
<1>1. Spec => []TeamInv
  BY InitInv, StepKeeps, PTL DEF Spec
<1>2. TeamInv => TypeOK
  BY DEF TeamInv
<1> QED BY <1>1, <1>2, PTL

\* Nothing cached, read or signed is ahead of the database's token_version, for
\* any number of accounts and of requests that change the team side by side.
THEOREM RevokedStaysRevoked == Spec => []NothingAhead
<1>1. Spec => []TeamInv
  BY InitInv, StepKeeps, PTL DEF Spec
<1>2. TeamInv => NothingAhead
  BY DEF TeamInv
<1> QED BY <1>1, <1>2, PTL

-----------------------------------------------------------------------------
(* The last admin.                                                         *)

OneAtATime == \A r, q \in TeamRequests : r = q

Changing == {"count", "reactivate", "deactivate", "invite"}

\* Who may sign in has a password; a request that is about to switch somebody off
\* has seen another one who stays, and nobody else can take that one away.
SomebodyStays ==
    /\ \E a \in Admins : active[a]
    /\ \A a \in Admins : active[a] => password[a]
    /\ \A r \in Requests :
          /\ pc[r] \in Changing => r \in TeamRequests
          /\ pc[r] = "reactivate" => password[target[r]]
          /\ pc[r] \in {"deactivate", "invite"} => \E b \in Admins \ {target[r]} : active[b]

\* A step after which everybody who was active still is, and which takes its
\* request to a place where it does not change the team.
LEMMA NobodyLost ==
    ASSUME TypeOK, SomebodyStays, NEW r \in Requests, NEW step,
           pc' = [pc EXCEPT ![r] = step], step \notin Changing,
           \A q \in Requests \ {r} : target'[q] = target[q],
           \A a \in Admins : /\ active[a] => active'[a]
                             /\ password[a] => password'[a]
                             /\ active'[a] => password'[a],
           Subjects
    PROVE  SomebodyStays'
<1>1. \E a \in Admins : active'[a]
  BY DEF SomebodyStays
<1>2. ASSUME NEW q \in Requests
      PROVE  /\ pc'[q] \in Changing => q \in TeamRequests
             /\ pc'[q] = "reactivate" => password'[target'[q]]
             /\ pc'[q] \in {"deactivate", "invite"} =>
                   \E b \in Admins \ {target'[q]} : active'[b]
  <2>1. CASE q = r
    BY <2>1 DEF TypeOK, Changing
  <2>2. CASE q # r
    <3>1. pc'[q] = pc[q] /\ target'[q] = target[q]
      BY <2>2 DEF TypeOK
    <3>2. pc[q] \in Changing => target[q] \in Admins
      BY DEF Subjects, Changing
    <3> QED BY <3>1, <3>2 DEF SomebodyStays, Changing
  <2> QED BY <2>1, <2>2
<1> QED BY <1>1, <1>2 DEF SomebodyStays

\* A step of a team request that switches its target off: the one it has seen
\* stays, and no other request was about to do the same.
LEMMA AnotherStays ==
    ASSUME OneAtATime, TypeOK, SomebodyStays, Subjects, NEW r \in Requests,
           pc[r] \in {"deactivate", "invite"}, NEW step, step \notin Changing,
           pc' = [pc EXCEPT ![r] = step],
           active' = [active EXCEPT ![target[r]] = FALSE], password' = password
    PROVE  SomebodyStays'
<1>1. r \in TeamRequests /\ target[r] \in Admins
  BY DEF SomebodyStays, Subjects, Changing
<1>2. PICK b \in Admins \ {target[r]} : active[b]
  BY DEF SomebodyStays
<1>3. active'[b]
  BY <1>2 DEF TypeOK
<1>4. \A a \in Admins : active'[a] => password'[a]
  BY <1>1 DEF SomebodyStays, TypeOK
<1>5. ASSUME NEW q \in Requests PROVE pc'[q] \notin Changing
  <2>1. CASE q = r
    BY <2>1 DEF TypeOK
  <2>2. CASE q # r
    BY <1>1, <2>2 DEF SomebodyStays, OneAtATime, TypeOK
  <2> QED BY <2>1, <2>2
<1> QED BY <1>2, <1>3, <1>4, <1>5 DEF SomebodyStays, Changing

\* More than one active admin: one who is not the target.
LEMMA CountLeavesAnother ==
    ASSUME IsFiniteSet(Admins), ~(Cardinality(ActiveAdmins) <= 1), NEW t
    PROVE  \E b \in Admins \ {t} : active[b]
<1>1. IsFiniteSet(ActiveAdmins)
  BY FS_Subset DEF ActiveAdmins
<1> SUFFICES ASSUME ActiveAdmins \subseteq {t} PROVE FALSE
  BY DEF ActiveAdmins
<1>2. Cardinality({t}) = 1 /\ IsFiniteSet({t})
  BY FS_Singleton
<1>3. Cardinality(ActiveAdmins) <= Cardinality({t})
  BY <1>2, FS_Subset
<1> QED BY <1>2, <1>3

LEMMA SomebodyStaysNext ==
    ASSUME OneAtATime, IsFiniteSet(Admins), TeamInv, SomebodyStays, [Next]_vars
    PROVE  SomebodyStays'
<1>t. TypeOK /\ Subjects
  BY DEF TeamInv
<1>same. ASSUME UNCHANGED <<active, password>>
         PROVE  \A a \in Admins : /\ active[a] => active'[a]
                                  /\ password[a] => password'[a]
                                  /\ active'[a] => password'[a]
  BY <1>same DEF SomebodyStays
<1>1. ASSUME NEW r \in Requests, NEW a \in Admins, NEW v, NEW step \in {"sign", "activate", "get"},
             Start(r, a, v, step), UNCHANGED dbVars
      PROVE  SomebodyStays'
  BY <1>1, <1>t, <1>same, NobodyLost DEF Start, Goto, dbVars, Changing
<1>2. ASSUME NEW r \in Requests, Finish(r), UNCHANGED dbVars
      PROVE  SomebodyStays'
  <2>1. \A q \in Requests \ {r} : target'[q] = target[q]
    BY <1>2, <1>t DEF Finish, TypeOK
  <2> QED BY <1>2, <1>t, <1>same, <2>1, NobodyLost DEF Finish, Goto, dbVars, Changing
<1>3. ASSUME NEW r \in Requests, NEW step \in {"wait", "fetch", "set", "admitted"}, Goto(r, step),
             UNCHANGED <<dbVars, target>>
      PROVE  SomebodyStays'
  BY <1>3, <1>t, <1>same, NobodyLost DEF Goto, dbVars, Changing
<1>4. ASSUME NEW r \in Requests, NEW v, Judge(r, v), UNCHANGED dbVars
      PROVE  SomebodyStays'
  BY <1>2, <1>3, <1>4 DEF Judge
<1>5. ASSUME NEW r \in Requests, NEW a \in Admins, Login(r, a) \/ AcceptInvite(r, a)
      PROVE  SomebodyStays'
  BY <1>1, <1>5 DEF Login, AcceptInvite
<1>6. ASSUME NEW r \in Requests, NEW a \in Admins, NEW v, Request(r, a, v)
      PROVE  SomebodyStays'
  BY <1>1, <1>6 DEF Request
<1>7. ASSUME NEW r \in Requests, Sign(r) \/ Serve(r) \/ Fail(r) \/ Evict(r)
      PROVE  SomebodyStays'
  BY <1>2, <1>7 DEF Sign, Serve, Fail, Evict
<1>8. ASSUME NEW r \in Requests, Activate(r) PROVE SomebodyStays'
  <2>1. \A a \in Admins : /\ active[a] => active'[a]
                          /\ password[a] => password'[a]
                          /\ active'[a] => password'[a]
    BY <1>8, <1>t DEF Activate, TypeOK, SomebodyStays
  <2> QED BY <1>8, <1>t, <2>1, NobodyLost DEF Activate, Goto, Changing
<1>9. ASSUME NEW r \in Requests,
             \/ GetCached(r) \/ Fetch(r) \/ SetCached(r) \/ Poll(r)
             \/ WaitedLongEnough(r) \/ RedisFails(r)
      PROVE  SomebodyStays'
  BY <1>3, <1>4, <1>9
     DEF GetCached, Fetch, SetCached, Poll, WaitedLongEnough, RedisFails
<1>10. ASSUME NEW r \in Requests, Logout(r) PROVE SomebodyStays'
  <2>1. UNCHANGED <<active, password>> /\ \A q \in Requests \ {r} : target'[q] = target[q]
    BY <1>10, <1>t DEF Logout, TypeOK
  <2> QED BY <1>10, <1>t, <1>same, <2>1, NobodyLost DEF Logout, Goto, Changing
<1>11. ASSUME NEW r \in Requests, Reactivate(r) PROVE SomebodyStays'
  <2>1. target[r] \in Admins /\ password[target[r]]
    BY <1>11, <1>t DEF Reactivate, SomebodyStays, Subjects
  <2>2. \A a \in Admins : /\ active[a] => active'[a]
                          /\ password[a] => password'[a]
                          /\ active'[a] => password'[a]
    BY <1>11, <1>t, <2>1 DEF Reactivate, TypeOK, SomebodyStays
  <2>3. \A q \in Requests \ {r} : target'[q] = target[q]
    BY <1>11, <1>t DEF Reactivate, Finish, TypeOK
  <2> QED BY <1>11, <1>t, <2>2, <2>3, NobodyLost DEF Reactivate, Finish, Goto, Changing
<1>12. ASSUME NEW r \in Requests, Deactivate(r) \/ WriteInvite(r) PROVE SomebodyStays'
  BY <1>12, <1>t, AnotherStays DEF Deactivate, WriteInvite, Finish, Goto, Changing
<1>13. ASSUME NEW r \in Requests, CountAdmins(r) PROVE SomebodyStays'
  <2>1. CASE Cardinality(ActiveAdmins) <= 1
    BY <1>2, <1>13, <2>1 DEF CountAdmins
  <2>2. CASE ~(Cardinality(ActiveAdmins) <= 1)
    <3>1. /\ pc' = [pc EXCEPT ![r] = "deactivate"]
          /\ UNCHANGED <<active, password, target>>
      BY <1>13, <2>2 DEF CountAdmins, Goto, dbVars
    <3>2. \E b \in Admins \ {target[r]} : active[b]
      BY <2>2, CountLeavesAnother
    <3>3. r \in TeamRequests
      BY <1>13 DEF CountAdmins, SomebodyStays, Changing
    <3> QED BY <1>t, <3>1, <3>2, <3>3 DEF SomebodyStays, Changing, TypeOK
  <2> QED BY <2>1, <2>2
<1>14. ASSUME NEW r \in Requests, NEW a \in Admins,
              ReadActivate(r, a) \/ ReadDeactivate(r, a) \/ Invite(r, a)
       PROVE  SomebodyStays'
  <2>1. PICK step \in Changing :
            /\ pc' = [pc EXCEPT ![r] = step]
            /\ step = "reactivate" => password[a]
            /\ step \in {"deactivate", "invite"} => ~active[a] \/ ~password[a]
    BY <1>14 DEF ReadActivate, ReadDeactivate, Invite, Goto, Changing
  <2>2. /\ r \in TeamRequests /\ target' = [target EXCEPT ![r] = a]
        /\ UNCHANGED <<active, password>>
    BY <1>14 DEF ReadActivate, ReadDeactivate, Invite, dbVars
  <2>3. step \in {"deactivate", "invite"} => \E b \in Admins \ {a} : active[b]
    BY <2>1 DEF SomebodyStays
  <2>4. ASSUME NEW q \in Requests
        PROVE  /\ pc'[q] \in Changing => q \in TeamRequests
               /\ pc'[q] = "reactivate" => password[target'[q]]
               /\ pc'[q] \in {"deactivate", "invite"} =>
                     \E b \in Admins \ {target'[q]} : active[b]
    <3>1. CASE q = r
      BY <1>t, <2>1, <2>2, <2>3, <3>1 DEF TypeOK
    <3>2. CASE q # r
      BY <1>t, <2>1, <2>2, <3>2 DEF TypeOK, SomebodyStays
    <3> QED BY <3>1, <3>2
  <2> QED BY <2>2, <2>4 DEF SomebodyStays
<1>15. ASSUME NEW a \in Admins, ExpireCache(a) \/ ExpireLock(a) PROVE SomebodyStays'
  BY <1>15 DEF ExpireCache, ExpireLock, dbVars, procVars, SomebodyStays
<1>16. ASSUME UNCHANGED vars PROVE SomebodyStays'
  BY <1>16 DEF vars, dbVars, procVars, SomebodyStays
<1> QED
  BY <1>5, <1>6, <1>7, <1>8, <1>9, <1>10, <1>11, <1>12, <1>13, <1>14, <1>15, <1>16
     DEF Next, RequestStep, Admitted

\* admin-users.service.ts setActive and invite: while one request at a time changes
\* the team, some admin with a password stays active, whoever signs in, accepts an
\* invitation, is let in by a stale cache, or fails half way, for any number of
\* accounts and other requests.
THEOREM LastAdminKept ==
    ASSUME OneAtATime, IsFiniteSet(Admins)
    PROVE  Spec => []LastAdminStays
<1>1. Init => SomebodyStays
  <2> SUFFICES ASSUME Init PROVE SomebodyStays
    OBVIOUS
  <2>1. PICK f \in Founders : f \in Admins
    BY TeamAssumption DEF TeamAssumption
  <2>2. active[f]
    BY <2>1 DEF Init
  <2>3. \A a \in Admins : active[a] => password[a]
    BY DEF Init
  <2>4. \A r \in Requests : pc[r] = "idle"
    BY DEF Init
  <2> QED BY <2>1, <2>2, <2>3, <2>4 DEF SomebodyStays, Changing
<1>2. TeamInv /\ SomebodyStays /\ [Next]_vars => SomebodyStays'
  BY SomebodyStaysNext
<1>3. SomebodyStays => LastAdminStays
  BY DEF SomebodyStays, LastAdminStays
<1> QED BY InitInv, StepKeeps, <1>1, <1>2, <1>3, PTL DEF Spec

=============================================================================
