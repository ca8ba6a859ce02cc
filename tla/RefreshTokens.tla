---------------------------- MODULE RefreshTokens ----------------------------
(***************************************************************************)
(* The sessions of members.  A device holds a refresh token and exchanges  *)
(* it for the next one whenever its access token has lapsed.  The exchange *)
(* reads the row, revokes it and inserts another, each in a statement of   *)
(* its own and without a transaction; a token whose row is found revoked   *)
(* counts as reused, and every session of its member is ended.             *)
(*                                                                         *)
(* The client is external: it keeps the token of the last answer, for all  *)
(* its tabs, and drops it when it is told to log in again.  A token no     *)
(* device holds and no request carries cannot be presented any more, and   *)
(* its row stands for that of the next token.  Nothing in src/ deactivates *)
(* or deletes a member, so verify's "not found" and refresh's "no longer   *)
(* active" do not happen.                                                  *)
(***************************************************************************)
EXTENDS Naturals, FiniteSets

CONSTANTS
    Members,
    Devices,
    Tabs,           \* what sends requests, one at a time each
    DeviceOf,       \* which device the tab is open on
    Tokens,
    NoToken, NoMember,
    MaxGlitches,    \* bound: failing requests, lost answers and overlapping requests
    MaxExpiries     \* bound: tokens that reach expires_at unused

ASSUME RefreshTokensAssumption ==
    /\ DeviceOf \in [Tabs -> Devices]
    /\ NoToken \notin Tokens /\ NoMember \notin Members
    /\ {MaxGlitches, MaxExpiries} \subseteq Nat

VARIABLES
    user,       \* whose device it is, for good
    row,        \* member_refresh_tokens: what revoked_at and expires_at say
    owner,      \* member_refresh_tokens.member_id
    held,       \* the token each device keeps
    pc,         \* of the request of each tab
    carried,    \* the token that was presented, then the one to be answered
    spent,      \* tokens already exchanged, or issued before a reuse was seen
    late,       \* tabs whose request presented a token that was spent by then
    alarmed,    \* members for whom a reuse was seen
    glitched,   \* members with a failed, unanswered or overlapping request
    glitches, expiries

vars == <<user, row, owner, held, pc, carried, spent, late, alarmed, glitched, glitches, expiries>>
tableVars == <<row, owner>>
boundVars == <<glitched, glitches, expiries>>

Whose(q) == user[DeviceOf[q]]
Carrying(t) == \E q \in Tabs : carried[q] = t
Fresh == {t \in Tokens : (\A d \in Devices : held[d] # t) /\ ~Carrying(t)}
\* Mutant: revokeAll without its condition on member_id.
LiveOfAnybody(m) == {t \in Tokens : row[t] \in {"active", "expired"}}

Live(m) == {t \in Tokens : owner[t] = m /\ row[t] \in {"active", "expired"}}

Init ==
    /\ user \in [Devices -> Members]
    /\ row = [t \in Tokens |-> "none"]
    /\ owner = [t \in Tokens |-> NoMember]
    /\ held = [d \in Devices |-> NoToken]
    /\ pc = [q \in Tabs |-> "idle"]
    /\ carried = [q \in Tabs |-> NoToken]
    /\ spent = {} /\ late = {} /\ alarmed = {} /\ glitched = {}
    /\ glitches = 0 /\ expiries = 0

Glitch(m) ==
    /\ glitches < MaxGlitches
    /\ glitches' = glitches + 1
    /\ glitched' = glitched \cup {m}
    /\ UNCHANGED expiries

\* A tab sends a request: that another of its device has one under way is a glitch.
Sends(q) ==
    /\ pc[q] = "idle"
    /\ IF \E r \in Tabs : DeviceOf[r] = DeviceOf[q] /\ pc[r] # "idle"
       THEN Glitch(Whose(q))
       ELSE UNCHANGED boundVars

Done(q) ==
    /\ pc' = [pc EXCEPT ![q] = "idle"]
    /\ carried' = [carried EXCEPT ![q] = NoToken]
    /\ late' = late \ {q}

\* issue: which of the unguessable values comes next makes no difference.
NewToken(q) ==
    /\ Fresh # {}
    /\ LET t == CHOOSE t \in Fresh : TRUE IN
       /\ row' = [row EXCEPT ![t] = "active"]
       /\ owner' = [owner EXCEPT ![t] = Whose(q)]
       /\ carried' = [carried EXCEPT ![q] = t]
       /\ spent' = (spent \cup {carried[q]}) \ {t, NoToken}
    /\ pc' = [pc EXCEPT ![q] = "answer"]

-----------------------------------------------------------------------------
\* POST /auth/verify-otp, once the code was right (SignIn.tla).
SignIn(q) ==
    /\ held[DeviceOf[q]] = NoToken
    /\ Sends(q)
    /\ NewToken(q)
    /\ UNCHANGED <<held, late, alarmed>>

\* Mutant: verify looks at expires_at only.
ReadUnexpired(q) ==
    /\ held[DeviceOf[q]] # NoToken
    /\ Sends(q)
    /\ LET t == held[DeviceOf[q]] IN
       /\ carried' = [carried EXCEPT ![q] = t]
       /\ pc' = [pc EXCEPT ![q] = IF row[t] = "expired" THEN "refused" ELSE "revoke"]
       /\ late' = IF t \in spent THEN late \cup {q} ELSE late
    /\ UNCHANGED <<tableVars, held, spent, alarmed>>

\* POST /auth/refresh up to what verify's SELECT leads to.
Read(q) ==
    /\ held[DeviceOf[q]] # NoToken
    /\ Sends(q)
    /\ LET t == held[DeviceOf[q]] IN
       /\ carried' = [carried EXCEPT ![q] = t]
       /\ pc' = [pc EXCEPT ![q] = CASE row[t] = "revoked" -> "revokeAll"
                                    [] row[t] = "active" -> "revoke"
                                    [] OTHER -> "refused"]
       /\ late' = IF t \in spent THEN late \cup {q} ELSE late
    /\ UNCHANGED <<tableVars, held, spent, alarmed>>

\* Mutant: The UPDATE of verify finds no row.
RevokeNothing(q) ==
    /\ pc[q] = "revoke"
    /\ pc' = [pc EXCEPT ![q] = "issue"]
    /\ UNCHANGED <<tableVars, held, carried, spent, late, alarmed, boundVars>>

\* The UPDATE goes by id: it does not look at revoked_at again.
Revoke(q) ==
    /\ pc[q] = "revoke"
    /\ row' = [row EXCEPT ![carried[q]] = "revoked"]
    /\ pc' = [pc EXCEPT ![q] = "issue"]
    /\ UNCHANGED <<owner, held, carried, spent, late, alarmed, boundVars>>

\* Mutant: verify revokes all tokens of the member, and only once the next is issued.
IssueThenRevoke(q) ==
    /\ pc[q] = "issue" /\ Fresh # {}
    /\ LET t == CHOOSE t \in Fresh : TRUE IN
       /\ row' = [row EXCEPT ![t] = "revoked"]
       /\ owner' = [owner EXCEPT ![t] = Whose(q)]
       /\ carried' = [carried EXCEPT ![q] = t]
       /\ spent' = (spent \cup {carried[q]}) \ {t}
    /\ pc' = [pc EXCEPT ![q] = "answer"]
    /\ UNCHANGED <<held, late, alarmed, boundVars>>

Issue(q) ==
    /\ pc[q] = "issue"
    /\ NewToken(q)
    /\ UNCHANGED <<held, late, alarmed, boundVars>>

RevokeAll(q) ==
    /\ pc[q] = "revokeAll"
    /\ LET m == owner[carried[q]] IN
       /\ row' = [t \in Tokens |-> IF t \in Live(m) THEN "revoked" ELSE row[t]]
       /\ spent' = spent \cup {t \in Tokens : owner[t] = m}
       /\ alarmed' = alarmed \cup {m}
    /\ pc' = [pc EXCEPT ![q] = "refused"]
    /\ UNCHANGED <<owner, held, carried, late, boundVars>>

\* 401, log in again: a device that has got another token since may keep it.
Refused(q) ==
    /\ pc[q] = "refused"
    /\ \/ held' = [held EXCEPT ![DeviceOf[q]] = NoToken]
       \/ held[DeviceOf[q]] # carried[q] /\ UNCHANGED held
    /\ Done(q)
    /\ UNCHANGED <<tableVars, spent, alarmed, boundVars>>

Answer(q) ==
    /\ pc[q] = "answer"
    /\ held' = [held EXCEPT ![DeviceOf[q]] = carried[q]]
    /\ Done(q)
    /\ UNCHANGED <<tableVars, spent, alarmed, boundVars>>

\* A statement fails, the process dies or the answer is lost: the device keeps
\* what it had.
Fail(q) ==
    /\ pc[q] # "idle"
    /\ Glitch(Whose(q))
    /\ Done(q)
    /\ UNCHANGED <<user, tableVars, held, spent, alarmed>>

\* Thirty days pass.
Expire(t) ==
    /\ expiries < MaxExpiries
    /\ row[t] = "active"
    /\ row' = [row EXCEPT ![t] = "expired"]
    /\ expiries' = expiries + 1
    /\ UNCHANGED <<user, owner, held, pc, carried, spent, late, alarmed, glitched, glitches>>

Serve(q) ==
    /\ Revoke(q) \/ Issue(q) \/ RevokeAll(q) \/ Refused(q) \/ Answer(q)
    /\ UNCHANGED user
Use(d) ==
    /\ \E q \in Tabs : DeviceOf[q] = d /\ (SignIn(q) \/ Read(q))
    /\ UNCHANGED user

Next ==
    \/ \E d \in Devices : Use(d)
    \/ \E q \in Tabs : Serve(q) \/ Fail(q)
    \/ \E t \in Tokens : Expire(t)

Spec == Init /\ [][Next]_vars

\* A request that nothing fails runs to its end.
FairSpec == Spec /\ \A q \in Tabs : WF_vars(Serve(q))
-----------------------------------------------------------------------------
TypeOK ==
    /\ row \in [Tokens -> {"none", "active", "expired", "revoked"}]
    /\ owner \in [Tokens -> Members \cup {NoMember}]
    /\ held \in [Devices -> Tokens \cup {NoToken}]
    /\ pc \in [Tabs -> {"idle", "revoke", "issue", "revokeAll", "refused", "answer"}]
    /\ carried \in [Tabs -> Tokens \cup {NoToken}]
    /\ spent \subseteq Tokens /\ late \subseteq Tabs
    /\ alarmed \subseteq Members /\ glitched \subseteq Members
    /\ glitches \in 0 .. MaxGlitches /\ expiries \in 0 .. MaxExpiries

\* A token that has been exchanged, or was issued before a reuse was seen,
\* obtains nothing for whoever presents it from then on.  Only a request that
\* had read the row before may still be answered: verify's SELECT and UPDATE
\* are apart (refresh-token.service.ts, 57-86).
SpentForGood == \A q \in late : pc[q] \in {"revokeAll", "refused"}

\* A member's sessions are ended as stolen only if a request of that member
\* had failed, gone unanswered or overlapped another, whatever the devices of
\* others do: a client that refreshes in turn is never taken for a thief.
AlarmHasACause == alarmed \subseteq glitched

\* A session nobody holds stays open only after a failed, unanswered or
\* overlapping request: rotation itself leaves no live token behind.
StraysHaveACause ==
    \A t \in Fresh : row[t] = "active" => owner[t] \in glitched

\* From the time on a member keeps to one device and goes on using it, its
\* session is lost only finitely often: whatever went wrong before, a reuse is
\* seen, the member logs in again and stays so.  (Two devices may end each
\* other's sessions for ever: a token that revokeAll has revoked, and nobody
\* has used, counts as reused when its device presents it.)
Open(d) ==
    /\ held[d] # NoToken
    /\ \/ row[held[d]] = "active"
       \/ \E q \in Tabs : DeviceOf[q] = d /\ pc[q] \in {"issue", "answer"}
SettlesOnOne ==
    \A d \in Devices :
        /\ WF_vars(Use(d))
        /\ <>[][\A e \in Devices \ {d} : user[e] = user[d] => ~Use(e)]_vars
        => <>[]Open(d)
=============================================================================
