------------------------------- MODULE SignIn -------------------------------
(***************************************************************************)
(* How members join a church and sign in: a six-digit code is put in Redis *)
(* and in otp_tokens and sent by email; whoever enters it is looked up or  *)
(* registered, and the code is spent.  Redis is asked first and may lose   *)
(* its key, otp_tokens decides otherwise; neither is written together with *)
(* the other, nor a read with the write that follows from it.              *)
(*                                                                         *)
(* One church.  People share nothing but its numbering, so those in People *)
(* are followed step by step and of all others only that they join.  A     *)
(* person enters the last code that arrived, or mistypes, as a member or   *)
(* for an admin account of the same address (verifyEmail, resetPassword);  *)
(* what becomes of that account is not state here.  Codes of one person    *)
(* that are about at the same time differ.  The demo account is left out;  *)
(* Redis and the mail service are external.                                *)
(***************************************************************************)
EXTENDS Naturals, Sequences, FiniteSets

CONSTANTS
    People,         \* whose sign-in is followed
    Requests,
    Senders,        \* the requests among them that may ask for a code
    RateLimit,      \* RATE_LIMIT_MAX
    MaxAttempts,    \* MAX_ATTEMPTS
    MaxOthers,      \* bound: other people who join
    MaxFaults       \* bound: failures, mistakes and overlapping requests

ASSUME SignInAssumption ==
    /\ IsFiniteSet(People) /\ People # {} /\ IsFiniteSet(Requests)
    /\ Senders \subseteq Requests
    /\ {RateLimit, MaxAttempts, MaxOthers, MaxFaults} \subseteq Nat /\ RateLimit > 0

NoCode == 0
\* Enough to tell apart what can be about: the rows, the codes in Redis, in the
\* inbox and last spent, and those of the requests.
Codes == 1 .. RateLimit + 2 * Cardinality(Requests) + 4
Wrong == Cardinality(Codes) + 1

VARIABLES
    otp,        \* otp_tokens of each person not older than 15 minutes
    redis,      \* Redis otp:{email}
    kept,       \* people whose key Redis has kept although it was told to delete it
    inbox,      \* the last code that arrived
    member,     \* members: the number in member_code, or 0 without a row
    others,     \* the numbers of everybody else
    pc, req,    \* requests: next step, and what they carry
    spent,      \* the code each person last signed in with
    used        \* faults so far

vars == <<otp, redis, kept, inbox, member, others, pc, req, spent, used>>
memberVars == <<member, others>>
keyVars == <<redis, kept>>
requestVars == <<pc, req>>

NoRequest == [of |-> CHOOSE m \in People : TRUE, code |-> NoCode, count |-> 0]

Init ==
    /\ otp = [m \in People |-> <<>>]
    /\ redis = [m \in People |-> NoCode]
    /\ kept = {}
    /\ inbox = [m \in People |-> NoCode]
    /\ member = [m \in People |-> 0]
    /\ others = {}
    /\ pc = [c \in Requests |-> "idle"]
    /\ req = [c \in Requests |-> NoRequest]
    /\ spent = [m \in People |-> NoCode]
    /\ used = 0

Goto(c, step) == pc' = [pc EXCEPT ![c] = step]
Finish(c) == Goto(c, "idle") /\ req' = [req EXCEPT ![c] = NoRequest]
Fault == used < MaxFaults /\ used' = used + 1

Busy(m) == \E c \in Requests : pc[c] # "idle" /\ req[c].of = m
\* What a request of the same person may run into counts as a fault: requests
\* are short beside ten minutes.
Beside(m) == IF Busy(m) THEN Fault ELSE UNCHANGED used

-----------------------------------------------------------------------------
(* otp_tokens and auth.repository.ts.                                      *)

Active(row) == ~row.used /\ row.fresh
ActiveRows(m) == {i \in DOMAIN otp[m] : Active(otp[m][i])}
HasActive(m) == ActiveRows(m) # {}
\* getActiveOtp: ORDER BY created_at DESC LIMIT 1.
Latest(m) == CHOOSE i \in ActiveRows(m) : \A j \in ActiveRows(m) : j <= i

\* Ten minutes after it was made a code expires; after fifteen its row no longer
\* counts.
Age(m) ==
    /\ \/ /\ otp[m] # <<>> /\ ~otp[m][1].fresh
          /\ otp' = [otp EXCEPT ![m] = Tail(@)]
          /\ inbox' = [inbox EXCEPT ![m] = IF @ = otp[m][1].code THEN NoCode ELSE @]
          /\ UNCHANGED used
       \/ \E i \in DOMAIN otp[m] :
             /\ otp[m][i].fresh /\ \A j \in 1 .. i - 1 : ~otp[m][j].fresh
             /\ otp' = [otp EXCEPT ![m][i].fresh = FALSE]
             /\ IF otp[m][i].used THEN UNCHANGED used ELSE Beside(m)
             /\ UNCHANGED inbox
    /\ UNCHANGED <<keyVars, memberVars, requestVars, spent>>

\* The key's time to live ends, or Redis evicts it.
LoseKey(m) ==
    /\ redis[m] # NoCode
    /\ redis' = [redis EXCEPT ![m] = NoCode]
    /\ kept' = kept \ {m}
    /\ UNCHANGED <<otp, inbox, memberVars, requestVars, spent, used>>

-----------------------------------------------------------------------------
(* POST /auth/send-otp, an admin's registration or POST                    *)
(* /auth/admin/forgot-password: otp.service.ts send.                       *)

\* Any code that is not about, as a random one would be.
NewCode(m) ==
    LET about == {otp[m][i].code : i \in DOMAIN otp[m]}
                 \cup {redis[m], inbox[m], spent[m]}
                 \cup {req[c].code : c \in {d \in Requests : req[d].of = m}}
        free  == Codes \ about
    IN  CHOOSE k \in free : \A j \in free : k <= j

\* countRecentOtps is read before the code is made and stored.
SendOtp(c, m) ==
    /\ pc[c] = "idle" /\ c \in Senders
    /\ Len(otp[m]) < RateLimit
    /\ Beside(m)
    /\ req' = [req EXCEPT ![c].of = m, ![c].code = NewCode(m)]
    /\ Goto(c, "putRedis")
    /\ UNCHANGED <<otp, keyVars, inbox, memberVars, spent>>

PutRedis(c) ==
    /\ pc[c] = "putRedis"
    /\ redis' = [redis EXCEPT ![req[c].of] = req[c].code]
    /\ kept' = kept \ {req[c].of}
    /\ Goto(c, "retire")
    /\ UNCHANGED <<otp, inbox, memberVars, req, spent, used>>

\* saveOtp marks the codes in force as used ...
Retire(c) ==
    /\ pc[c] = "retire"
    /\ otp' = [otp EXCEPT ![req[c].of] = [i \in DOMAIN @ |->
                  IF Active(@[i]) THEN [@[i] EXCEPT !.used = TRUE] ELSE @[i]]]
    /\ Goto(c, "insert")
    /\ UNCHANGED <<keyVars, inbox, memberVars, req, spent, used>>

Row(k) == [code |-> k, attempts |-> 0, used |-> FALSE, fresh |-> TRUE]

\* (Mutant: ten minutes in the wrong unit.)
InsertStale(c) ==
    /\ pc[c] = "insert"
    /\ otp' = [otp EXCEPT ![req[c].of] = Append(@, [Row(req[c].code) EXCEPT !.fresh = FALSE])]
    /\ Goto(c, "deliver")
    /\ UNCHANGED <<keyVars, inbox, memberVars, req, spent, used>>

\* ... and inserts the new one.
Insert(c) ==
    /\ pc[c] = "insert"
    /\ otp' = [otp EXCEPT ![req[c].of] = Append(@, Row(req[c].code))]
    /\ Goto(c, "deliver")
    /\ UNCHANGED <<keyVars, inbox, memberVars, req, spent, used>>

Deliver(c) ==
    /\ pc[c] = "deliver"
    /\ inbox' = [inbox EXCEPT ![req[c].of] = req[c].code]
    /\ Finish(c)
    /\ UNCHANGED <<otp, keyVars, memberVars, spent, used>>

-----------------------------------------------------------------------------
(* POST /auth/verify-otp, and verifyEmail and resetPassword of             *)
(* admin-auth.service.ts.                                                  *)

Verify(c, m, k) ==
    /\ pc[c] = "idle"
    /\ \/ k = inbox[m] /\ k # NoCode /\ Beside(m)
       \/ k = Wrong /\ inbox[m] # NoCode /\ Fault
    /\ req' = [req EXCEPT ![c] = [of |-> m, code |-> k, count |-> 0]]
    /\ Goto(c, "askRedis")
    /\ UNCHANGED <<otp, keyVars, inbox, memberVars, spent>>

\* checkValid: the code in Redis is enough ...
AskRedis(c) ==
    /\ pc[c] = "askRedis"
    /\ Goto(c, IF redis[req[c].of] = req[c].code THEN "find" ELSE "askTable")
    /\ UNCHANGED <<otp, keyVars, inbox, memberVars, req, spent, used>>

\* ... another one, or none, leaves it to the row in force.  A wrong entry counts
\* against that row, and one too many locks it.
AskTable(c) ==
    LET m == req[c].of IN
    /\ pc[c] = "askTable"
    /\ IF ~HasActive(m) THEN Finish(c) /\ UNCHANGED otp
       ELSE LET row == otp[m][Latest(m)] IN
            IF row.code = req[c].code THEN Goto(c, "find") /\ UNCHANGED <<otp, req>>
            ELSE /\ otp' = [otp EXCEPT ![m][Latest(m)] =
                        [row EXCEPT !.attempts = @ + 1, !.used = row.attempts + 1 > MaxAttempts]]
                 /\ Finish(c)
    /\ UNCHANGED <<keyVars, inbox, memberVars, spent, used>>

Registered == {m \in People : member[m] # 0}
MemberCount == Cardinality(Registered) + Cardinality(others)
CodeTaken(n) == n \in others \/ \E m \in People : member[m] = n

\* Somebody else joins, whose INSERT finds the number still free.
OtherJoins ==
    /\ Cardinality(others) < MaxOthers
    /\ ~CodeTaken(MemberCount + 1)
    /\ others' = others \cup {MemberCount + 1}
    /\ UNCHANGED <<otp, keyVars, inbox, member, requestVars, spent, used>>

Proceed(c) == Goto(c, "forget") /\ req' = [req EXCEPT ![c].count = 0]

\* What the entry was for matters only now.  As a member: who is known goes on ...
FindMember(c) ==
    /\ pc[c] = "find" /\ req[c].of \in Registered
    /\ Proceed(c)
    /\ UNCHANGED <<otp, keyVars, inbox, memberVars, spent, used>>

\* ... who is not, and gave a display name, is registered ...
FindNamed(c) ==
    /\ pc[c] = "find" /\ req[c].of \notin Registered
    /\ req' = [req EXCEPT ![c].count = MemberCount]
    /\ Goto(c, "register")
    /\ UNCHANGED <<otp, keyVars, inbox, memberVars, spent, used>>

\* ... and without a name is asked for one, and the code is kept.
FindNameless(c) ==
    /\ pc[c] = "find" /\ req[c].of \notin Registered
    /\ Finish(c)
    /\ UNCHANGED <<otp, keyVars, inbox, memberVars, spent, used>>

\* For an account: verifyEmail has found it before, resetPassword looks for it
\* now and may find none that is active.
FindAccount(c) ==
    /\ pc[c] = "find"
    /\ Proceed(c) \/ Finish(c)
    /\ UNCHANGED <<otp, keyVars, inbox, memberVars, spent, used>>

Find(c) == FindMember(c) \/ FindNamed(c) \/ FindNameless(c) \/ FindAccount(c)

\* (Mutant: no UNIQUE (org_id, member_code).)
RegisterAny(c) ==
    LET m == req[c].of IN
    /\ pc[c] = "register"
    /\ IF m \notin Registered
       THEN /\ member' = [member EXCEPT ![m] = req[c].count + 1]
            /\ Proceed(c)
       ELSE Finish(c) /\ UNCHANGED member
    /\ UNCHANGED <<otp, keyVars, inbox, others, spent, used>>

\* memberCode(count) in the INSERT; a person or a code that is there already is
\* a unique violation.
Register(c) ==
    LET m == req[c].of
        n == req[c].count + 1
    IN
    /\ pc[c] = "register"
    /\ IF m \notin Registered /\ ~CodeTaken(n)
       THEN /\ member' = [member EXCEPT ![m] = n]
            /\ Proceed(c)
       ELSE Finish(c) /\ UNCHANGED member
    /\ UNCHANGED <<otp, keyVars, inbox, others, spent, used>>

\* consume: first Redis ...
Forget(c) ==
    /\ pc[c] = "forget"
    /\ redis' = [redis EXCEPT ![req[c].of] = NoCode]
    /\ kept' = kept \ {req[c].of}
    /\ Goto(c, "spend")
    /\ UNCHANGED <<otp, inbox, memberVars, req, spent, used>>

\* (Mutant: only an expired row is closed.)
SpendNothing(c) ==
    /\ pc[c] = "spend"
    /\ Goto(c, "answer")
    /\ UNCHANGED <<otp, keyVars, inbox, memberVars, req, spent, used>>

\* ... then the row in force, whichever code it is of.
Spend(c) ==
    LET m == req[c].of IN
    /\ pc[c] = "spend"
    /\ otp' = IF HasActive(m) THEN [otp EXCEPT ![m][Latest(m)].used = TRUE] ELSE otp
    /\ Goto(c, "answer")
    /\ UNCHANGED <<keyVars, inbox, memberVars, req, spent, used>>

\* The tokens are signed and stored, the account is marked verified or gets its
\* new password.
SignedIn(c) ==
    /\ pc[c] = "answer"
    /\ spent' = [spent EXCEPT ![req[c].of] = req[c].code]
    /\ Finish(c)
    /\ UNCHANGED <<otp, keyVars, inbox, memberVars, used>>

-----------------------------------------------------------------------------
\* Redis refuses a call: the request goes on without it.
RedisFails(c) ==
    /\ Fault
    /\ \/ pc[c] = "putRedis" /\ Goto(c, "retire") /\ UNCHANGED kept
       \/ pc[c] = "askRedis" /\ Goto(c, "askTable") /\ UNCHANGED kept
       \/ /\ pc[c] = "forget" /\ redis[req[c].of] # NoCode
          /\ kept' = kept \cup {req[c].of}
          /\ Goto(c, "spend")
    /\ UNCHANGED <<otp, redis, inbox, memberVars, req, spent>>

\* A query or the mail service throws, or the process stops.
Fail(c) ==
    /\ pc[c] # "idle"
    /\ Fault
    /\ Finish(c)
    /\ UNCHANGED <<otp, keyVars, inbox, memberVars, spent>>

RequestStep(c) ==
    \/ PutRedis(c) \/ Retire(c) \/ Insert(c) \/ Deliver(c)
    \/ AskRedis(c) \/ AskTable(c) \/ Find(c) \/ Register(c)
    \/ Forget(c) \/ Spend(c) \/ SignedIn(c)

Next ==
    \/ \E c \in Requests :
           \/ \E m \in People :
                 \/ SendOtp(c, m)
                 \/ \E k \in Codes \cup {Wrong} : Verify(c, m, k)
           \/ RequestStep(c) \/ RedisFails(c) \/ Fail(c)
    \/ \E m \in People : Age(m) \/ LoseKey(m)
    \/ OtherJoins

Spec == Init /\ [][Next]_vars

\* The code is that of the row in force.
InForce(m, k) == HasActive(m) /\ otp[m][Latest(m)].code = k

\* Requests go on, time passes, and people ask for a code and enter the one that
\* came while it is in force, now and then to join, with their name, and once
\* they have joined to get in.
Fairness ==
    /\ \A c \in Requests : WF_vars(RequestStep(c))
    /\ \A m \in People :
          /\ WF_vars(Age(m))
          /\ SF_vars(\E c \in Requests : SendOtp(c, m))
          /\ SF_vars(\E c \in Requests :
                        InForce(m, inbox[m]) /\ Verify(c, m, inbox[m]))
          /\ SF_vars(\E c \in Requests : req[c].of = m /\ FindNamed(c))
          /\ SF_vars(\E c \in Requests : req[c].of = m /\ FindMember(c))

FairSpec == Spec /\ Fairness

-----------------------------------------------------------------------------
(* Properties.                                                             *)

TypeOK ==
    /\ \A m \in People :
          /\ otp[m] \in Seq([code : Codes, attempts : 0 .. MaxAttempts + 1,
                             used : BOOLEAN, fresh : BOOLEAN])
          /\ Len(otp[m]) < RateLimit + Cardinality(Senders)
          /\ redis[m] \in Codes \cup {NoCode} /\ inbox[m] \in Codes \cup {NoCode}
          /\ spent[m] \in Codes \cup {NoCode}
    /\ kept \subseteq {m \in People : redis[m] # NoCode}
    /\ member \in [People -> 0 .. Cardinality(People) + MaxOthers]
    /\ others \subseteq 1 .. Cardinality(People) + MaxOthers
    /\ pc \in [Requests -> {"idle", "putRedis", "retire", "insert", "deliver", "askRedis",
                            "askTable", "find", "register", "forget", "spend", "answer"}]
    /\ req \in [Requests -> [of : People, code : Codes \cup {NoCode, Wrong},
                             count : 0 .. Cardinality(People) + MaxOthers]]
    /\ used \in 0 .. MaxFaults

\* Members are numbered 1, 2, 3, ... in a church: a number is given once and none
\* is left out, although it is counted by one statement and taken by another.
MembersAreNumbered ==
    {member[m] : m \in Registered} \cup others = 1 .. MemberCount

\* Once a sign-in has been answered its code is refused to whoever enters it from
\* then on, whatever was asked for, mistyped, lost or retired meanwhile, be it as
\* a member or for an account.  This is as far as the code goes: checkValid takes
\* what Redis holds without a look at used_at (otp.service.ts:87), so that a key
\* whose deletion failed (kept) is good until its time is over; two entries that
\* are both checked before either consumes the code both get in; and two sends
\* at once leave two rows in force, of which a sign-in closes only the latest, so
\* codes are asked for one at a time here (one of Senders).
SpentStaysSpent ==
    \A m \in People : spent[m] # NoCode =>
        /\ ~InForce(m, spent[m])
        /\ redis[m] = spent[m] => m \in kept

\* Everybody who keeps trying gets in: neither a lost key, a code sent before,
\* a forgotten name nor a member number that somebody else took locks one out.
EveryoneGetsIn == \A m \in People : <>(m \in Registered /\ spent[m] # NoCode)

=============================================================================
