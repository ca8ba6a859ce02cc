--------------------------- MODULE VirtualAccounts ---------------------------
(***************************************************************************)
(* The account numbers of one church: a member who taps "Pay [fund]", or a *)
(* visitor who opens the public giving page, gets the number of a Nomba    *)
(* virtual account, created on first use and stored under the reference    *)
(* that every payment's webhook carries.  Admins create and change the     *)
(* funds meanwhile, the expiry job closes campaigns, calls to Nomba fail   *)
(* or lose their answer.                                                   *)
(*                                                                         *)
(* Nomba gives one number per reference, so a number is its reference.     *)
(* Members and the organisation exist throughout; the end date of an       *)
(* account at Nomba is left out; Nomba is external.                        *)
(***************************************************************************)
EXTENDS Naturals, FiniteSets

CONSTANTS
    Members, Visitor,   \* who asks for a number
    Org,                \* holds the accounts of shared funds
    Funds,              \* fund_types ids that may come to exist
    Requests,           \* concurrent HTTP requests
    AnonymousGiving,    \* the name of the fund behind the giving page
    NoFund, NoRef,
    MaxDay, MaxChanges, MaxFaults      \* bounds

ASSUME VirtualAccountsAssumption ==
    /\ Visitor \notin Members /\ Org \notin Members
    /\ AnonymousGiving \notin Funds /\ NoFund \notin Funds
    /\ MaxDay \in Nat \ {0} /\ {MaxChanges, MaxFaults} \subseteq Nat

VARIABLES
    fund,      \* fund_types rows
    row,       \* member_fund_accounts and org_shared_fund_accounts
    nomba,     \* the references Nomba holds an account for
    pc, req,   \* requests: next step, and what they carry
    change,    \* an admin's PATCH between its read and its write
    given,     \* the numbers that were answered
    day, used

vars == <<fund, row, nomba, pc, req, change, given, day, used>>

Holders == Members \cup {Org}
Pairs   == Holders \X Funds

Absent == [name |-> NoFund, expires |-> 0, active |-> FALSE, shared |-> FALSE,
           anonymous |-> FALSE]
Exists(f) == fund[f] # Absent

\* The fund behind the giving page is known by its flag, not by its name.
GivingFunds == {f \in Funds : fund[f].anonymous}

NoRequest == [who |-> Visitor, holder |-> Org, f |-> NoFund]
NoChange  == [f |-> NoFund, field |-> "active", to |-> FALSE]

Init ==
    /\ fund = [f \in Funds |-> Absent]
    /\ row = [p \in Pairs |-> NoRef]
    /\ nomba = {}
    /\ pc = [c \in Requests |-> "idle"]
    /\ req = [c \in Requests |-> NoRequest]
    /\ change = NoChange
    /\ given = {}
    /\ day = 1
    /\ used = [changes |-> 0, faults |-> 0]

requestVars == <<pc, req>>
outerVars == <<change, day, used>>

-----------------------------------------------------------------------------
(* Funds: fund.service.ts and the expiry job.                              *)

\* A campaign is a fund with an expiry date.
Expired(f) == fund[f].expires # 0 /\ day > fund[f].expires

\* UNIQUE (org_id, name).
NameFree(n) == \A f \in Funds : fund[f].name # n

\* An admin adds a fund under a name that is still free.  (Bound: one id is left
\* for the giving fund.)
CreateFund(f, n, expires) ==
    /\ ~Exists(f) /\ NameFree(n)
    /\ GivingFunds # {} \/ \E g \in Funds \ {f} : ~Exists(g)
    /\ used.changes < MaxChanges
    /\ fund' = [fund EXCEPT ![f] =
           [Absent EXCEPT !.name = n, !.expires = expires, !.active = TRUE]]
    /\ used' = [used EXCEPT !.changes = @ + 1]
    /\ UNCHANGED <<row, nomba, requestVars, change, given, day>>

\* PATCH /funds/:id reads the fund and refuses to reopen an expired campaign.
ReadFund(f, field, to) ==
    /\ change = NoChange
    /\ Exists(f)
    /\ ~(field = "active" /\ to /\ Expired(f))
    /\ field = "expires" => fund[f].expires # 0
    /\ field = "name" => ~fund[f].anonymous
    /\ used.changes < MaxChanges
    /\ change' = [f |-> f, field |-> field, to |-> to]
    /\ used' = [used EXCEPT !.changes = @ + 1]
    /\ UNCHANGED <<fund, row, nomba, requestVars, given, day>>

\* The UPDATE; a name that another fund took is a unique violation.
WriteFund ==
    /\ change # NoChange
    /\ fund' = IF change.field = "name" /\ ~NameFree(change.to) THEN fund
               ELSE [fund EXCEPT ![change.f] =
                        CASE change.field = "active"  -> [@ EXCEPT !.active = change.to]
                          [] change.field = "shared"  -> [@ EXCEPT !.shared = change.to]
                          [] change.field = "expires" -> [@ EXCEPT !.expires = change.to]
                          [] change.field = "name"    -> [@ EXCEPT !.name = change.to]]
    /\ change' = NoChange
    /\ UNCHANGED <<row, nomba, requestVars, given, day, used>>

\* What an admin may send: one field that changes, the others left out; closing
\* a fund is DeactivateFund.
Patch ==
    \E f \in Funds :
        \/ ~fund[f].active /\ ReadFund(f, "active", TRUE)
        \/ ReadFund(f, "shared", ~fund[f].shared)
        \/ \E d \in 1 .. MaxDay \ {fund[f].expires} : ReadFund(f, "expires", d)
        \/ fund[f].name # AnonymousGiving /\ ReadFund(f, "name", AnonymousGiving)

DeactivateFund(f) ==
    /\ Exists(f) /\ fund[f].active
    /\ used.changes < MaxChanges
    /\ fund' = [fund EXCEPT ![f].active = FALSE]
    /\ used' = [used EXCEPT !.changes = @ + 1]
    /\ UNCHANGED <<row, nomba, requestVars, change, given, day>>

Overdue == {f \in Funds : fund[f].active /\ Expired(f)}

\* One UPDATE over every open campaign that has ended.
ExpireCampaigns ==
    /\ Overdue # {}
    /\ fund' = [f \in Funds |-> IF f \in Overdue THEN [fund[f] EXCEPT !.active = FALSE]
                                ELSE fund[f]]
    /\ UNCHANGED <<row, nomba, requestVars, change, given, day, used>>

-----------------------------------------------------------------------------
(* Requests: va.service.ts, anonymous-va.service.ts and                    *)
(* shared-fund-va.service.ts over va.nomba.ts.                             *)

Goto(c, step) == pc' = [pc EXCEPT ![c] = step]
Finish(c) == Goto(c, "idle") /\ req' = [req EXCEPT ![c] = NoRequest]

\* vaReference and sharedVaReference: a hash of the pair, so that a retry asks
\* Nomba for the same account.
Ref(c) == <<req[c].holder, req[c].f>>

Answer(c) ==
    given' = given \cup {[who |-> req[c].who, holder |-> req[c].holder,
                          f |-> req[c].f, number |-> Ref(c)]}

\* getOrCreate reads the fund: one that is closed or over is refused.
Tap(c, m, f) ==
    /\ pc[c] = "idle"
    /\ Exists(f) /\ fund[f].active /\ ~Expired(f)
    /\ req' = [req EXCEPT ![c] =
           [who |-> m, holder |-> IF fund[f].shared THEN Org ELSE m, f |-> f]]
    /\ Goto(c, "find")
    /\ UNCHANGED <<fund, row, nomba, given, outerVars>>

\* (Mutant: a deactivated fund is not looked for.)
VisitOpenOnly(c) ==
    /\ pc[c] = "idle"
    /\ LET open == {f \in GivingFunds : fund[f].active} IN
       IF open = {} THEN Goto(c, "addFund") /\ UNCHANGED req
       ELSE \E f \in open :
               /\ req' = [req EXCEPT ![c].f = f]
               /\ Goto(c, "find")
    /\ UNCHANGED <<fund, row, nomba, given, outerVars>>

\* The giving fund is used closed or not; without one, it is made.
Visit(c) ==
    /\ pc[c] = "idle"
    /\ IF GivingFunds = {} THEN Goto(c, "addFund") /\ UNCHANGED req
       ELSE \E f \in GivingFunds :
               /\ req' = [req EXCEPT ![c].f = f]
               /\ Goto(c, "find")
    /\ UNCHANGED <<fund, row, nomba, given, outerVars>>

\* The INSERT of the giving fund; when the name is taken, by an admin's fund or
\* by another visitor's request, it throws.
AddGivingFund(c) ==
    /\ pc[c] = "addFund"
    /\ IF NameFree(AnonymousGiving)
       THEN \E f \in Funds :
               /\ ~Exists(f)
               /\ fund' = [fund EXCEPT ![f] =
                      [name |-> AnonymousGiving, expires |-> 0, active |-> TRUE,
                       shared |-> TRUE, anonymous |-> TRUE]]
               /\ req' = [req EXCEPT ![c].f = f]
               /\ Goto(c, "find")
       ELSE Finish(c) /\ UNCHANGED fund
    /\ UNCHANGED <<row, nomba, given, outerVars>>

Pair(c) == <<req[c].holder, req[c].f>>

\* A stored account is answered as it is.
FindAccount(c) ==
    /\ pc[c] = "find"
    /\ IF row[Pair(c)] # NoRef
       THEN /\ given' = given \cup {[who |-> req[c].who, holder |-> req[c].holder,
                                     f |-> req[c].f, number |-> row[Pair(c)]]}
            /\ Finish(c)
       ELSE Goto(c, "create") /\ UNCHANGED <<given, req>>
    /\ UNCHANGED <<fund, row, nomba, outerVars>>

\* (Mutant: "already exists" is an error like any other.)
CreateOnlyNew(c) ==
    /\ pc[c] = "create"
    /\ IF Ref(c) \in nomba
       THEN Finish(c) /\ UNCHANGED nomba
       ELSE nomba' = nomba \cup {Ref(c)} /\ Goto(c, "store") /\ UNCHANGED req
    /\ UNCHANGED <<fund, row, given, outerVars>>

\* (Mutant: the number is answered before it is stored.)
CreateAnswers(c) ==
    /\ pc[c] = "create"
    /\ nomba' = nomba \cup {Ref(c)}
    /\ Answer(c)
    /\ Goto(c, "store") /\ UNCHANGED <<req, fund, row, outerVars>>

\* POST to Nomba; a reference it already knows is fetched instead.
CreateAtNomba(c) ==
    /\ pc[c] = "create"
    /\ IF Ref(c) \in nomba
       THEN Goto(c, "fetch") /\ UNCHANGED nomba
       ELSE nomba' = nomba \cup {Ref(c)} /\ Goto(c, "store")
    /\ UNCHANGED <<req, fund, row, given, outerVars>>

\* The call times out after Nomba created the account: 502 or 503.
CreateUnanswered(c) ==
    /\ pc[c] = "create" /\ Ref(c) \notin nomba
    /\ used.faults < MaxFaults
    /\ nomba' = nomba \cup {Ref(c)}
    /\ Finish(c)
    /\ used' = [used EXCEPT !.faults = @ + 1]
    /\ UNCHANGED <<fund, row, change, given, day>>

FetchExisting(c) ==
    /\ pc[c] = "fetch"
    /\ Goto(c, "store")
    /\ UNCHANGED <<req, fund, row, nomba, given, outerVars>>

\* INSERT ... ON CONFLICT (pair) leaves the row that is there; the answer is the
\* number Nomba returned.
StoreAccount(c) ==
    /\ pc[c] = "store"
    /\ row' = [row EXCEPT ![Pair(c)] = IF @ = NoRef THEN Ref(c) ELSE @]
    /\ Answer(c)
    /\ Finish(c)
    /\ UNCHANGED <<fund, nomba, outerVars>>

\* A query or a call of the request throws, or the process stops.
FailRequest(c) ==
    /\ pc[c] # "idle"
    /\ used.faults < MaxFaults
    /\ Finish(c)
    /\ used' = [used EXCEPT !.faults = @ + 1]
    /\ UNCHANGED <<fund, row, nomba, change, given, day>>

RequestStep(c) ==
    \/ AddGivingFund(c) \/ FindAccount(c) \/ CreateAtNomba(c) \/ FetchExisting(c)
    \/ StoreAccount(c)

-----------------------------------------------------------------------------
NextDay ==
    /\ day < MaxDay
    /\ day' = day + 1
    /\ UNCHANGED <<fund, row, nomba, requestVars, change, given, used>>

Admin ==
    \/ \E f \in Funds :
           CreateFund(f, f, 0) \/ CreateFund(f, f, 1) \/ CreateFund(f, AnonymousGiving, 0)
    \/ Patch \/ WriteFund
    \/ \E f \in Funds : DeactivateFund(f)

Next ==
    \/ Admin
    \/ ExpireCampaigns
    \/ NextDay
    \/ \E c \in Requests :
           \/ \E m \in Members, f \in Funds : Tap(c, m, f)
           \/ Visit(c)
           \/ RequestStep(c) \/ CreateUnanswered(c) \/ FailRequest(c)

Spec == Init /\ [][Next]_vars

\* A request that started goes on, and people who got an error try again.
Fairness ==
    /\ \A c \in Requests : WF_vars(RequestStep(c))
    /\ \A m \in Members, f \in Funds : SF_vars(\E c \in Requests : Tap(c, m, f))
    /\ SF_vars(\E c \in Requests : Visit(c))

FairSpec == Spec /\ Fairness

-----------------------------------------------------------------------------
(* Properties.                                                             *)

FundRow == [name : Funds \cup {AnonymousGiving, NoFund}, expires : 0 .. MaxDay,
            active : BOOLEAN, shared : BOOLEAN, anonymous : BOOLEAN]

TypeOK ==
    /\ fund \in [Funds -> FundRow]
    /\ row \in [Pairs -> Pairs \cup {NoRef}]
    /\ nomba \subseteq Pairs
    /\ pc \in [Requests -> {"idle", "addFund", "find", "create", "fetch", "store"}]
    /\ req \in [Requests -> [who : Members \cup {Visitor}, holder : Holders,
                             f : Funds \cup {NoFund}]]
    /\ \A c \in Requests : pc[c] \in {"find", "create", "fetch", "store"} =>
           req[c].f \in Funds /\ Exists(req[c].f)
    /\ given \subseteq [who : Members \cup {Visitor}, holder : Holders, f : Funds, number : Pairs]
    /\ day \in 1 .. MaxDay
    /\ used \in [changes : 0 .. MaxChanges, faults : 0 .. MaxFaults]

\* A number that anybody was given leads back: its reference is stored for the
\* pair it was asked for, so a payment to it is credited to that member (or to
\* the church) and that fund, and is never an orphan (inflow-handler.service.ts
\* "No member_fund_account found": "this should never happen").  Two answers for
\* one pair, whether from the database, from a new account or from one recovered
\* at Nomba, are then the same number.
GivenNumbersResolve ==
    \A g \in given : row[<<g.holder, g.f>>] = g.number

\* Whatever an earlier attempt left behind (an account at Nomba without a row,
\* a lost answer), a member who keeps tapping a fund that stays open gets a
\* number for it.
TappingSucceeds ==
    \A m \in Members, f \in Funds :
        <>[](Exists(f) /\ fund[f].active /\ ~Expired(f))
            => <>(\E g \in given : g.who = m /\ g.f = f)

\* The giving page comes up, unless an ordinary fund holds its name.
GivingPageOpens ==
    [](\A f \in Funds : Exists(f) /\ fund[f].name = AnonymousGiving => fund[f].anonymous)
        => <>(\E g \in given : g.who = Visitor)

=============================================================================
