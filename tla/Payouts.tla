------------------------------- MODULE Payouts -------------------------------
(***************************************************************************)
(* The money-out half of the server: payout requests on one fund of one    *)
(* organisation, from the request of an administrator (or the nightly      *)
(* sweep) to the webhook that settles them.  One action is one statement   *)
(* between two awaits, so that the HTTP requests, the expiry and sweep     *)
(* jobs and the webhook workers interleave as they do in the program.      *)
(*                                                                         *)
(* Every executor (a request in flight, a job run, a worker) is a member   *)
(* of Procs with a program counter pc and the payout it works on, at.      *)
(***************************************************************************)
EXTENDS FundLedger, FiniteSets

CONSTANTS
    PayoutIds,         \* payout_requests rows that may be created
    Signatories,       \* signatories rows of the organisation
    Initiator,         \* the signatory with the e-mail address of the administrator
                       \* who asks for payouts, NoSignatory if there is none
    Requests,          \* HTTP requests that may be in flight at once
    Workers,           \* webhook queue consumers
    Expirers,          \* runs of expiry.job in flight ({} or one)
    Sweepers,          \* runs of sweep.job in flight ({} or one)
    NoPayout, NoSignatory,
    Amounts,           \* amounts an administrator may ask for
    Threshold,         \* payout_policies.threshold_kobo
    Fee,               \* NOMBA_TRANSFER_FEE_KOBO, also the fee Nomba charges
    MinBalance,        \* sweep_configs.min_balance_kobo
    Policies,          \* values min_approvers may take
    InitialPolicy,
    InitialPanel,      \* who is active and may approve when the behaviour starts
    InitialBalance,    \* collected before the behaviour starts
    InflowAmount,      \* amount of a member's payment
    CancelInFlight,    \* may a payout be cancelled while the request or
                       \* sweep that created it is still at work on it?
    EarlyOutcome,      \* may Nomba's webhook outrun the write of the ref?
    LostAnswers,       \* may the answer of a transfer request get lost?
    LinksLapse,        \* may approval links expire?
    MaxMonth, MaxInflows, MaxPolicyChanges, MaxPanelChanges, MaxFaults   \* bounds

Procs == Requests \cup Workers \cup Expirers \cup Sweepers

ASSUME PayoutsAssumption ==
    /\ NoPayout \notin PayoutIds /\ NoSignatory \notin Signatories
    /\ Initiator \in Signatories \cup {NoSignatory}
    /\ Requests \cap (Workers \cup Expirers \cup Sweepers) = {}
    /\ Workers \cap (Expirers \cup Sweepers) = {} /\ Expirers \cap Sweepers = {}
    /\ Amounts \subseteq Nat \ {0} /\ Policies \subseteq Nat \ {0}
    /\ InitialPolicy \in Policies /\ InitialPanel \subseteq Signatories
    /\ {Threshold, Fee, MinBalance, InitialBalance, InflowAmount} \subseteq Nat
    /\ {CancelInFlight, EarlyOutcome, LostAnswers, LinksLapse} \subseteq BOOLEAN
    /\ MaxMonth \in Nat \ {0}
    /\ {MaxInflows, MaxPolicyChanges, MaxPanelChanges, MaxFaults} \subseteq Nat

VARIABLES
    status, amount, path, period, ref,   \* payout_requests columns
    vote,              \* payout_approvals: action, or "sent" while unused, "lapsed"
                       \* once the unused token has expired; "due" while the
                       \* request that will write the row has it on its list
    approvers,         \* history: who was ever recorded as approving
    minApprovers,      \* payout_policies.min_approvers
    lowestPolicy,      \* history: the lowest value minApprovers has had
    panel,             \* signatories that are active and may approve
    phones,            \* signatories with a phone number on file
    ledger, month,     \* fund_ledger and currentPeriod()
    overlooked,        \* history: what checkAndLock granted with a row unseen
    nomba,             \* what Nomba did with the transfer
    inbox,             \* webhook events queued and not yet taken
    calls,             \* POSTs of the transfer per payout
    pc, at,            \* executors
    click,             \* locals of processAction
    ask,               \* locals of initiate, up to the INSERT
    todo,              \* rows the expiry job selected and has not handled
    sweepAmount,       \* local of processSweep
    used               \* how much of each bound is spent

rowVars    == <<status, amount, path, period, ref>>
voteVars   == <<vote, approvers>>
policyVars == <<minApprovers, lowestPolicy, panel, phones>>
moneyVars  == <<ledger, month, overlooked>>
nombaVars  == <<nomba, inbox, calls>>
procVars   == <<pc, at>>
localVars  == <<ask, todo, sweepAmount>>

vars == <<status, amount, path, period, ref, vote, approvers, minApprovers,
          lowestPolicy, panel, phones, ledger, month, overlooked, nomba, inbox, calls,
          pc, at, click, ask, todo, sweepAmount, used>>

Lifecycle == INSTANCE PayoutLifecycle
             WITH PayoutIds <- PayoutIds, status <- status, calls <- calls

-----------------------------------------------------------------------------
Awaiting == {"PENDING", "PARTIAL"}
Live     == {"PENDING", "PARTIAL", "APPROVED", "TRANSFERRING"}

ClickPcs == {"load", "record", "policy", "quorum", "partial", "invalid",
             "approve", "decline"}

\* Program counters, each named for the step the executor does next.
Pcs == ClickPcs \cup
       {"idle", "lock", "emails", "advance", "start", "call", "storeRef", "failed",
        "release", "cancel", "expire", "settle", "refund",
        "sweepCreate", "sweepApprove", "sweepLock", "sweepFire"}

NoClick == [s |-> NoSignatory, act |-> "NONE", seen |-> "NONE", need |-> 0]

NoAsk == [amount |-> 0, list |-> {}, rows |-> {}]

Event == [p : PayoutIds, kind : {"payout_success", "payout_failed", "payout_refund"}]

Enter(r, step, p) ==
    /\ pc' = [pc EXCEPT ![r] = step]
    /\ at' = [at EXCEPT ![r] = p]

Goto(r, step) == pc' = [pc EXCEPT ![r] = step] /\ UNCHANGED at

Finish(r) == Enter(r, "idle", NoPayout)

\* transitionStatus: UPDATE ... WHERE id = p AND status = ANY(from).
TransitionStatus(p, from, to) ==
    status' = IF status[p] \in from THEN [status EXCEPT ![p] = to] ELSE status

\* updateStatus: the same UPDATE without the condition on the old status.
UpdateStatus(p, to) == status' = [status EXCEPT ![p] = to]

Init ==
    /\ status = [p \in PayoutIds |-> "NONE"]
    /\ amount = [p \in PayoutIds |-> 0]
    /\ path = [p \in PayoutIds |-> "NONE"]
    /\ period = [p \in PayoutIds |-> NoPeriod]
    /\ ref = [p \in PayoutIds |-> FALSE]
    /\ vote = [p \in PayoutIds |-> [s \in Signatories |-> "none"]]
    /\ approvers = [p \in PayoutIds |-> {}]
    /\ minApprovers = InitialPolicy
    /\ lowestPolicy = InitialPolicy
    /\ panel = InitialPanel
    /\ phones = Signatories
    /\ ledger = [q \in {1} |-> [EmptyRow EXCEPT !.collected = InitialBalance]]
    /\ month = 1
    /\ overlooked = 0
    /\ nomba = [p \in PayoutIds |-> "none"]
    /\ inbox = {}
    /\ calls = [p \in PayoutIds |-> 0]
    /\ pc = [r \in Procs |-> "idle"]
    /\ at = [r \in Procs |-> NoPayout]
    /\ click = [r \in Requests |-> NoClick]
    /\ ask = [r \in Requests |-> NoAsk]
    /\ todo = [r \in Expirers |-> {}]
    /\ sweepAmount = [r \in Sweepers |-> 0]
    /\ used = [inflows |-> 0, policies |-> 0, panel |-> 0, faults |-> 0]

-----------------------------------------------------------------------------
(* payout.service.ts initiate, manual-payout.service.ts execute,           *)
(* approval.service.ts initiate.                                           *)

\* (Mutant: the administrator who asks is counted and written to as well.)
EligibleAndInitiator == panel

\* getEligibleSignatories: who asks for the money does not approve it.
Eligible == panel \ {Initiator}

\* POST /payouts up to the transaction: the balance, the policy and, from its
\* threshold on, the eligibility gate, whose list is the one the tokens go to.
\* (Bound: no more requests ask at once than members of PayoutIds are free.)
Initiate(r, a) ==
    /\ pc[r] = "idle"
    /\ Cardinality({q \in Requests : pc[q] = "lock"})
         < Cardinality({p \in PayoutIds : status[p] = "NONE"})
    /\ AvailableKobo(ledger) >= a + Fee
    /\ a >= Threshold => Cardinality(Eligible) >= minApprovers
    /\ ask' = [ask EXCEPT ![r] = [amount |-> a,
                                  list   |-> IF a >= Threshold THEN Eligible ELSE {},
                                  rows   |-> DOMAIN ledger]]
    /\ Goto(r, "lock")
    /\ UNCHANGED <<click, todo, sweepAmount, used, rowVars, voteVars, policyVars, moneyVars,
                   nombaVars>>

\* checkAndLock + createTx, one transaction whose SELECT started at some moment
\* since the balance was read.  The payout is manual below the threshold, else
\* signatories decide.
CheckAndLock(r, p) ==
    LET a == ask[r].amount IN
    /\ pc[r] = "lock"
    /\ status[p] = "NONE"
    /\ \E rows \in RowsFoundSince(ask[r].rows, ledger) :
          /\ CanLock(ledger, rows, a, Fee)
          /\ ledger' = Reserve(ledger, LatestPeriod(rows), a)
          /\ period' = [period EXCEPT ![p] = LatestPeriod(rows)]
          /\ overlooked' = IF rows = DOMAIN ledger THEN overlooked ELSE overlooked + a
    /\ UpdateStatus(p, "PENDING")
    /\ amount' = [amount EXCEPT ![p] = a]
    /\ path' = [path EXCEPT ![p] = IF a < Threshold THEN "MANUAL" ELSE "APPROVAL"]
    /\ vote' = [vote EXCEPT ![p] =
                   [s \in Signatories |-> IF s \in ask[r].list THEN "due" ELSE "none"]]
    /\ ask' = [ask EXCEPT ![r] = NoAsk]
    /\ Enter(r, IF a < Threshold THEN "advance" ELSE "emails", p)
    /\ UNCHANGED <<ref, month, click, todo, sweepAmount, used, approvers, policyVars, nombaVars>>

\* Insufficient balance under the locks: rolled back, the caller is told.
RefuseLock(r) ==
    /\ pc[r] = "lock"
    /\ \E rows \in RowsFoundSince(ask[r].rows, ledger) :
          ~CanLock(ledger, rows, ask[r].amount, Fee)
    /\ ask' = [ask EXCEPT ![r] = NoAsk]
    /\ Finish(r)
    /\ UNCHANGED <<click, todo, sweepAmount, used, rowVars, voteVars, policyVars, moneyVars,
                   nombaVars>>

\* One turn of the loop over the eligible signatories: token row, then email.
SendEmail(r, s) ==
    /\ pc[r] = "emails"
    /\ vote[at[r]][s] = "due"
    /\ vote' = [vote EXCEPT ![at[r]][s] = "sent"]
    /\ IF \A o \in Signatories \ {s} : vote[at[r]][o] # "due"
       THEN Finish(r) ELSE UNCHANGED procVars
    /\ UNCHANGED <<approvers, click, used, rowVars, policyVars, moneyVars, nombaVars, localVars>>

\* Manual path: compare-and-set PENDING -> TRANSFERRING; the loser gives the
\* lock back and reports a conflict.
Advance(r) ==
    /\ pc[r] = "advance"
    /\ TransitionStatus(at[r], {"PENDING"}, "TRANSFERRING")
    /\ Goto(r, IF status[at[r]] = "PENDING" THEN "call" ELSE "release")
    /\ UNCHANGED <<amount, path, period, ref, click, used,
                   voteVars, policyVars, moneyVars, nombaVars, localVars>>

-----------------------------------------------------------------------------
(* approval.service.ts processAction, one POST on an approval link.        *)

\* Token verified (exists, unused, not expired), the last digits of the phone
\* on file entered, signatory not the initiator; whether the signatory still is
\* active is not asked.  The token is not consumed yet.  A click that is refused
\* changes nothing.
ClickLink(r, p, s, act) ==
    /\ pc[r] = "idle"
    /\ vote[p][s] = "sent"
    /\ s \in phones
    /\ s # Initiator
    /\ click' = [click EXCEPT ![r] = [s |-> s, act |-> act, seen |-> "NONE", need |-> 0]]
    /\ Enter(r, "load", p)
    /\ UNCHANGED <<used, rowVars, voteVars, policyVars, moneyVars, nombaVars, localVars>>

\* findByIdAnyOrg; a payout no longer awaiting approval is a conflict.
LoadPayout(r) ==
    /\ pc[r] = "load"
    /\ IF status[at[r]] \in Awaiting
       THEN /\ Goto(r, "record")
            /\ click' = [click EXCEPT ![r].seen = status[at[r]]]
       ELSE Finish(r) /\ click' = [click EXCEPT ![r] = NoClick]
    /\ UNCHANGED <<used, rowVars, voteVars, policyVars, moneyVars, nombaVars, localVars>>

\* recordAction + markUsed: an unconditional UPDATE of the approval row.
RecordAction(r) ==
    LET s == click[r].s  act == click[r].act IN
    /\ pc[r] = "record"
    /\ vote' = [vote EXCEPT ![at[r]][s] = act]
    /\ approvers' = IF act = "APPROVED"
                    THEN [approvers EXCEPT ![at[r]] = @ \cup {s}] ELSE approvers
    /\ Goto(r, IF act = "DECLINED" THEN "decline" ELSE "policy")
    /\ UNCHANGED <<click, used, rowVars, policyVars, moneyVars, nombaVars, localVars>>

\* (Mutant: the outcome of the compare-and-set is not looked at.)
DeclineUnchecked(r) ==
    /\ pc[r] = "decline"
    /\ TransitionStatus(at[r], Awaiting, "DECLINED")
    /\ Goto(r, "release")
    /\ click' = [click EXCEPT ![r] = NoClick]
    /\ UNCHANGED <<amount, path, period, ref, used,
                   voteVars, policyVars, moneyVars, nombaVars, localVars>>

\* Instant kill, if the payout is still awaiting approval at write time.
Decline(r) ==
    /\ pc[r] = "decline"
    /\ TransitionStatus(at[r], Awaiting, "DECLINED")
    /\ IF status[at[r]] \in Awaiting THEN Goto(r, "release") ELSE Finish(r)
    /\ click' = [click EXCEPT ![r] = NoClick]
    /\ UNCHANGED <<amount, path, period, ref, used,
                   voteVars, policyVars, moneyVars, nombaVars, localVars>>

ReadPolicy(r) ==
    /\ pc[r] = "policy"
    /\ click' = [click EXCEPT ![r].need = minApprovers]
    /\ Goto(r, "quorum")
    /\ UNCHANGED <<used, rowVars, voteVars, policyVars, moneyVars, nombaVars, localVars>>

VotesFor(p, act) == {s \in Signatories : vote[p][s] = act}

\* (Mutants: tokens not yet used count too; one approval too many is asked.)
QuorumOfTokens(p, need) ==
    /\ VotesFor(p, "DECLINED") = {}
    /\ Cardinality(VotesFor(p, "APPROVED") \cup VotesFor(p, "sent")) >= need

QuorumExceeded(p, need) ==
    /\ VotesFor(p, "DECLINED") = {}
    /\ Cardinality(VotesFor(p, "APPROVED")) > need

\* quorumService.check over the used tokens: one decline vetoes.
QuorumReached(p, need) ==
    /\ VotesFor(p, "DECLINED") = {}
    /\ Cardinality(VotesFor(p, "APPROVED")) >= need

\* Short of quorum, assertTransition(status read earlier, 'PARTIAL') passes
\* only for PENDING: the table has no PARTIAL -> PARTIAL.
CheckQuorum(r) ==
    /\ pc[r] = "quorum"
    /\ Goto(r, IF QuorumReached(at[r], click[r].need) THEN "approve"
               ELSE IF click[r].seen = "PENDING" THEN "partial" ELSE "invalid")
    /\ UNCHANGED <<click, used, rowVars, voteVars, policyVars, moneyVars, nombaVars, localVars>>

MarkPartial(r) ==
    /\ pc[r] = "partial"
    /\ TransitionStatus(at[r], Awaiting, "PARTIAL")
    /\ Finish(r)
    /\ click' = [click EXCEPT ![r] = NoClick]
    /\ UNCHANGED <<amount, path, period, ref, used,
                   voteVars, policyVars, moneyVars, nombaVars, localVars>>

\* assertTransition threw: the approver is answered 409.
AnswerInvalid(r) ==
    /\ pc[r] = "invalid"
    /\ Finish(r)
    /\ click' = [click EXCEPT ![r] = NoClick]
    /\ UNCHANGED <<used, rowVars, voteVars, policyVars, moneyVars, nombaVars, localVars>>

\* (Mutant: the loser of the quorum race fires too.)
ApproveUnchecked(r) ==
    /\ pc[r] = "approve"
    /\ TransitionStatus(at[r], Awaiting, "APPROVED")
    /\ Goto(r, "start")
    /\ click' = [click EXCEPT ![r] = NoClick]
    /\ UNCHANGED <<amount, path, period, ref, used,
                   voteVars, policyVars, moneyVars, nombaVars, localVars>>

\* Single-fire guard: of the approvers who see quorum, one UPDATE matches.
Approve(r) ==
    /\ pc[r] = "approve"
    /\ TransitionStatus(at[r], Awaiting, "APPROVED")
    /\ IF status[at[r]] \in Awaiting THEN Goto(r, "start") ELSE Finish(r)
    /\ click' = [click EXCEPT ![r] = NoClick]
    /\ UNCHANGED <<amount, path, period, ref, used,
                   voteVars, policyVars, moneyVars, nombaVars, localVars>>

\* Bank account read, then APPROVED -> TRANSFERRING; the result of the
\* compare-and-set is not looked at.
StartTransfer(r) ==
    /\ pc[r] = "start"
    /\ TransitionStatus(at[r], {"APPROVED"}, "TRANSFERRING")
    /\ Goto(r, "call")
    /\ UNCHANGED <<amount, path, period, ref, click, used,
                   voteVars, policyVars, moneyVars, nombaVars, localVars>>

-----------------------------------------------------------------------------
(* The tail every path shares: initiateTransfer and what follows it.       *)

\* POST /v2/transfers/bank.  Nomba takes the transfer and answers; or the
\* request is rejected (or never leaves: breaker, token); or Nomba takes it
\* and the answer is lost, which the caller cannot tell from a rejection.
CallNomba(r) ==
    /\ pc[r] = "call"
    /\ calls' = [calls EXCEPT ![at[r]] = @ + 1]
    /\ \/ /\ nomba' = [nomba EXCEPT ![at[r]] = "processing"]
          /\ Goto(r, "storeRef")
       \/ UNCHANGED nomba /\ Goto(r, "failed")
       \/ /\ LostAnswers
          /\ nomba' = [nomba EXCEPT ![at[r]] = "processing"]
          /\ Goto(r, "failed")
    /\ UNCHANGED <<inbox, click, used, rowVars, voteVars, policyVars, moneyVars, localVars>>

\* (Mutant: the reference of the transfer is not kept.)
StoreNoRef(r) ==
    /\ pc[r] = "storeRef"
    /\ UpdateStatus(at[r], "TRANSFERRING")
    /\ Finish(r)
    /\ UNCHANGED <<amount, path, period, ref, click, used,
                   voteVars, policyVars, moneyVars, nombaVars, localVars>>

\* updateStatus(TRANSFERRING, nomba_transfer_ref): unconditional.
StoreRef(r) ==
    /\ pc[r] = "storeRef"
    /\ UpdateStatus(at[r], "TRANSFERRING")
    /\ ref' = [ref EXCEPT ![at[r]] = TRUE]
    /\ Finish(r)
    /\ UNCHANGED <<amount, path, period, click, used,
                   voteVars, policyVars, moneyVars, nombaVars, localVars>>

\* The catch block: compare-and-set for requests, a blind write for sweeps.
FailTransfer(r) ==
    /\ pc[r] = "failed"
    /\ IF r \in Sweepers THEN UpdateStatus(at[r], "FAILED")
       ELSE TransitionStatus(at[r], {"TRANSFERRING"}, "FAILED")
    /\ Goto(r, "release")
    /\ UNCHANGED <<amount, path, period, ref, click, used,
                   voteVars, policyVars, moneyVars, nombaVars, localVars>>

\* releaseLock, after a decline, cancel, expiry, failure or lost advance.
\* The expiry job then goes on with its next row.
Release(r) ==
    /\ pc[r] = "release"
    /\ ledger' = ReleaseLock(ledger, amount[at[r]], period[at[r]])
    /\ IF r \in Expirers THEN Enter(r, "expire", NoPayout) ELSE Finish(r)
    /\ UNCHANGED <<month, overlooked, click, used, rowVars, voteVars, policyVars, nombaVars,
                   localVars>>

-----------------------------------------------------------------------------
(* payout.service.ts cancel.                                               *)

\* The row is committed and its creator is about to move it on.
BeingCreated(p) ==
    \E r \in Requests \cup Sweepers :
        at[r] = p /\ pc[r] \in {"advance", "sweepApprove"}

LoadCancel(r, p) ==
    /\ pc[r] = "idle"
    /\ status[p] = "PENDING"
    /\ CancelInFlight \/ ~BeingCreated(p)
    /\ Enter(r, "cancel", p)
    /\ UNCHANGED <<click, used, rowVars, voteVars, policyVars, moneyVars, nombaVars, localVars>>

Cancel(r) ==
    /\ pc[r] = "cancel"
    /\ TransitionStatus(at[r], {"PENDING"}, "CANCELLED")
    /\ IF status[at[r]] = "PENDING" THEN Goto(r, "release") ELSE Finish(r)
    /\ UNCHANGED <<amount, path, period, ref, click, used,
                   voteVars, policyVars, moneyVars, nombaVars, localVars>>

-----------------------------------------------------------------------------
(* jobs/expiry.job.ts expirePayoutRequests.                                *)

\* expires_at may have passed: it lies a day or more after the INSERT, so
\* never while the request that inserted the row is still running.
MayBeOverdue(p) ==
    /\ status[p] \in Awaiting
    /\ ~BeingCreated(p)
    /\ \A r \in Requests : at[r] = p => pc[r] # "emails"

SelectExpired(r) ==
    /\ pc[r] = "idle"
    /\ \E S \in SUBSET {p \in PayoutIds : MayBeOverdue(p)} \ {{}} :
           todo' = [todo EXCEPT ![r] = S]
    /\ Goto(r, "expire")
    /\ UNCHANGED <<click, ask, sweepAmount, used, rowVars, voteVars, policyVars, moneyVars,
                   nombaVars>>

\* (Mutant: UPDATE without the condition on the status.)
ExpireBlind(r) ==
    /\ pc[r] = "expire"
    /\ \/ /\ todo[r] = {}
          /\ Finish(r)
          /\ UNCHANGED <<status, todo>>
       \/ \E p \in todo[r] :
          /\ todo' = [todo EXCEPT ![r] = @ \ {p}]
          /\ UpdateStatus(p, "EXPIRED")
          /\ Enter(r, "release", p)
    /\ UNCHANGED <<amount, path, period, ref, click, ask, sweepAmount, used,
                   voteVars, policyVars, moneyVars, nombaVars>>

\* One turn of the loop: UPDATE ... WHERE status IN ('PENDING','PARTIAL').
Expire(r) ==
    /\ pc[r] = "expire"
    /\ \/ /\ todo[r] = {}
          /\ Finish(r)
          /\ UNCHANGED <<status, todo>>
       \/ \E p \in todo[r] :
          /\ todo' = [todo EXCEPT ![r] = @ \ {p}]
          /\ TransitionStatus(p, Awaiting, "EXPIRED")
          /\ IF status[p] \in Awaiting THEN Enter(r, "release", p) ELSE UNCHANGED procVars
    /\ UNCHANGED <<amount, path, period, ref, click, ask, sweepAmount, used,
                   voteVars, policyVars, moneyVars, nombaVars>>

-----------------------------------------------------------------------------
(* sweep.service.ts processSweep: no approval, and no lock around the read  *)
(* of the balance.                                                         *)

\* (Mutant: the fee headroom is not checked.)
SweepReadBelowFee(r) ==
    LET available == AvailableKobo(ledger) IN
    /\ pc[r] = "idle"
    /\ available >= MinBalance
    /\ sweepAmount' = [sweepAmount EXCEPT ![r] = available - Fee]
    /\ Goto(r, "sweepCreate")
    /\ UNCHANGED <<click, ask, todo, used, rowVars, voteVars, policyVars, moneyVars, nombaVars>>

SweepRead(r) ==
    LET available == AvailableKobo(ledger) IN
    /\ pc[r] = "idle"
    /\ available >= MinBalance
    /\ available > Fee
    /\ sweepAmount' = [sweepAmount EXCEPT ![r] = available - Fee]
    /\ Goto(r, "sweepCreate")
    /\ UNCHANGED <<click, ask, todo, used, rowVars, voteVars, policyVars, moneyVars, nombaVars>>

\* payoutRepository.create: the row has no locked_period_month.
SweepCreate(r, p) ==
    /\ pc[r] = "sweepCreate"
    /\ status[p] = "NONE"
    /\ UpdateStatus(p, "PENDING")
    /\ amount' = [amount EXCEPT ![p] = sweepAmount[r]]
    /\ path' = [path EXCEPT ![p] = "SWEEP"]
    /\ sweepAmount' = [sweepAmount EXCEPT ![r] = 0]
    /\ Enter(r, "sweepApprove", p)
    /\ UNCHANGED <<period, ref, click, ask, todo, used, voteVars, policyVars, moneyVars, nombaVars>>

SweepApprove(r) ==
    /\ pc[r] = "sweepApprove"
    /\ UpdateStatus(at[r], "APPROVED")
    /\ Goto(r, "sweepLock")
    /\ UNCHANGED <<amount, path, period, ref, click, used,
                   voteVars, policyVars, moneyVars, nombaVars, localVars>>

SweepLock(r) ==
    /\ pc[r] = "sweepLock"
    /\ ledger' = SoftLock(ledger, amount[at[r]])
    /\ Goto(r, "sweepFire")
    /\ UNCHANGED <<month, overlooked, click, used, rowVars, voteVars, policyVars, nombaVars,
                   localVars>>

\* (Mutant: the transfer is fired without marking the payout first.)
SweepFireUnmarked(r) ==
    /\ pc[r] = "sweepFire"
    /\ Goto(r, "call")
    /\ UNCHANGED <<click, used, rowVars, voteVars, policyVars, moneyVars, nombaVars, localVars>>

SweepFire(r) ==
    /\ pc[r] = "sweepFire"
    /\ UpdateStatus(at[r], "TRANSFERRING")
    /\ Goto(r, "call")
    /\ UNCHANGED <<amount, path, period, ref, click, used,
                   voteVars, policyVars, moneyVars, nombaVars, localVars>>

-----------------------------------------------------------------------------
(* Nomba, the bank (external), and the webhook handlers of                  *)
(* nomba-transfer.service.ts.                                              *)

\* Nomba has the outcome of a transfer and posts its webhook; a failure is
\* announced as failed, as refunded, or as both.  Without EarlyOutcome that
\* happens after the caller has stored the reference it was answered.
NombaConcludes(p) ==
    /\ nomba[p] = "processing"
    /\ EarlyOutcome \/ \A r \in Requests \cup Sweepers : at[r] = p => pc[r] # "storeRef"
    /\ \/ /\ nomba' = [nomba EXCEPT ![p] = "success"]
          /\ inbox' = inbox \cup {[p |-> p, kind |-> "payout_success"]}
       \/ /\ nomba' = [nomba EXCEPT ![p] = "failed"]
          /\ \E kinds \in SUBSET {"payout_failed", "payout_refund"} \ {{}} :
                 inbox' = inbox \cup {[p |-> p, kind |-> k] : k \in kinds}
    /\ UNCHANGED <<calls, click, used, rowVars, voteVars, policyVars, moneyVars, procVars,
                   localVars>>

\* (Mutants: the status is not checked; only payout_failed counts as failure.)
TakeEventUnchecked(w, e) ==
    /\ pc[w] = "idle"
    /\ e \in inbox
    /\ inbox' = inbox \ {e}
    /\ IF ref[e.p]
       THEN Enter(w, IF e.kind = "payout_success" THEN "settle" ELSE "refund", e.p)
       ELSE UNCHANGED procVars
    /\ UNCHANGED <<nomba, calls, click, used, rowVars, voteVars, policyVars, moneyVars, localVars>>

TakeRefundAsSuccess(w, e) ==
    /\ pc[w] = "idle"
    /\ e \in inbox
    /\ inbox' = inbox \ {e}
    /\ IF ref[e.p] /\ status[e.p] = "TRANSFERRING"
       THEN Enter(w, IF e.kind = "payout_failed" THEN "refund" ELSE "settle", e.p)
       ELSE UNCHANGED procVars
    /\ UNCHANGED <<nomba, calls, click, used, rowVars, voteVars, policyVars, moneyVars, localVars>>

\* A worker takes an event and reads the payout by nomba_transfer_ref: an
\* unknown reference or a payout not TRANSFERRING ends the handler at once.
TakeEvent(w, e) ==
    /\ pc[w] = "idle"
    /\ e \in inbox
    /\ inbox' = inbox \ {e}
    /\ IF ref[e.p] /\ status[e.p] = "TRANSFERRING"
       THEN Enter(w, IF e.kind = "payout_success" THEN "settle" ELSE "refund", e.p)
       ELSE UNCHANGED procVars
    /\ UNCHANGED <<nomba, calls, click, used, rowVars, voteVars, policyVars, moneyVars, localVars>>

\* handleTransferSuccess: one transaction, blind on the status read before.
Settle(w) ==
    LET p == at[w] IN
    /\ pc[w] = "settle"
    /\ UpdateStatus(p, "TRANSFERRED")
    /\ ledger' = DebitLedger(ledger, month, amount[p], Fee, period[p])
    /\ Finish(w)
    /\ UNCHANGED <<amount, path, period, ref, month, overlooked, click, used,
                   voteVars, policyVars, nombaVars, localVars>>

\* (Mutant: the reservation is forgotten.)
RefundKeepingLock(w) ==
    /\ pc[w] = "refund"
    /\ UpdateStatus(at[w], "FAILED")
    /\ Finish(w)
    /\ UNCHANGED <<amount, path, period, ref, click, used,
                   voteVars, policyVars, moneyVars, nombaVars, localVars>>

\* handleTransferFailed: a blind write, then releaseLock.
Refund(w) ==
    /\ pc[w] = "refund"
    /\ UpdateStatus(at[w], "FAILED")
    /\ Goto(w, "release")
    /\ UNCHANGED <<amount, path, period, ref, click, used,
                   voteVars, policyVars, moneyVars, nombaVars, localVars>>

-----------------------------------------------------------------------------
(* The rest of the world.                                                  *)

\* A member's payment reaches creditLedger.
Inflow ==
    /\ used.inflows < MaxInflows
    /\ ledger' = CreditLedger(ledger, month, InflowAmount, 0)
    /\ used' = [used EXCEPT !.inflows = @ + 1]
    /\ UNCHANGED <<month, overlooked, click, rowVars, voteVars, policyVars, nombaVars, procVars,
                   localVars>>

NextMonth ==
    /\ month < MaxMonth
    /\ month' = month + 1
    /\ UNCHANGED <<ledger, overlooked, click, used, rowVars, voteVars, policyVars, nombaVars,
                   procVars, localVars>>

\* signatoryService.updatePolicy, checked against the active approvers.
SetPolicy(n) ==
    /\ used.policies < MaxPolicyChanges
    /\ n # minApprovers
    /\ n <= Cardinality(panel)
    /\ minApprovers' = n
    /\ lowestPolicy' = IF n < lowestPolicy THEN n ELSE lowestPolicy
    /\ used' = [used EXCEPT !.policies = @ + 1]
    /\ UNCHANGED <<panel, phones, click, rowVars, voteVars, moneyVars, nombaVars, procVars,
                   localVars>>

\* The panel becomes S, the signatories with a phone number H.
SetPanel(S, H) ==
    /\ used.panel < MaxPanelChanges
    /\ panel' = S
    /\ phones' = H
    /\ used' = [used EXCEPT !.panel = @ + 1]
    /\ UNCHANGED <<minApprovers, lowestPolicy, click, rowVars, voteVars, moneyVars, nombaVars,
                   procVars, localVars>>

\* signatoryService.deactivate: enough approvers must remain for the policy.
\* That the rows are read before the UPDATE reaches no other state: a PATCH
\* may take the right away with no such check.
Deactivate(s) ==
    /\ s \in panel
    /\ Cardinality(panel \ {s}) >= minApprovers
    /\ SetPanel(panel \ {s}, phones)

\* signatoryService.update with can_approve or phone, and create for a new
\* address or for one that was deactivated before.  Only who may approve needs
\* a phone number; the one of anybody else can be taken off.
UpdateSignatory(s) ==
    \/ s \in panel /\ SetPanel(panel \ {s}, phones)
    \/ s \in phones /\ SetPanel(panel \ {s}, phones \ {s})
    \/ s \notin panel /\ SetPanel(panel \cup {s}, phones \cup {s})

\* token_expiry_hours have passed since the token was written: not while the
\* request that sends the links is still at it.
LapseLink(p, s) ==
    /\ LinksLapse
    /\ vote[p][s] = "sent"
    /\ \A r \in Requests : at[r] = p => pc[r] # "emails"
    /\ vote' = [vote EXCEPT ![p][s] = "lapsed"]
    /\ UNCHANGED <<approvers, click, used, rowVars, policyVars, moneyVars, nombaVars, procVars,
                   localVars>>

\* The executors of S stop where they are and lose their locals: an await
\* threw with no catch around it, or the process was killed.  Nothing resumes
\* them; a webhook job that threw is delivered again, found in the log by the
\* processor and dropped.
Stop(S) ==
    /\ used.faults < MaxFaults
    /\ \E r \in S : pc[r] # "idle"
    /\ pc' = [r \in Procs |-> IF r \in S THEN "idle" ELSE pc[r]]
    /\ at' = [r \in Procs |-> IF r \in S THEN NoPayout ELSE at[r]]
    /\ click' = [r \in Requests |-> IF r \in S THEN NoClick ELSE click[r]]
    /\ ask' = [r \in Requests |-> IF r \in S THEN NoAsk ELSE ask[r]]
    /\ todo' = [r \in Expirers |-> IF r \in S THEN {} ELSE todo[r]]
    /\ sweepAmount' = [r \in Sweepers |-> IF r \in S THEN 0 ELSE sweepAmount[r]]
    /\ used' = [used EXCEPT !.faults = @ + 1]
    /\ UNCHANGED <<rowVars, voteVars, policyVars, moneyVars, nombaVars>>

Abort(r) == Stop({r})
Restart  == Stop(Procs)

-----------------------------------------------------------------------------
\* What a request does once it has been accepted.
RequestStep(r) ==
    \/ \E p \in PayoutIds : CheckAndLock(r, p)
    \/ RefuseLock(r)
    \/ \E s \in Signatories : SendEmail(r, s)
    \/ Advance(r)
    \/ LoadPayout(r) \/ RecordAction(r) \/ Decline(r) \/ ReadPolicy(r)
    \/ CheckQuorum(r) \/ MarkPartial(r) \/ AnswerInvalid(r) \/ Approve(r)
    \/ StartTransfer(r)
    \/ CallNomba(r) \/ StoreRef(r) \/ FailTransfer(r) \/ Release(r)
    \/ Cancel(r)

SweepStep(r) ==
    \/ \E p \in PayoutIds : SweepCreate(r, p)
    \/ SweepApprove(r) \/ SweepLock(r) \/ SweepFire(r)
    \/ CallNomba(r) \/ StoreRef(r) \/ FailTransfer(r) \/ Release(r)

ExpiryStep(r) == Expire(r) \/ Release(r)

WorkerStep(w) == Settle(w) \/ Refund(w) \/ Release(w)

\* Requests that users may make, at any time or never.
UserRequest(r) ==
    \/ \E a \in Amounts : Initiate(r, a)
    \/ \E p \in PayoutIds, s \in Signatories, act \in {"APPROVED", "DECLINED"} :
           ClickLink(r, p, s, act)
    \/ \E p \in PayoutIds : LoadCancel(r, p)

Environment ==
    \/ Inflow
    \/ NextMonth
    \/ \E n \in Policies : SetPolicy(n)
    \/ \E s \in Signatories : Deactivate(s) \/ UpdateSignatory(s)
    \/ \E p \in PayoutIds, s \in Signatories : LapseLink(p, s)
    \/ \E r \in Procs : Abort(r)
    \/ Restart

Next ==
    \/ \E r \in Requests : UserRequest(r) \/ RequestStep(r)
    \/ \E r \in Expirers : SelectExpired(r) \/ ExpiryStep(r)
    \/ \E r \in Sweepers : SweepRead(r) \/ SweepStep(r)
    \/ \E w \in Workers : (\E e \in Event : TakeEvent(w, e)) \/ WorkerStep(w)
    \/ \E p \in PayoutIds : NombaConcludes(p)
    \/ Environment

Spec == Init /\ [][Next]_vars

\* Executors that have work do it; the workers poll the queue; Nomba decides
\* every transfer it accepted; the hourly expiry job runs for ever and, once
\* a payout is overdue, every later run selects it.
Fairness ==
    /\ \A r \in Requests : WF_vars(RequestStep(r))
    /\ \A r \in Sweepers : WF_vars(SweepStep(r))
    /\ \A r \in Expirers : WF_vars(ExpiryStep(r))
    /\ \A w \in Workers : WF_vars(WorkerStep(w))
    /\ \A w \in Workers : WF_vars(\E e \in Event : TakeEvent(w, e))
    /\ \A p \in PayoutIds : WF_vars(NombaConcludes(p))
    /\ \A r \in Expirers, p \in PayoutIds :
           SF_vars(SelectExpired(r) /\ p \in todo'[r])

FairSpec == Spec /\ Fairness

-----------------------------------------------------------------------------
(* Properties.                                                             *)

Click == [s : Signatories \cup {NoSignatory}, act : {"NONE", "APPROVED", "DECLINED"},
          seen : {"NONE", "PENDING", "PARTIAL"}, need : Policies \cup {0}]

Vote == {"none", "due", "sent", "lapsed", "APPROVED", "DECLINED"}

Ask == [amount : Amounts \cup {0}, list : SUBSET Signatories, rows : SUBSET (1 .. MaxMonth)]

TypeOK ==
    /\ status \in [PayoutIds -> Lifecycle!Status]
    /\ amount \in [PayoutIds -> Nat]
    /\ path \in [PayoutIds -> {"NONE", "MANUAL", "APPROVAL", "SWEEP"}]
    /\ period \in [PayoutIds -> NoPeriod .. MaxMonth]
    /\ ref \in [PayoutIds -> BOOLEAN]
    /\ vote \in [PayoutIds -> [Signatories -> Vote]]
    /\ approvers \in [PayoutIds -> SUBSET Signatories]
    /\ minApprovers \in Policies /\ lowestPolicy \in Policies
    /\ panel \subseteq Signatories /\ phones \subseteq Signatories
    /\ month \in 1 .. MaxMonth
    /\ overlooked \in Nat
    /\ DOMAIN ledger \in SUBSET (1 .. MaxMonth) /\ ledger \in [DOMAIN ledger -> Row]
    /\ nomba \in [PayoutIds -> {"none", "processing", "success", "failed"}]
    /\ inbox \subseteq Event
    /\ calls \in [PayoutIds -> Nat]
    /\ pc \in [Procs -> Pcs] /\ at \in [Procs -> PayoutIds \cup {NoPayout}]
    /\ click \in [Requests -> Click]
    /\ ask \in [Requests -> Ask]
    /\ todo \in [Expirers -> SUBSET PayoutIds]
    /\ sweepAmount \in [Sweepers -> Nat]
    /\ used \in [inflows : 0 .. MaxInflows, policies : 0 .. MaxPolicyChanges,
                 panel : 0 .. MaxPanelChanges, faults : 0 .. MaxFaults]

\* Every path moves a payout along the documented table, asks the bank for the
\* transfer at most once and only while TRANSFERRING, and never leaves a
\* terminal status, however the requests, the expiry job, cancellations and
\* webhooks interleave (the compare-and-set writes, payout.repository.ts:84).
ImplementsLifecycle == Lifecycle!LifecycleSpec

\* What makes the unconditional writes safe: whoever is about to move a payout
\* blindly, or to ask the bank for it, is the only one at that stage, and the
\* status still is the one it last wrote or read.
Driving == {"start", "call", "storeRef", "failed", "sweepApprove", "sweepLock", "sweepFire"}

FiringDiscipline ==
    /\ \A r, q \in Procs :
          at[r] = at[q] /\ pc[r] \in Driving /\ pc[q] \in Driving => r = q
    /\ \A r \in Procs :
          /\ pc[r] = "sweepApprove" => status[at[r]] = "PENDING"
          /\ pc[r] \in {"start", "sweepLock", "sweepFire"} => status[at[r]] = "APPROVED"
          /\ pc[r] \in {"call", "storeRef", "failed"} =>
                status[at[r]] = "TRANSFERRING" /\ ~ref[at[r]]
          /\ pc[r] = "call" => calls[at[r]] = 0
          /\ pc[r] \in {"settle", "refund"} =>
                status[at[r]] = "TRANSFERRING" /\ ref[at[r]]

\* Money above the threshold leaves only behind as many different approvers as
\* the policy demanded at some time during the payout's life, whatever
\* concurrent or repeated clicks, policy changes and expiry do.
QuorumBehindTransfer ==
    \A p \in PayoutIds :
        path[p] = "APPROVAL"
          /\ status[p] \in {"APPROVED", "TRANSFERRING", "TRANSFERRED", "FAILED"} =>
        Cardinality(approvers[p]) >= lowestPolicy

\* No lost wake-up: when no click is in flight, a payout that still awaits
\* approval has no recorded decline and fewer approvals than the policy asks
\* for.  Two last approvers who click at once cannot both stop short.
\* (While the policy is unchanged and no executor was stopped half-way.)
NoVoteForgotten ==
    used.policies = 0 /\ used.faults = 0 =>
    \A p \in PayoutIds :
        status[p] \in Awaiting /\ (\A r \in Requests : at[r] = p => pc[r] \notin ClickPcs)
        => /\ VotesFor(p, "DECLINED") = {}
           /\ Cardinality(VotesFor(p, "APPROVED")) < minApprovers

\* Signatory s has approved p, or holds a link that works or is about to be sent.
CanStillCount(p, s) ==
    /\ s # Initiator
    /\ \/ vote[p][s] \in {"due", "APPROVED"}
       \/ vote[p][s] = "sent" /\ s \in phones

\* A payout that still awaits approval can get it while its links last: the
\* signatories who hold a link they can use or have approved suffice for the
\* policy, whoever was deactivated, lost the right to approve or was added
\* meanwhile, and the initiator is not among them.  (While the policy is
\* unchanged and no executor was stopped half-way, no link of the payout has
\* lapsed, token.service.ts:88, and nobody who holds one lost the phone number
\* approval.service.ts:250 asks for.)
QuorumReachable ==
    used.policies = 0 /\ used.faults = 0 =>
    \A p \in PayoutIds :
        /\ path[p] = "APPROVAL" /\ status[p] \in Awaiting /\ VotesFor(p, "DECLINED") = {}
        /\ VotesFor(p, "lapsed") = {} /\ VotesFor(p, "sent") \subseteq phones
        => Cardinality({s \in Signatories : CanStillCount(p, s)}) >= minApprovers

\* A payout holds its reservation while it is live, and whoever has made it
\* dead holds it until it has released it.
Held(p) ==
    amount[p] * (Cardinality({r \in Procs : pc[r] = "release" /\ at[r] = p})
                 + IF status[p] \in Live THEN 1 ELSE 0)

\* Each ledger row's soft lock is exactly what the payouts locked on it hold:
\* nothing is released twice, on another month's row, or not at all.  (While no
\* executor was stopped half-way.)
LockConservation ==
    used.faults = 0 =>
    \A q \in DOMAIN ledger :
        ledger[q].softLock =
            SumFunctionOnSet([p \in PayoutIds |-> Held(p)], {p \in PayoutIds : period[p] = q})

\* The same when executors may stop anywhere: a lock may then be stranded, but
\* a payout that is still live is never without its reservation.
LocksCoverLive ==
    \A q \in DOMAIN ledger :
        ledger[q].softLock >=
            SumFunctionOnSet(amount, {p \in PayoutIds : period[p] = q /\ status[p] \in Live})

\* The fund promises or pays more than members put in only by what requests
\* were granted while a row of the fund was missing from what they had found:
\* checkAndLock sums the rows its SELECT started with (ledger.service.ts:159), and
\* a debit that makes a new month's row meanwhile is seen without what it paid.
\* Requests that overlap in any other way cannot both take the same money.
NotOvercommitted ==
    PaidOutKobo(ledger) + SoftLockKobo(ledger) <= CollectedKobo(ledger) + overlooked

\* The ledger's outflow is the sum of the TRANSFERRED payouts: each is debited
\* once, no other is, whatever webhooks arrive and whoever stops.
DebitsMatchTransfers ==
    PaidOutKobo(ledger) =
        SumFunctionOnSet(amount, {p \in PayoutIds : status[p] = "TRANSFERRED"})

\* A final status says what happened at the bank.
OutcomeAgrees ==
    \A p \in PayoutIds :
        /\ status[p] = "TRANSFERRED" => nomba[p] = "success"
        /\ status[p] = "FAILED" => nomba[p] \in {"none", "failed"}

\* Every payout reaches an outcome.
EveryPayoutConcludes ==
    \A p \in PayoutIds : status[p] \in Live ~> status[p] \notin Live

\* A transfer the bank has carried out is recorded: the webhook completes the
\* status (maunal-payout.service.ts:25).
SuccessIsRecorded ==
    \A p \in PayoutIds : nomba[p] = "success" ~> status[p] = "TRANSFERRED"

\* Reservations do not leak: when the last payout has ended, none is left.
LocksComeBack == <>[](SoftLockKobo(ledger) = 0)

=============================================================================
