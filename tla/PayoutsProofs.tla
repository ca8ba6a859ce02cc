---------------------------- MODULE PayoutsProofs ----------------------------
(***************************************************************************)
(* Proofs about Payouts.tla, for any number of payouts, signatories and    *)
(* requests, any amounts and policies, any number of faults, lost answers  *)
(* and early webhooks.  Events are taken by one worker at a time, and a    *)
(* payout of a sweep is not cancelled in the instant before the sweep      *)
(* approves it.                                                            *)
(*                                                                         *)
(* In this order: the blind writes of the payout code are safe, and a      *)
(* payout follows PayoutLifecycle.tla (FiringInv); a transfer has its      *)
(* quorum, and the quorum stays within reach (QuorumInv, ReachInv); sums   *)
(* over finite sets and the totals of a ledger; the type invariant         *)
(* (BooksTypeOK); each transfer is debited once; outcomes are the bank's   *)
(* (OutcomeInv); reservations are conserved and cover what is live         *)
(* (Custody, LocksInv), with sweeps for the fund as a whole (FundInv); no  *)
(* vote is forgotten (VotesInv).  Each of the later invariants uses        *)
(* FiringInv before and after a step.                                      *)
(***************************************************************************)
EXTENDS Payouts, FiniteSetTheorems, TLAPS

OneWorker == \A v, w \in Workers : v = w

SweepsUndisturbed == CancelInFlight => Sweepers = {}

\* The part of TypeOK that the argument uses.
LifecycleTypeOK ==
    /\ status \in [PayoutIds -> Lifecycle!Status]
    /\ ref \in [PayoutIds -> BOOLEAN]
    /\ calls \in [PayoutIds -> Nat]
    /\ vote \in [PayoutIds -> [Signatories -> Vote]]
    /\ pc \in [Procs -> Pcs]
    /\ at \in [Procs -> PayoutIds \cup {NoPayout}]
    /\ todo \in [Expirers -> SUBSET PayoutIds]
    /\ click \in [Requests -> Click] /\ DOMAIN ask = Requests
    /\ minApprovers \in Policies /\ lowestPolicy \in Policies
    /\ approvers \in [PayoutIds -> SUBSET Signatories]
    /\ path \in [PayoutIds -> {"NONE", "MANUAL", "APPROVAL", "SWEEP"}]

Unattached == {"idle", "lock", "expire", "sweepCreate"}

\* Nobody but the sweep itself knows of the payout it has just created.
Untouched(p) ==
    /\ \A s \in Signatories : vote[p][s] = "none"
    /\ \A e \in Expirers : p \notin todo[e]

\* Where each executor is, beyond FiringDiscipline.
Placement ==
    \A r \in Procs :
        /\ pc[r] \in Unattached <=> at[r] = NoPayout
        /\ pc[r] = "expire" => r \in Expirers
        /\ pc[r] \in {"sweepCreate", "sweepApprove", "sweepLock", "sweepFire"} => r \in Sweepers
        /\ pc[r] \in {"storeRef", "failed"} => calls[at[r]] = 1
        /\ pc[r] \in {"settle", "refund"} => r \in Workers
        /\ pc[r] = "sweepApprove" =>
              Untouched(at[r]) /\ \A q \in Procs : at[q] = at[r] => q = r

\* What a request in flight has found out so far.
Clicks ==
    \A r \in Requests :
        /\ pc[r] \in ClickPcs =>
              click[r].act \in {"APPROVED", "DECLINED"} /\ click[r].s \in Signatories
        /\ pc[r] = "quorum" => click[r].need \in Policies
        /\ pc[r] = "lock" =>
              ask[r].amount # 0 /\ (ask[r].amount < Threshold => ask[r].list = {})

\* What the status of a payout says of the transfer.
Stages ==
    \A p \in PayoutIds :
        /\ status[p] \in {"NONE", "PENDING", "PARTIAL", "APPROVED"} => calls[p] = 0
        /\ ref[p] => calls[p] = 1
        /\ status[p] = "NONE" => Untouched(p) /\ \A q \in Procs : at[q] # p

\* The inductive invariant.
FiringInv ==
    LifecycleTypeOK /\ FiringDiscipline /\ Placement /\ Clicks /\ Stages

\* Nothing has happened in an initial state.
LEMMA FiringInit == Init => FiringInv
<1> SUFFICES ASSUME Init PROVE FiringInv
  OBVIOUS
<1>1. NoClick \in Click
  BY PayoutsAssumption DEF NoClick, Click
<1>2. LifecycleTypeOK
  BY <1>1, PayoutsAssumption DEF Init, LifecycleTypeOK, Vote, Pcs, Lifecycle!Status
<1>3. FiringDiscipline /\ Placement /\ Clicks
  BY PayoutsAssumption
  DEF Init, FiringDiscipline, Placement, Clicks, Unattached, Driving, ClickPcs, Procs
<1>4. Stages
  BY PayoutsAssumption DEF Init, Stages, Untouched
<1> QED
  BY <1>2, <1>3, <1>4 DEF FiringInv

\* The program counters the actions go to.
LEMMA StepNames ==
  {"idle", "lock", "emails", "advance", "load", "record", "policy", "quorum", "partial",
   "invalid", "approve", "decline", "start", "call", "storeRef", "failed",
   "release", "cancel", "expire", "settle", "refund",
   "sweepCreate", "sweepApprove", "sweepLock", "sweepFire"} \subseteq Pcs
  BY DEF Pcs, ClickPcs

\* Requests, workers and jobs are executors.
LEMMA Members ==
  Requests \subseteq Procs /\ Workers \subseteq Procs /\ Expirers \subseteq Procs /\ Sweepers \subseteq Procs
  BY DEF Procs

\* Filling in what a click has read keeps it a click.
LEMMA ClickSteps ==
  ASSUME NEW c \in Click
  PROVE  /\ \A x \in {"PENDING", "PARTIAL"} : [c EXCEPT !.seen = x] \in Click
         /\ \A n \in Policies : [c EXCEPT !.need = n] \in Click
  BY DEF Click

\* An executor in the middle of something works on a payout.
LEMMA Attached ==
  ASSUME LifecycleTypeOK, Placement, NEW r \in Procs, pc[r] \notin Unattached
  PROVE  at[r] \in PayoutIds
  BY DEF LifecycleTypeOK, Placement

\* Every step keeps the types.
LEMMA TypeNext ==
  ASSUME LifecycleTypeOK, Placement, Clicks, Next PROVE LifecycleTypeOK'
<1>a. NoClick \in Click
  BY PayoutsAssumption DEF NoClick, Click
<1>b. \A r \in Procs : pc[r] \notin Unattached => at[r] \in PayoutIds
  BY Attached
<1> USE DEF LifecycleTypeOK, Vote,
        Enter, Goto, Finish, UpdateStatus, TransitionStatus, Awaiting,
        rowVars, voteVars, policyVars, moneyVars, nombaVars, procVars, localVars
<1>1. ASSUME NEW r \in Requests, NEW p \in PayoutIds, CheckAndLock(r, p)
      PROVE  LifecycleTypeOK'
  <2>a. r \in Procs
    BY Members
  <2> QED
    BY <1>a, <2>a, <1>1, StepNames DEF CheckAndLock, Lifecycle!Status
<1>2. ASSUME NEW r \in Requests, NEW s \in Signatories, SendEmail(r, s)
      PROVE  LifecycleTypeOK'
  <2>a. r \in Procs /\ at[r] \in PayoutIds
    BY <1>2, Attached, Members DEF SendEmail, Unattached
  <2>1. CASE \A o \in Signatories \ {s} : vote[at[r]][o] # "due"
    BY <1>a, <2>a, <1>2, <2>1, StepNames DEF SendEmail, Lifecycle!Status
  <2>2. CASE ~(\A o \in Signatories \ {s} : vote[at[r]][o] # "due")
    BY <1>a, <2>a, <1>2, <2>2, StepNames DEF SendEmail, Lifecycle!Status
  <2> QED BY <2>1, <2>2
<1>3. ASSUME NEW r \in Requests, Advance(r) PROVE LifecycleTypeOK'
  <2>a. r \in Procs /\ at[r] \in PayoutIds
    BY <1>3, Attached, Members DEF Advance, Unattached
  <2> QED
    BY <1>a, <2>a, <1>3, StepNames DEF Advance, Lifecycle!Status
<1>4. ASSUME NEW r \in Requests, NEW p \in PayoutIds, NEW s \in Signatories,
             NEW act \in {"APPROVED", "DECLINED"}, ClickLink(r, p, s, act)
      PROVE  LifecycleTypeOK'
  <2>a. r \in Procs
    BY Members
  <2>1. [s |-> s, act |-> act, seen |-> "NONE", need |-> 0] \in Click
    BY DEF Click
  <2> QED
    BY <1>a, <2>a, <1>4, <2>1, StepNames DEF ClickLink, Lifecycle!Status
<1>5. ASSUME NEW r \in Requests, LoadPayout(r) PROVE LifecycleTypeOK'
  <2>a. r \in Procs /\ at[r] \in PayoutIds
    BY <1>5, Attached, Members DEF LoadPayout, Unattached
  <2>1. CASE status[at[r]] \in Awaiting
    <3>1. [click[r] EXCEPT !.seen = status[at[r]]] \in Click
      BY <2>1, ClickSteps DEF LifecycleTypeOK, Awaiting
    <3> QED
      BY <1>a, <2>a, <1>5, <2>1, <3>1, StepNames, ZenonT(60) DEF LoadPayout, Lifecycle!Status
  <2>2. CASE ~(status[at[r]] \in Awaiting)
    BY <1>a, <2>a, <1>5, <2>2, StepNames, ZenonT(60) DEF LoadPayout, Lifecycle!Status
  <2> QED BY <2>1, <2>2
<1>6. ASSUME NEW r \in Requests, RecordAction(r) PROVE LifecycleTypeOK'
  <2>a. r \in Procs /\ at[r] \in PayoutIds
    BY <1>6, Attached, Members DEF RecordAction, Unattached
  <2>1. click[r].act \in {"APPROVED", "DECLINED"} /\ click[r].s \in Signatories
    BY <1>6 DEF RecordAction, Clicks, ClickPcs
  <2> QED
    BY <1>a, <2>a, <1>6, <2>1, StepNames DEF RecordAction, Lifecycle!Status
<1>7. ASSUME NEW r \in Requests, Decline(r) PROVE LifecycleTypeOK'
  <2>a. r \in Procs /\ at[r] \in PayoutIds
    BY <1>7, Attached, Members DEF Decline, Unattached
  <2>1. CASE status[at[r]] \in Awaiting
    BY <1>a, <2>a, <1>7, <2>1, StepNames DEF Decline, Lifecycle!Status
  <2>2. CASE ~(status[at[r]] \in Awaiting)
    BY <1>a, <2>a, <1>7, <2>2, StepNames DEF Decline, Lifecycle!Status
  <2> QED BY <2>1, <2>2
<1>8. ASSUME NEW r \in Requests, ReadPolicy(r) PROVE LifecycleTypeOK'
  <2>a. r \in Procs /\ at[r] \in PayoutIds
    BY <1>8, Attached, Members DEF ReadPolicy, Unattached
  <2>1. [click[r] EXCEPT !.need = minApprovers] \in Click
    BY ClickSteps DEF LifecycleTypeOK
  <2> QED
    BY <1>a, <2>a, <1>8, <2>1, StepNames DEF ReadPolicy, Lifecycle!Status
<1>9. ASSUME NEW r \in Requests, CheckQuorum(r) PROVE LifecycleTypeOK'
  <2>a. r \in Procs /\ at[r] \in PayoutIds
    BY <1>9, Attached, Members DEF CheckQuorum, Unattached
  <2> QED
    BY <1>a, <2>a, <1>9, StepNames DEF CheckQuorum, Lifecycle!Status
<1>10. ASSUME NEW r \in Requests, MarkPartial(r) PROVE LifecycleTypeOK'
  <2>a. r \in Procs /\ at[r] \in PayoutIds
    BY <1>10, Attached, Members DEF MarkPartial, Unattached
  <2> QED
    BY <1>a, <2>a, <1>10, StepNames DEF MarkPartial, Lifecycle!Status
<1>11. ASSUME NEW r \in Requests, AnswerInvalid(r) PROVE LifecycleTypeOK'
  <2>a. r \in Procs /\ at[r] \in PayoutIds
    BY <1>11, Attached, Members DEF AnswerInvalid, Unattached
  <2> QED
    BY <1>a, <2>a, <1>11, StepNames DEF AnswerInvalid, Lifecycle!Status
<1>12. ASSUME NEW r \in Requests, Approve(r) PROVE LifecycleTypeOK'
  <2>a. r \in Procs /\ at[r] \in PayoutIds
    BY <1>12, Attached, Members DEF Approve, Unattached
  <2>1. CASE status[at[r]] \in Awaiting
    BY <1>a, <2>a, <1>12, <2>1, StepNames DEF Approve, Lifecycle!Status
  <2>2. CASE ~(status[at[r]] \in Awaiting)
    BY <1>a, <2>a, <1>12, <2>2, StepNames DEF Approve, Lifecycle!Status
  <2> QED BY <2>1, <2>2
<1>13. ASSUME NEW r \in Requests, StartTransfer(r) PROVE LifecycleTypeOK'
  <2>a. r \in Procs /\ at[r] \in PayoutIds
    BY <1>13, Attached, Members DEF StartTransfer, Unattached
  <2> QED
    BY <1>a, <2>a, <1>13, StepNames DEF StartTransfer, Lifecycle!Status
<1>14. ASSUME NEW r \in Procs, CallNomba(r) PROVE LifecycleTypeOK'
  <2>a. r \in Procs /\ at[r] \in PayoutIds
    BY <1>14, Attached, Members DEF CallNomba, Unattached
  <2>1. calls' \in [PayoutIds -> Nat]
    BY <2>a, <1>14 DEF CallNomba, LifecycleTypeOK
  <2>2. pc' \in [Procs -> Pcs] /\ at' = at
    BY <2>a, <1>14, StepNames, SMTT(30) DEF CallNomba, Goto, LifecycleTypeOK
  <2> QED
    BY <1>14, <2>1, <2>2
    DEF CallNomba, rowVars, voteVars, policyVars, localVars, LifecycleTypeOK
<1>15. ASSUME NEW r \in Procs, StoreRef(r) PROVE LifecycleTypeOK'
  <2>a. r \in Procs /\ at[r] \in PayoutIds
    BY <1>15, Attached, Members DEF StoreRef, Unattached
  <2> QED
    BY <1>a, <2>a, <1>15, StepNames DEF StoreRef, Lifecycle!Status
<1>16. ASSUME NEW r \in Procs, FailTransfer(r) PROVE LifecycleTypeOK'
  <2>a. r \in Procs /\ at[r] \in PayoutIds
    BY <1>16, Attached, Members DEF FailTransfer, Unattached
  <2> QED
    BY <1>a, <2>a, <1>16, StepNames DEF FailTransfer, Lifecycle!Status
<1>17. ASSUME NEW r \in Procs, Release(r) PROVE LifecycleTypeOK'
  <2>a. r \in Procs /\ at[r] \in PayoutIds
    BY <1>17, Attached, Members DEF Release, Unattached
  <2>1. CASE r \in Expirers
    BY <1>a, <2>a, <1>17, <2>1, StepNames DEF Release, Lifecycle!Status
  <2>2. CASE ~(r \in Expirers)
    BY <1>a, <2>a, <1>17, <2>2, StepNames, ZenonT(60) DEF Release, Lifecycle!Status
  <2> QED BY <2>1, <2>2
<1>18. ASSUME NEW r \in Requests, NEW p \in PayoutIds, LoadCancel(r, p)
       PROVE  LifecycleTypeOK'
  <2>a. r \in Procs
    BY Members
  <2> QED
    BY <1>a, <2>a, <1>18, StepNames DEF LoadCancel, Lifecycle!Status
<1>19. ASSUME NEW r \in Requests, Cancel(r) PROVE LifecycleTypeOK'
  <2>a. r \in Procs /\ at[r] \in PayoutIds
    BY <1>19, Attached, Members DEF Cancel, Unattached
  <2>1. CASE status[at[r]] = "PENDING"
    BY <1>a, <2>a, <1>19, <2>1, StepNames DEF Cancel, Lifecycle!Status
  <2>2. CASE ~(status[at[r]] = "PENDING")
    BY <1>a, <2>a, <1>19, <2>2, StepNames, ZenonT(60) DEF Cancel, Lifecycle!Status
  <2> QED BY <2>1, <2>2
<1>20. ASSUME NEW r \in Expirers, SelectExpired(r) PROVE LifecycleTypeOK'
  <2>a. r \in Procs
    BY Members
  <2> QED
    BY <1>a, <2>a, <1>20, StepNames DEF SelectExpired, Lifecycle!Status
<1>21. ASSUME NEW r \in Expirers, Expire(r) PROVE LifecycleTypeOK'
  <2>a. r \in Procs
    BY Members
  <2>1. CASE todo[r] = {} /\ Finish(r) /\ UNCHANGED <<status, todo>>
    BY <1>a, <2>a, <1>21, <2>1, StepNames DEF Expire, Lifecycle!Status
  <2>2. ASSUME NEW p \in todo[r], todo' = [todo EXCEPT ![r] = @ \ {p}],
               TransitionStatus(p, Awaiting, "EXPIRED"),
               IF status[p] \in Awaiting THEN Enter(r, "release", p) ELSE UNCHANGED procVars
        PROVE  LifecycleTypeOK'
    <3>1. p \in PayoutIds
      BY DEF LifecycleTypeOK
    <3>2. status' \in [PayoutIds -> Lifecycle!Status]
      BY <2>2, <3>1 DEF TransitionStatus, LifecycleTypeOK, Lifecycle!Status
    <3>3. pc' \in [Procs -> Pcs] /\ at' \in [Procs -> PayoutIds \cup {NoPayout}]
      BY <2>a, <2>2, <3>1, StepNames DEF Enter, procVars, LifecycleTypeOK
    <3>4. todo' \in [Expirers -> SUBSET PayoutIds]
      BY <2>2, <3>1 DEF LifecycleTypeOK
    <3> QED
      BY <1>21, <3>2, <3>3, <3>4 DEF Expire, voteVars, policyVars, nombaVars,
          LifecycleTypeOK
  <2> QED BY <1>21, <2>1, <2>2 DEF Expire
<1>22. ASSUME NEW r \in Sweepers, SweepRead(r) PROVE LifecycleTypeOK'
  <2>a. r \in Procs
    BY Members
  <2> QED
    BY <1>a, <2>a, <1>22, StepNames DEF SweepRead, Lifecycle!Status
<1>23. ASSUME NEW r \in Sweepers, NEW p \in PayoutIds, SweepCreate(r, p)
       PROVE  LifecycleTypeOK'
  <2>a. r \in Procs
    BY Members
  <2> QED
    BY <1>a, <2>a, <1>23, StepNames DEF SweepCreate, Lifecycle!Status
<1>24. ASSUME NEW r \in Sweepers, SweepApprove(r) PROVE LifecycleTypeOK'
  <2>a. r \in Procs /\ at[r] \in PayoutIds
    BY <1>24, Attached, Members DEF SweepApprove, Unattached
  <2> QED
    BY <1>a, <2>a, <1>24, StepNames DEF SweepApprove, Lifecycle!Status
<1>25. ASSUME NEW r \in Sweepers, SweepLock(r) PROVE LifecycleTypeOK'
  <2>a. r \in Procs /\ at[r] \in PayoutIds
    BY <1>25, Attached, Members DEF SweepLock, Unattached
  <2> QED
    BY <1>a, <2>a, <1>25, StepNames DEF SweepLock, Lifecycle!Status
<1>26. ASSUME NEW r \in Sweepers, SweepFire(r) PROVE LifecycleTypeOK'
  <2>a. r \in Procs /\ at[r] \in PayoutIds
    BY <1>26, Attached, Members DEF SweepFire, Unattached
  <2> QED
    BY <1>a, <2>a, <1>26, StepNames DEF SweepFire, Lifecycle!Status
<1>27. ASSUME NEW p \in PayoutIds, NombaConcludes(p) PROVE LifecycleTypeOK'
  <2> QED
    BY <1>a, PayoutsAssumption, <1>27, StepNames DEF NombaConcludes, Lifecycle!Status
<1>28. ASSUME NEW w \in Workers, NEW e \in Event, TakeEvent(w, e)
       PROVE  LifecycleTypeOK'
  <2>a. w \in Procs
    BY Members
  <2>1. CASE UNCHANGED procVars
    BY <1>28, <2>1
    DEF TakeEvent, procVars, rowVars, voteVars, policyVars, localVars, LifecycleTypeOK
  <2>2. ASSUME NEW step \in {"settle", "refund"}, Enter(w, step, e.p) PROVE LifecycleTypeOK'
    <3>1. e.p \in PayoutIds
      BY DEF Event
    <3>2. pc' \in [Procs -> Pcs] /\ at' \in [Procs -> PayoutIds \cup {NoPayout}]
      BY <2>a, <2>2, <3>1, StepNames DEF Enter, LifecycleTypeOK
    <3> QED
      BY <1>28, <3>2
      DEF TakeEvent, rowVars, voteVars, policyVars, localVars, LifecycleTypeOK
  <2> QED
    BY <1>28, <2>1, <2>2 DEF TakeEvent
<1>29. ASSUME NEW w \in Workers, Settle(w) PROVE LifecycleTypeOK'
  <2>a. w \in Procs /\ at[w] \in PayoutIds
    BY <1>29, Attached, Members DEF Settle, Unattached
  <2> QED
    BY <1>a, <2>a, <1>29, StepNames DEF Settle, Lifecycle!Status
<1>30. ASSUME NEW w \in Workers, Refund(w) PROVE LifecycleTypeOK'
  <2>a. w \in Procs /\ at[w] \in PayoutIds
    BY <1>30, Attached, Members DEF Refund, Unattached
  <2> QED
    BY <1>a, <2>a, <1>30, StepNames DEF Refund, Lifecycle!Status
<1>31. ASSUME NEW n \in Policies, SetPolicy(n) PROVE LifecycleTypeOK'
  <2> QED
    BY <1>a, PayoutsAssumption, <1>31, StepNames DEF SetPolicy, Lifecycle!Status
<1>32. ASSUME NEW S \in SUBSET Procs, Stop(S) PROVE LifecycleTypeOK'
  <2> QED
    BY <1>a, PayoutsAssumption, <1>32, StepNames DEF Stop, Lifecycle!Status
<1>33. ASSUME Inflow PROVE LifecycleTypeOK'
  BY <1>33 DEF Inflow, LifecycleTypeOK
<1>34. ASSUME NextMonth PROVE LifecycleTypeOK'
  BY <1>34 DEF NextMonth, LifecycleTypeOK
<1>35. ASSUME NEW S, NEW H, SetPanel(S, H) PROVE LifecycleTypeOK'
  BY <1>35 DEF SetPanel, LifecycleTypeOK
<1>36. ASSUME NEW s \in Signatories, Deactivate(s) \/ UpdateSignatory(s)
       PROVE  LifecycleTypeOK'
  BY <1>35, <1>36 DEF Deactivate, UpdateSignatory
<1>37. ASSUME NEW r \in Requests, NEW a \in Amounts, Initiate(r, a) PROVE LifecycleTypeOK'
  <2>a. r \in Procs
    BY Members
  <2> QED
    BY <1>37, <2>a, StepNames DEF Initiate
<1>38. ASSUME NEW r \in Requests, RefuseLock(r) PROVE LifecycleTypeOK'
  <2>a. r \in Procs
    BY Members
  <2> QED
    BY <1>38, <2>a, StepNames DEF RefuseLock
<1>39. ASSUME NEW p \in PayoutIds, NEW s \in Signatories, LapseLink(p, s) PROVE LifecycleTypeOK'
  BY <1>39 DEF LapseLink
<1> HIDE DEF LifecycleTypeOK, Vote, FiringDiscipline, Placement, Stages, Untouched,
        Enter, Goto, Finish, UpdateStatus, TransitionStatus, Awaiting,
        rowVars, voteVars, policyVars, moneyVars, nombaVars, procVars, localVars
<1> QED
  BY <1>1, <1>2, <1>3, <1>4, <1>5, <1>6, <1>7, <1>8, <1>9, <1>10, <1>11, <1>12, <1>13,
      <1>14, <1>15, <1>16, <1>17, <1>18, <1>19, <1>20, <1>21, <1>22, <1>23, <1>24,
      <1>25, <1>26, <1>27, <1>28, <1>29, <1>30, <1>31, <1>32, <1>33, <1>34,
      <1>36, <1>37, <1>38, <1>39, Members
  DEF Next, UserRequest, RequestStep, SweepStep, ExpiryStep, WorkerStep, Environment,
      Abort, Restart

\* An executor that only leaves its payout disturbs nobody.
LEMMA Withdrawal ==
  ASSUME LifecycleTypeOK, FiringDiscipline, NEW r \in Procs,
         NEW step \in {"idle", "expire", "release"}, NEW p, Enter(r, step, p),
         UNCHANGED <<status, ref, calls>>
  PROVE  FiringDiscipline'
<1>1. \A q \in Procs : pc'[q] \in Driving \cup {"settle", "refund"} =>
                         q # r /\ pc'[q] = pc[q] /\ at'[q] = at[q]
  BY DEF LifecycleTypeOK, Enter, Driving
<1> QED
  BY <1>1 DEF FiringDiscipline, Driving

\* Every step keeps the inductive invariant.
LEMMA FiringNext ==
  ASSUME OneWorker, SweepsUndisturbed, FiringInv, Next PROVE FiringInv'
<1> USE PayoutsAssumption
    DEF FiringInv, LifecycleTypeOK, FiringDiscipline, Placement, Stages, Untouched,
        Unattached,
        Driving,
        Enter, Goto, Finish, UpdateStatus, TransitionStatus, Awaiting,
        rowVars, voteVars, policyVars, moneyVars, nombaVars, procVars, localVars
<1>a. LifecycleTypeOK'
  BY TypeNext
<1>1. ASSUME NEW r \in Requests, NEW p \in PayoutIds, CheckAndLock(r, p)
      PROVE  (FiringDiscipline /\ Placement /\ Clicks /\ Stages)'
  <2>a. r \in Procs
    BY Members
  <2>1. FiringDiscipline'
    BY <2>a, <1>1, Members DEF CheckAndLock
  <2>2. Placement'
    BY <2>a, <1>1, Members DEF CheckAndLock, Event, Procs
  <2>3. Clicks'
    BY <2>a, <1>1, Members DEF CheckAndLock, Clicks, ClickPcs, Procs
  <2>4. Stages'
    BY <2>a, <1>1, Members DEF CheckAndLock
  <2> QED BY <2>1, <2>2, <2>3, <2>4
<1>2. ASSUME NEW r \in Requests, NEW s \in Signatories, SendEmail(r, s)
      PROVE  (FiringDiscipline /\ Placement /\ Clicks /\ Stages)'
  <2>a. r \in Procs /\ at[r] \in PayoutIds
    BY <1>2, Attached, Members DEF SendEmail, Unattached
  <2>1. FiringDiscipline'
    <3>1. CASE \A o \in Signatories \ {s} : vote[at[r]][o] # "due"
      <4>1. UNCHANGED <<status, ref, calls>> /\ Enter(r, "idle", NoPayout)
        BY <2>a, <1>2, <3>1 DEF LifecycleTypeOK, Finish, SendEmail, rowVars, nombaVars
      <4> QED
        BY <2>a, <4>1, Withdrawal
    <3>2. CASE ~(\A o \in Signatories \ {s} : vote[at[r]][o] # "due")
      BY <2>a, <1>2, <3>2, Members DEF SendEmail
    <3> QED BY <1>2, <3>1, <3>2
  <2>2. Placement'
    BY <2>a, <1>2, Members DEF SendEmail, Event, Procs
  <2>3. Clicks'
    BY <2>a, <1>2, Members DEF SendEmail, Clicks, ClickPcs, Procs
  <2>4. Stages'
    BY <2>a, <1>2, Members DEF SendEmail
  <2> QED BY <2>1, <2>2, <2>3, <2>4
<1>3. ASSUME NEW r \in Requests, Advance(r)
      PROVE  (FiringDiscipline /\ Placement /\ Clicks /\ Stages)'
  <2>a. r \in Procs /\ at[r] \in PayoutIds
    BY <1>3, Attached, Members DEF Advance, Unattached
  <2>1. FiringDiscipline'
    BY <2>a, <1>3, Members DEF Advance
  <2>2. Placement'
    BY <2>a, <1>3, Members DEF Advance, Event, Procs
  <2>3. Clicks'
    BY <2>a, <1>3, Members DEF Advance, Clicks, ClickPcs, Procs
  <2>4. Stages'
    BY <2>a, <1>3, Members DEF Advance
  <2> QED BY <2>1, <2>2, <2>3, <2>4
<1>4. ASSUME NEW r \in Requests, NEW p \in PayoutIds, NEW s \in Signatories,
             NEW act \in {"APPROVED", "DECLINED"}, ClickLink(r, p, s, act)
      PROVE  (FiringDiscipline /\ Placement /\ Clicks /\ Stages)'
  <2>a. r \in Procs
    BY Members
  <2>1. FiringDiscipline'
    BY <2>a, <1>4, Members DEF ClickLink
  <2>2. Placement'
    BY <2>a, <1>4, Members DEF ClickLink, Event, Procs
  <2>3. Clicks'
    BY <2>a, <1>4, Members DEF ClickLink, Clicks, ClickPcs, Procs
  <2>4. Stages'
    BY <2>a, <1>4, Members DEF ClickLink
  <2> QED BY <2>1, <2>2, <2>3, <2>4
<1>5. ASSUME NEW r \in Requests, LoadPayout(r)
      PROVE  (FiringDiscipline /\ Placement /\ Clicks /\ Stages)'
  <2>a. r \in Procs /\ at[r] \in PayoutIds
    BY <1>5, Attached, Members DEF LoadPayout, Unattached
  <2>1. FiringDiscipline'
    <3>1. CASE status[at[r]] \in Awaiting
      BY <2>a, <1>5, <3>1, Members DEF LoadPayout
    <3>2. CASE ~(status[at[r]] \in Awaiting)
      <4>1. UNCHANGED <<status, ref, calls>> /\ Enter(r, "idle", NoPayout)
        BY <2>a, <1>5, <3>2 DEF LifecycleTypeOK, Finish, LoadPayout, rowVars, nombaVars
      <4> QED
        BY <2>a, <4>1, Withdrawal
    <3> QED BY <1>5, <3>1, <3>2
  <2>2. Placement'
    BY <2>a, <1>5, Members DEF LoadPayout, Event, Procs
  <2>3. Clicks'
    <3>1. CASE status[at[r]] \in Awaiting
      <4>1. /\ \A q \in Requests : q # r => click'[q] = click[q] /\ pc'[q] = pc[q]
            /\ click'[r].act = click[r].act /\ click'[r].s = click[r].s /\ pc'[r] = "record"
        BY <2>a, <1>5, <3>1, Members DEF LoadPayout, Click
      <4> QED BY <1>5, <4>1 DEF LoadPayout, Clicks, ClickPcs
    <3>2. CASE ~(status[at[r]] \in Awaiting)
      <4>1. /\ \A q \in Requests : q # r => click'[q] = click[q] /\ pc'[q] = pc[q]
            /\ pc'[r] = "idle" /\ ask' = ask
        BY <2>a, <1>5, <3>2, Members DEF LoadPayout
      <4> QED BY <4>1 DEF Clicks, ClickPcs
    <3> QED BY <1>5, <3>1, <3>2
  <2>4. Stages'
    BY <2>a, <1>5, Members DEF LoadPayout
  <2> QED BY <2>1, <2>2, <2>3, <2>4
<1>6. ASSUME NEW r \in Requests, RecordAction(r)
      PROVE  (FiringDiscipline /\ Placement /\ Clicks /\ Stages)'
  <2>a. r \in Procs /\ at[r] \in PayoutIds
    BY <1>6, Attached, Members DEF RecordAction, Unattached
  <2>1. FiringDiscipline'
    BY <2>a, <1>6, Members DEF RecordAction
  <2>2. Placement'
    BY <2>a, <1>6, Members DEF RecordAction, Event, Procs
  <2>3. Clicks'
    BY <2>a, <1>6, Members DEF RecordAction, Clicks, ClickPcs, Procs
  <2>4. Stages'
    BY <2>a, <1>6, Members DEF RecordAction
  <2> QED BY <2>1, <2>2, <2>3, <2>4
<1>7. ASSUME NEW r \in Requests, Decline(r)
      PROVE  (FiringDiscipline /\ Placement /\ Clicks /\ Stages)'
  <2>a. r \in Procs /\ at[r] \in PayoutIds
    BY <1>7, Attached, Members DEF Decline, Unattached
  <2>1. FiringDiscipline'
    <3>1. CASE status[at[r]] \in Awaiting
      <4>1. \A q \in Procs : at[q] = at[r] => pc[q] \notin Driving \cup {"settle", "refund"}
        BY <2>a, <1>7, <3>1
        DEF Decline, FiringDiscipline, Placement, Driving, Awaiting
      <4>2. status' = [status EXCEPT ![at[r]] = "DECLINED"] /\ UNCHANGED <<ref, calls, at>>
        BY <1>7, <3>1 DEF Decline, TransitionStatus, Goto, nombaVars
      <4>3. \A q \in Procs : pc'[q] = IF q = r THEN "release" ELSE pc[q]
        BY <2>a, <1>7, <3>1 DEF Decline, Goto, LifecycleTypeOK
      <4>4. \A q \in Procs : at[q] # at[r] => status'[at[q]] = status[at[q]]
        BY <2>a, <4>2 DEF LifecycleTypeOK
      <4> QED
        BY <2>a, <4>1, <4>2, <4>3, <4>4 DEF FiringDiscipline, Driving
    <3>2. CASE ~(status[at[r]] \in Awaiting)
      <4>1. UNCHANGED <<status, ref, calls>> /\ Enter(r, "idle", NoPayout)
        BY <2>a, <1>7, <3>2
        DEF LifecycleTypeOK, Finish, Decline, TransitionStatus, nombaVars
      <4> QED
        BY <2>a, <4>1, Withdrawal
    <3> QED BY <1>7, <3>1, <3>2
  <2>2. Placement'
    BY <2>a, <1>7, Members DEF Decline, Event, Procs
  <2>3. Clicks'
    BY <2>a, <1>7, Members DEF Decline, Clicks, ClickPcs, Procs
  <2>4. Stages'
    BY <2>a, <1>7, Members DEF Decline
  <2> QED BY <2>1, <2>2, <2>3, <2>4
<1>8. ASSUME NEW r \in Requests, ReadPolicy(r)
      PROVE  (FiringDiscipline /\ Placement /\ Clicks /\ Stages)'
  <2>a. r \in Procs /\ at[r] \in PayoutIds
    BY <1>8, Attached, Members DEF ReadPolicy, Unattached
  <2>1. FiringDiscipline'
    BY <2>a, <1>8, Members DEF ReadPolicy
  <2>2. Placement'
    BY <2>a, <1>8, Members DEF ReadPolicy, Event, Procs
  <2>3. Clicks'
    BY <2>a, <1>8, Members DEF ReadPolicy, Clicks, ClickPcs, Procs
  <2>4. Stages'
    BY <2>a, <1>8, Members DEF ReadPolicy
  <2> QED BY <2>1, <2>2, <2>3, <2>4
<1>9. ASSUME NEW r \in Requests, CheckQuorum(r)
      PROVE  (FiringDiscipline /\ Placement /\ Clicks /\ Stages)'
  <2>a. r \in Procs /\ at[r] \in PayoutIds
    BY <1>9, Attached, Members DEF CheckQuorum, Unattached
  <2>1. FiringDiscipline'
    BY <2>a, <1>9, Members DEF CheckQuorum
  <2>2. Placement'
    BY <2>a, <1>9, Members DEF CheckQuorum, Event, Procs
  <2>3. Clicks'
    BY <2>a, <1>9, Members DEF CheckQuorum, Clicks, ClickPcs, Procs
  <2>4. Stages'
    BY <2>a, <1>9, Members DEF CheckQuorum
  <2> QED BY <2>1, <2>2, <2>3, <2>4
<1>10. ASSUME NEW r \in Requests, MarkPartial(r)
       PROVE  (FiringDiscipline /\ Placement /\ Clicks /\ Stages)'
  <2>a. r \in Procs /\ at[r] \in PayoutIds
    BY <1>10, Attached, Members DEF MarkPartial, Unattached
  <2>1. FiringDiscipline'
    BY <2>a, <1>10, Members DEF MarkPartial
  <2>2. Placement'
    BY <2>a, <1>10, Members DEF MarkPartial, Event, Procs
  <2>3. Clicks'
    BY <2>a, <1>10, Members DEF MarkPartial, Clicks, ClickPcs, Procs
  <2>4. Stages'
    BY <2>a, <1>10, Members DEF MarkPartial
  <2> QED BY <2>1, <2>2, <2>3, <2>4
<1>11. ASSUME NEW r \in Requests, AnswerInvalid(r)
       PROVE  (FiringDiscipline /\ Placement /\ Clicks /\ Stages)'
  <2>a. r \in Procs /\ at[r] \in PayoutIds
    BY <1>11, Attached, Members DEF AnswerInvalid, Unattached
  <2>1. FiringDiscipline'
    BY <2>a, <1>11, Members DEF AnswerInvalid
  <2>2. Placement'
    BY <2>a, <1>11, Members DEF AnswerInvalid, Event, Procs
  <2>3. Clicks'
    BY <2>a, <1>11, Members DEF AnswerInvalid, Clicks, ClickPcs, Procs
  <2>4. Stages'
    BY <2>a, <1>11, Members DEF AnswerInvalid
  <2> QED BY <2>1, <2>2, <2>3, <2>4
<1>12. ASSUME NEW r \in Requests, Approve(r)
       PROVE  (FiringDiscipline /\ Placement /\ Clicks /\ Stages)'
  <2>a. r \in Procs /\ at[r] \in PayoutIds
    BY <1>12, Attached, Members DEF Approve, Unattached
  <2>1. FiringDiscipline'
    <3>1. CASE status[at[r]] \in Awaiting
      <4>1. \A q \in Procs : at[q] = at[r] => pc[q] \notin Driving \cup {"settle", "refund"}
        BY <2>a, <1>12, <3>1
        DEF Approve, FiringDiscipline, Placement, Driving, Awaiting
      <4>2. status' = [status EXCEPT ![at[r]] = "APPROVED"] /\ UNCHANGED <<ref, calls, at>>
        BY <1>12, <3>1 DEF Approve, TransitionStatus, Goto, nombaVars
      <4>3. \A q \in Procs : pc'[q] = IF q = r THEN "start" ELSE pc[q]
        BY <2>a, <1>12, <3>1 DEF Approve, Goto, LifecycleTypeOK
      <4>4. \A q \in Procs : at[q] # at[r] => status'[at[q]] = status[at[q]]
        BY <2>a, <4>2 DEF LifecycleTypeOK
      <4>5. status'[at[r]] = "APPROVED"
        BY <2>a, <4>2 DEF LifecycleTypeOK
      <4> QED
        BY <2>a, <4>1, <4>2, <4>3, <4>4, <4>5 DEF FiringDiscipline, Driving
    <3>2. CASE ~(status[at[r]] \in Awaiting)
      <4>1. UNCHANGED <<status, ref, calls>> /\ Enter(r, "idle", NoPayout)
        BY <2>a, <1>12, <3>2
        DEF LifecycleTypeOK, Finish, Approve, TransitionStatus, nombaVars
      <4> QED
        BY <2>a, <4>1, Withdrawal
    <3> QED BY <1>12, <3>1, <3>2
  <2>2. Placement'
    BY <2>a, <1>12, Members DEF Approve, Event, Procs
  <2>3. Clicks'
    BY <2>a, <1>12, Members DEF Approve, Clicks, ClickPcs, Procs
  <2>4. Stages'
    BY <2>a, <1>12, Members DEF Approve
  <2> QED BY <2>1, <2>2, <2>3, <2>4
<1>13. ASSUME NEW r \in Requests, StartTransfer(r)
       PROVE  (FiringDiscipline /\ Placement /\ Clicks /\ Stages)'
  <2>a. r \in Procs /\ at[r] \in PayoutIds
    BY <1>13, Attached, Members DEF StartTransfer, Unattached
  <2>1. FiringDiscipline'
    BY <2>a, <1>13, Members DEF StartTransfer
  <2>2. Placement'
    BY <2>a, <1>13, Members DEF StartTransfer, Event, Procs
  <2>3. Clicks'
    BY <2>a, <1>13, Members DEF StartTransfer, Clicks, ClickPcs, Procs
  <2>4. Stages'
    BY <2>a, <1>13, Members DEF StartTransfer
  <2> QED BY <2>1, <2>2, <2>3, <2>4
<1>14. ASSUME NEW r \in Procs, CallNomba(r)
       PROVE  (FiringDiscipline /\ Placement /\ Clicks /\ Stages)'
  <2>a. r \in Procs /\ at[r] \in PayoutIds
    BY <1>14, Attached, Members DEF CallNomba, Unattached
  <2>1. FiringDiscipline'
    <3>1. \A q \in Procs : at[q] = at[r] /\ q # r => pc[q] \notin Driving \cup {"settle", "refund"}
      BY <2>a, <1>14 DEF CallNomba, Driving
    <3>2. UNCHANGED <<status, ref, at>>
      BY <1>14 DEF CallNomba
    <3>3. PICK s \in {"storeRef", "failed"} : pc' = [pc EXCEPT ![r] = s]
      BY <1>14 DEF CallNomba
    <3>4. \A q \in Procs : pc'[q] = IF q = r THEN s ELSE pc[q]
      BY <2>a, <3>3
    <3>5. \A p \in PayoutIds : p # at[r] => calls'[p] = calls[p]
      BY <2>a, <1>14 DEF CallNomba
    <3>6. status[at[r]] = "TRANSFERRING" /\ ~ref[at[r]]
      BY <2>a, <1>14 DEF CallNomba
    <3>7. \A q, v \in Procs :
             at'[q] = at'[v] /\ pc'[q] \in Driving /\ pc'[v] \in Driving => q = v
      BY <2>a, <3>1, <3>2, <3>4 DEF FiringDiscipline, Driving
    <3>8. \A q \in Procs : pc'[q] = "call" => calls'[at[q]] = 0
      <4>1. SUFFICES ASSUME NEW q \in Procs, pc'[q] = "call" PROVE calls'[at[q]] = 0
        OBVIOUS
      <4>2. q # r /\ pc[q] = "call" /\ at[q] # at[r] /\ at[q] \in PayoutIds
        BY <3>1, <3>4, <4>1, Attached DEF Driving, Unattached
      <4> QED BY <3>5, <4>1, <4>2 DEF FiringDiscipline
    <3> QED
      BY <2>a, <3>2, <3>4, <3>6, <3>7, <3>8 DEF FiringDiscipline
  <2>2. Placement'
    BY <2>a, <1>14, Members DEF CallNomba, Event, Procs
  <2>3. Clicks'
    BY <2>a, <1>14, Members DEF CallNomba, Clicks, ClickPcs, Procs
  <2>4. Stages'
    BY <2>a, <1>14, Members DEF CallNomba
  <2> QED BY <2>1, <2>2, <2>3, <2>4
<1>15. ASSUME NEW r \in Procs, StoreRef(r)
       PROVE  (FiringDiscipline /\ Placement /\ Clicks /\ Stages)'
  <2>a. r \in Procs /\ at[r] \in PayoutIds
    BY <1>15, Attached, Members DEF StoreRef, Unattached
  <2>1. FiringDiscipline'
    BY <2>a, <1>15, Members DEF StoreRef
  <2>2. Placement'
    BY <2>a, <1>15, Members DEF StoreRef, Event, Procs
  <2>3. Clicks'
    BY <2>a, <1>15, Members DEF StoreRef, Clicks, ClickPcs, Procs
  <2>4. Stages'
    BY <2>a, <1>15, Members DEF StoreRef
  <2> QED BY <2>1, <2>2, <2>3, <2>4
<1>16. ASSUME NEW r \in Procs, FailTransfer(r)
       PROVE  (FiringDiscipline /\ Placement /\ Clicks /\ Stages)'
  <2>a. r \in Procs /\ at[r] \in PayoutIds
    BY <1>16, Attached, Members DEF FailTransfer, Unattached
  <2>1. FiringDiscipline'
    <3>1. status' = [status EXCEPT ![at[r]] = "FAILED"] /\ UNCHANGED <<ref, calls, at>>
      BY <2>a, <1>16, Members DEF FailTransfer
    <3>2. pc[r] = "failed" /\ pc' = [pc EXCEPT ![r] = "release"]
      BY <1>16 DEF FailTransfer
    <3>3. status[at[r]] = "TRANSFERRING" /\ ~ref[at[r]]
      BY <2>a, <3>2
    <3>4. \A q \in Procs : pc'[q] \in Driving \cup {"settle", "refund"} =>
                              q # r /\ pc'[q] = pc[q]
      BY <2>a, <3>2
    <3>5. \A q \in Procs : pc[q] \in Driving /\ q # r => at[q] # at[r]
      BY <2>a, <3>2
    <3>6. \A q \in Procs : pc[q] \in {"settle", "refund"} => at[q] # at[r]
      BY <2>a, <3>3
    <3>7. \A p \in PayoutIds : p # at[r] => status'[p] = status[p]
      BY <2>a, <3>1
    <3>8. \A q \in Procs : pc'[q] \in Driving \cup {"settle", "refund"} =>
                              status'[at[q]] = status[at[q]]
      BY <3>1, <3>4, <3>5, <3>6, <3>7, Attached DEF Unattached
    <3> QED
      BY <3>1, <3>4, <3>8
  <2>2. Placement'
    BY <2>a, <1>16, Members DEF FailTransfer, Event, Procs
  <2>3. Clicks'
    BY <2>a, <1>16, Members DEF FailTransfer, Clicks, ClickPcs, Procs
  <2>4. Stages'
    BY <2>a, <1>16, Members DEF FailTransfer
  <2> QED BY <2>1, <2>2, <2>3, <2>4
<1>17. ASSUME NEW r \in Procs, Release(r)
       PROVE  (FiringDiscipline /\ Placement /\ Clicks /\ Stages)'
  <2>a. r \in Procs /\ at[r] \in PayoutIds
    BY <1>17, Attached, Members DEF Release, Unattached
  <2>1. FiringDiscipline'
    <3>1. CASE r \in Expirers
      <4>1. UNCHANGED <<status, ref, calls>> /\ Enter(r, "expire", NoPayout)
        BY <2>a, <1>17, <3>1 DEF LifecycleTypeOK, Finish, Release, rowVars, nombaVars
      <4> QED
        BY <2>a, <4>1, Withdrawal
    <3>2. CASE ~(r \in Expirers)
      <4>1. UNCHANGED <<status, ref, calls>> /\ Enter(r, "idle", NoPayout)
        BY <2>a, <1>17, <3>2 DEF LifecycleTypeOK, Finish, Release, rowVars, nombaVars
      <4> QED
        BY <2>a, <4>1, Withdrawal
    <3> QED BY <1>17, <3>1, <3>2
  <2>2. Placement'
    BY <2>a, <1>17, Members DEF Release, Event, Procs
  <2>3. Clicks'
    BY <2>a, <1>17, Members DEF Release, Clicks, ClickPcs, Procs
  <2>4. Stages'
    BY <2>a, <1>17, Members DEF Release
  <2> QED BY <2>1, <2>2, <2>3, <2>4
<1>18. ASSUME NEW r \in Requests, NEW p \in PayoutIds, LoadCancel(r, p)
       PROVE  (FiringDiscipline /\ Placement /\ Clicks /\ Stages)'
  <2>a. r \in Procs
    BY Members
  <2>1. FiringDiscipline'
    BY <2>a, <1>18, Members DEF LoadCancel, BeingCreated, SweepsUndisturbed
  <2>2. Placement'
    BY <2>a, <1>18, Members
    DEF LoadCancel, BeingCreated, SweepsUndisturbed, Event, Procs
  <2>3. Clicks'
    BY <2>a, <1>18, Members
    DEF LoadCancel, BeingCreated, SweepsUndisturbed, Clicks, ClickPcs, Procs
  <2>4. Stages'
    BY <2>a, <1>18, Members DEF LoadCancel, BeingCreated, SweepsUndisturbed
  <2> QED BY <2>1, <2>2, <2>3, <2>4
<1>19. ASSUME NEW r \in Requests, Cancel(r)
       PROVE  (FiringDiscipline /\ Placement /\ Clicks /\ Stages)'
  <2>a. r \in Procs /\ at[r] \in PayoutIds
    BY <1>19, Attached, Members DEF Cancel, Unattached
  <2>1. FiringDiscipline'
    <3>1. CASE status[at[r]] = "PENDING"
      BY <2>a, <1>19, <3>1, Members, SMTT(30) DEF Cancel
    <3>2. CASE ~(status[at[r]] = "PENDING")
      <4>1. UNCHANGED <<status, ref, calls>> /\ Enter(r, "idle", NoPayout)
        BY <2>a, <1>19, <3>2
        DEF LifecycleTypeOK, Finish, Cancel, TransitionStatus, nombaVars
      <4> QED
        BY <2>a, <4>1, Withdrawal
    <3> QED BY <1>19, <3>1, <3>2
  <2>2. Placement'
    BY <2>a, <1>19, Members DEF Cancel, Event, Procs
  <2>3. Clicks'
    BY <2>a, <1>19, Members DEF Cancel, Clicks, ClickPcs, Procs
  <2>4. Stages'
    BY <2>a, <1>19, Members DEF Cancel
  <2> QED BY <2>1, <2>2, <2>3, <2>4
<1>20. ASSUME NEW r \in Expirers, SelectExpired(r)
       PROVE  (FiringDiscipline /\ Placement /\ Clicks /\ Stages)'
  <2>a. r \in Procs
    BY Members
  <2>1. FiringDiscipline'
    BY <2>a, <1>20, Members DEF SelectExpired, MayBeOverdue, BeingCreated
  <2>2. Placement'
    BY <2>a, <1>20, Members
    DEF SelectExpired, MayBeOverdue, BeingCreated, Event, Procs
  <2>3. Clicks'
    BY <2>a, <1>20, Members
    DEF SelectExpired, MayBeOverdue, BeingCreated, Clicks, ClickPcs, Procs
  <2>4. Stages'
    <3>1. \A p \in PayoutIds : status[p] = "NONE" => p \notin todo'[r]
      BY <2>a, <1>20, SMTT(30) DEF SelectExpired, MayBeOverdue, Awaiting, LifecycleTypeOK
    <3>2. \A o \in Expirers \ {r} : todo'[o] = todo[o]
      BY <1>20 DEF SelectExpired, LifecycleTypeOK
    <3> QED
      BY <2>a, <1>20, <3>1, <3>2
      DEF SelectExpired, Goto, rowVars, voteVars, nombaVars, Stages, Untouched
  <2> QED BY <2>1, <2>2, <2>3, <2>4
<1>21. ASSUME NEW r \in Expirers, Expire(r)
       PROVE  (FiringDiscipline /\ Placement /\ Clicks /\ Stages)'
  <2>a. r \in Procs
    BY Members
  <2>1. FiringDiscipline'
    <3>1. CASE todo[r] = {} /\ Finish(r) /\ UNCHANGED <<status, todo>>
      BY <2>a, <1>21, <3>1 DEF Expire
    <3>2. ASSUME NEW p \in todo[r], todo' = [todo EXCEPT ![r] = @ \ {p}],
                 TransitionStatus(p, Awaiting, "EXPIRED"),
                 status[p] \in Awaiting, Enter(r, "release", p)
          PROVE  FiringDiscipline'
      <4>1. p \in PayoutIds /\ pc[r] = "expire"
        BY <1>21 DEF LifecycleTypeOK, Expire
      <4>2. UNCHANGED <<ref, calls, vote>>
        BY <1>21 DEF Expire, voteVars, nombaVars
      <4> QED
        BY <2>a, <3>2, <4>1, <4>2
    <3>3. ASSUME NEW p \in todo[r], todo' = [todo EXCEPT ![r] = @ \ {p}],
                 TransitionStatus(p, Awaiting, "EXPIRED"),
                 status[p] \notin Awaiting, UNCHANGED procVars
          PROVE  FiringDiscipline'
      <4>2. UNCHANGED <<ref, calls, vote, status>>
        BY <1>21, <3>3 DEF Expire, voteVars, nombaVars, TransitionStatus
      <4> QED
        BY <2>a, <3>3, <4>2
    <3> QED BY <1>21, <3>1, <3>2, <3>3, SMTT(30) DEF Expire
  <2>2. Placement'
    <3>1. CASE todo[r] = {} /\ Finish(r) /\ UNCHANGED <<status, todo>>
      BY <2>a, <1>21, <3>1 DEF Expire, Procs
    <3>2. ASSUME NEW p \in todo[r], todo' = [todo EXCEPT ![r] = @ \ {p}],
                 TransitionStatus(p, Awaiting, "EXPIRED"),
                 status[p] \in Awaiting, Enter(r, "release", p)
          PROVE  Placement'
      <4>1. p \in PayoutIds /\ pc[r] = "expire"
        BY <1>21 DEF LifecycleTypeOK, Expire
      <4>2. UNCHANGED <<ref, calls, vote>>
        BY <1>21 DEF Expire, voteVars, nombaVars
      <4> QED
        BY <2>a, <3>2, <4>1, <4>2 DEF Procs
    <3>3. ASSUME NEW p \in todo[r], todo' = [todo EXCEPT ![r] = @ \ {p}],
                 TransitionStatus(p, Awaiting, "EXPIRED"),
                 status[p] \notin Awaiting, UNCHANGED procVars
          PROVE  Placement'
      <4>2. UNCHANGED <<ref, calls, vote, status>>
        BY <1>21, <3>3 DEF Expire, voteVars, nombaVars, TransitionStatus
      <4> QED
        BY <2>a, <3>3, <4>2 DEF Procs
    <3> QED BY <1>21, <3>1, <3>2, <3>3, ZenonT(60) DEF Expire
  <2>3. Clicks'
    BY <2>a, <1>21, Members DEF Expire, Clicks, ClickPcs, Procs
  <2>4. Stages'
    <3>1. ASSUME UNCHANGED status PROVE Stages'
      <4>1. UNCHANGED <<ref, calls, vote>> /\ (\A e \in Expirers : todo'[e] \subseteq todo[e])
        BY <1>21 DEF Expire, voteVars, nombaVars
      <4>2. \A q \in Procs, p \in PayoutIds : at'[q] = p /\ status[p] = "NONE" => at[q] = p
        BY <2>a, <1>21, <3>1 DEF Expire, Awaiting
      <4> QED BY <3>1, <4>1, <4>2 DEF Stages, Untouched
    <3>2. ASSUME NEW p \in todo[r], todo' = [todo EXCEPT ![r] = @ \ {p}],
                 TransitionStatus(p, Awaiting, "EXPIRED"),
                 status[p] \in Awaiting, Enter(r, "release", p)
          PROVE  Stages'
      <4>1. UNCHANGED <<ref, calls, vote>> /\ (\A e \in Expirers : todo'[e] \subseteq todo[e])
        BY <1>21, <3>2 DEF Expire, voteVars, nombaVars
      <4>2. p \in PayoutIds /\ status' = [status EXCEPT ![p] = "EXPIRED"]
        BY <1>21, <3>2 DEF LifecycleTypeOK, TransitionStatus
      <4>3. \A q \in Procs, o \in PayoutIds : at'[q] = o /\ status'[o] = "NONE" => at[q] = o
        BY <2>a, <3>2, <4>2 DEF Enter, LifecycleTypeOK
      <4> QED BY <3>2, <4>1, <4>2, <4>3 DEF Stages, Untouched, LifecycleTypeOK
    <3> QED BY <1>21, <3>1, <3>2 DEF Expire, TransitionStatus
  <2> QED BY <2>1, <2>2, <2>3, <2>4
<1>22. ASSUME NEW r \in Sweepers, SweepRead(r)
       PROVE  (FiringDiscipline /\ Placement /\ Clicks /\ Stages)'
  <2>a. r \in Procs
    BY Members
  <2>1. FiringDiscipline'
    BY <2>a, <1>22, Members DEF SweepRead
  <2>2. Placement'
    BY <2>a, <1>22, Members DEF SweepRead, Event, Procs
  <2>3. Clicks'
    BY <2>a, <1>22, Members DEF SweepRead, Clicks, ClickPcs, Procs
  <2>4. Stages'
    BY <2>a, <1>22, Members DEF SweepRead
  <2> QED BY <2>1, <2>2, <2>3, <2>4
<1>23. ASSUME NEW r \in Sweepers, NEW p \in PayoutIds, SweepCreate(r, p)
       PROVE  (FiringDiscipline /\ Placement /\ Clicks /\ Stages)'
  <2>a. r \in Procs
    BY Members
  <2>1. FiringDiscipline'
    BY <2>a, <1>23, Members DEF SweepCreate
  <2>2. Placement'
    BY <2>a, <1>23, Members DEF SweepCreate, Event, Procs
  <2>3. Clicks'
    BY <2>a, <1>23, Members DEF SweepCreate, Clicks, ClickPcs, Procs
  <2>4. Stages'
    BY <2>a, <1>23, Members DEF SweepCreate
  <2> QED BY <2>1, <2>2, <2>3, <2>4
<1>24. ASSUME NEW r \in Sweepers, SweepApprove(r)
       PROVE  (FiringDiscipline /\ Placement /\ Clicks /\ Stages)'
  <2>a. r \in Procs /\ at[r] \in PayoutIds
    BY <1>24, Attached, Members DEF SweepApprove, Unattached
  <2>1. FiringDiscipline'
    BY <2>a, <1>24, Members DEF SweepApprove
  <2>2. Placement'
    BY <2>a, <1>24, Members DEF SweepApprove, Event, Procs
  <2>3. Clicks'
    BY <2>a, <1>24, Members DEF SweepApprove, Clicks, ClickPcs, Procs
  <2>4. Stages'
    BY <2>a, <1>24, Members DEF SweepApprove
  <2> QED BY <2>1, <2>2, <2>3, <2>4
<1>25. ASSUME NEW r \in Sweepers, SweepLock(r)
       PROVE  (FiringDiscipline /\ Placement /\ Clicks /\ Stages)'
  <2>a. r \in Procs /\ at[r] \in PayoutIds
    BY <1>25, Attached, Members DEF SweepLock, Unattached
  <2>1. FiringDiscipline'
    BY <2>a, <1>25, Members DEF SweepLock
  <2>2. Placement'
    BY <2>a, <1>25, Members DEF SweepLock, Event, Procs
  <2>3. Clicks'
    BY <2>a, <1>25, Members DEF SweepLock, Clicks, ClickPcs, Procs
  <2>4. Stages'
    BY <2>a, <1>25, Members DEF SweepLock
  <2> QED BY <2>1, <2>2, <2>3, <2>4
<1>26. ASSUME NEW r \in Sweepers, SweepFire(r)
       PROVE  (FiringDiscipline /\ Placement /\ Clicks /\ Stages)'
  <2>a. r \in Procs /\ at[r] \in PayoutIds
    BY <1>26, Attached, Members DEF SweepFire, Unattached
  <2>1. FiringDiscipline'
    BY <2>a, <1>26, Members DEF SweepFire
  <2>2. Placement'
    BY <2>a, <1>26, Members DEF SweepFire, Event, Procs
  <2>3. Clicks'
    BY <2>a, <1>26, Members DEF SweepFire, Clicks, ClickPcs, Procs
  <2>4. Stages'
    BY <2>a, <1>26, Members DEF SweepFire
  <2> QED BY <2>1, <2>2, <2>3, <2>4
<1>27. ASSUME NEW p \in PayoutIds, NombaConcludes(p)
       PROVE  (FiringDiscipline /\ Placement /\ Clicks /\ Stages)'
  <2>1. FiringDiscipline'
    BY <1>27, Members DEF NombaConcludes
  <2>2. Placement'
    BY <1>27, Members DEF NombaConcludes, Event, Procs
  <2>3. Clicks'
    BY <1>27, Members DEF NombaConcludes, Clicks, ClickPcs, Procs
  <2>4. Stages'
    BY <1>27, Members DEF NombaConcludes
  <2> QED BY <2>1, <2>2, <2>3, <2>4
<1>28. ASSUME NEW w \in Workers, NEW e \in Event, TakeEvent(w, e)
       PROVE  (FiringDiscipline /\ Placement /\ Clicks /\ Stages)'
  <2>a. w \in Procs
    BY Members
  <2>1. FiringDiscipline'
    <3>1. CASE UNCHANGED procVars
      BY <2>a, <1>28, <3>1, Members DEF TakeEvent
    <3>2. CASE \E step \in {"settle", "refund"} : Enter(w, step, e.p) /\ ref[e.p] /\ status[e.p] = "TRANSFERRING"
      BY <2>a, <1>28, <3>2, Members DEF TakeEvent
    <3> QED BY <1>28, <3>1, <3>2 DEF TakeEvent
  <2>2. Placement'
    BY <2>a, <1>28, Members DEF TakeEvent, Event, Procs
  <2>3. Clicks'
    BY <2>a, <1>28, Members DEF TakeEvent, Clicks, ClickPcs, Procs
  <2>4. Stages'
    BY <2>a, <1>28, Members DEF TakeEvent
  <2> QED BY <2>1, <2>2, <2>3, <2>4
<1>29. ASSUME NEW w \in Workers, Settle(w)
       PROVE  (FiringDiscipline /\ Placement /\ Clicks /\ Stages)'
  <2>a. w \in Procs /\ at[w] \in PayoutIds
    BY <1>29, Attached, Members DEF Settle, Unattached
  <2>1. FiringDiscipline'
    BY <2>a, <1>29, Members DEF Settle, OneWorker
  <2>2. Placement'
    BY <2>a, <1>29, Members DEF Settle, OneWorker, Event, Procs
  <2>3. Clicks'
    BY <2>a, <1>29, Members DEF Settle, OneWorker, Clicks, ClickPcs, Procs
  <2>4. Stages'
    BY <2>a, <1>29, Members DEF Settle, OneWorker
  <2> QED BY <2>1, <2>2, <2>3, <2>4
<1>30. ASSUME NEW w \in Workers, Refund(w)
       PROVE  (FiringDiscipline /\ Placement /\ Clicks /\ Stages)'
  <2>a. w \in Procs /\ at[w] \in PayoutIds
    BY <1>30, Attached, Members DEF Refund, Unattached
  <2>1. FiringDiscipline'
    BY <2>a, <1>30, Members DEF Refund, OneWorker
  <2>2. Placement'
    BY <2>a, <1>30, Members DEF Refund, OneWorker, Event, Procs
  <2>3. Clicks'
    BY <2>a, <1>30, Members DEF Refund, OneWorker, Clicks, ClickPcs, Procs
  <2>4. Stages'
    BY <2>a, <1>30, Members DEF Refund, OneWorker
  <2> QED BY <2>1, <2>2, <2>3, <2>4
<1>31. ASSUME NEW n \in Policies, SetPolicy(n)
       PROVE  (FiringDiscipline /\ Placement /\ Clicks /\ Stages)'
  <2>1. FiringDiscipline'
    BY <1>31, Members DEF SetPolicy
  <2>2. Placement'
    BY <1>31, Members DEF SetPolicy, Event, Procs
  <2>3. Clicks'
    BY <1>31, Members DEF SetPolicy, Clicks, ClickPcs, Procs
  <2>4. Stages'
    BY <1>31, Members DEF SetPolicy
  <2> QED BY <2>1, <2>2, <2>3, <2>4
<1>32. ASSUME NEW S \in SUBSET Procs, Stop(S)
       PROVE  (FiringDiscipline /\ Placement /\ Clicks /\ Stages)'
  <2>1. FiringDiscipline'
    BY <1>32, Members DEF Stop
  <2>2. Placement'
    BY <1>32, Members DEF Stop, Event, Procs
  <2>3. Clicks'
    BY <1>32, Members DEF Stop, Clicks, ClickPcs, Procs
  <2>4. Stages'
    BY <1>32, Members DEF Stop
  <2> QED BY <2>1, <2>2, <2>3, <2>4
<1>33. ASSUME Inflow PROVE (FiringDiscipline /\ Placement /\ Clicks /\ Stages)'
  <2>1. FiringDiscipline'
    BY <1>33, Members DEF Inflow
  <2>2. Placement'
    BY <1>33, Members DEF Inflow, Event, Procs
  <2>3. Clicks'
    BY <1>33, Members DEF Inflow, Clicks, ClickPcs, Procs
  <2>4. Stages'
    BY <1>33, Members DEF Inflow
  <2> QED BY <2>1, <2>2, <2>3, <2>4
<1>34. ASSUME NextMonth PROVE (FiringDiscipline /\ Placement /\ Clicks /\ Stages)'
  <2>1. FiringDiscipline'
    BY <1>34, Members DEF NextMonth
  <2>2. Placement'
    BY <1>34, Members DEF NextMonth, Event, Procs
  <2>3. Clicks'
    BY <1>34, Members DEF NextMonth, Clicks, ClickPcs, Procs
  <2>4. Stages'
    BY <1>34, Members DEF NextMonth
  <2> QED BY <2>1, <2>2, <2>3, <2>4
<1>35. ASSUME NEW S, NEW H, SetPanel(S, H)
       PROVE  (FiringDiscipline /\ Placement /\ Clicks /\ Stages)'
  <2>1. FiringDiscipline'
    BY <1>35, Members DEF SetPanel
  <2>2. Placement'
    BY <1>35, Members DEF SetPanel, Event, Procs
  <2>3. Clicks'
    BY <1>35, Members DEF SetPanel, Clicks, ClickPcs, Procs
  <2>4. Stages'
    BY <1>35, Members DEF SetPanel
  <2> QED BY <2>1, <2>2, <2>3, <2>4
<1>36. ASSUME NEW s \in Signatories, Deactivate(s) \/ UpdateSignatory(s)
       PROVE  (FiringDiscipline /\ Placement /\ Clicks /\ Stages)'
  BY <1>35, <1>36 DEF Deactivate, UpdateSignatory
<1>37. ASSUME NEW r \in Requests, NEW a \in Amounts, Initiate(r, a)
       PROVE  (FiringDiscipline /\ Placement /\ Clicks /\ Stages)'
  <2>a. r \in Procs
    BY Members
  <2>1. FiringDiscipline'
    BY <2>a, <1>37, Members DEF Initiate
  <2>2. Placement'
    BY <2>a, <1>37, Members DEF Initiate, Event, Procs
  <2>3. Clicks'
    BY <2>a, <1>37, Members DEF Initiate, Clicks, ClickPcs, Procs
  <2>4. Stages'
    BY <2>a, <1>37, Members DEF Initiate
  <2> QED BY <2>1, <2>2, <2>3, <2>4
<1>38. ASSUME NEW r \in Requests, RefuseLock(r)
       PROVE  (FiringDiscipline /\ Placement /\ Clicks /\ Stages)'
  <2>a. r \in Procs
    BY Members
  <2>1. FiringDiscipline'
    BY <2>a, <1>38, Members DEF RefuseLock
  <2>2. Placement'
    BY <2>a, <1>38, Members DEF RefuseLock, Event, Procs
  <2>3. Clicks'
    BY <2>a, <1>38, Members DEF RefuseLock, Clicks, ClickPcs, Procs
  <2>4. Stages'
    BY <2>a, <1>38, Members DEF RefuseLock
  <2> QED BY <2>1, <2>2, <2>3, <2>4
<1>39. ASSUME NEW p \in PayoutIds, NEW s \in Signatories, LapseLink(p, s)
       PROVE  (FiringDiscipline /\ Placement /\ Clicks /\ Stages)'
  <2>1. FiringDiscipline'
    BY <1>39, Members DEF LapseLink
  <2>2. Placement'
    BY <1>39, Members DEF LapseLink, Event, Procs
  <2>3. Clicks'
    BY <1>39, Members DEF LapseLink, Clicks, ClickPcs, Procs
  <2>4. Stages'
    BY <1>39, Members DEF LapseLink
  <2> QED BY <2>1, <2>2, <2>3, <2>4
<1> HIDE DEF LifecycleTypeOK, FiringDiscipline, Placement, Stages, Untouched,
        Enter, Goto, Finish, UpdateStatus, TransitionStatus, Awaiting,
        rowVars, voteVars, policyVars, moneyVars, nombaVars, procVars, localVars
<1> QED
  BY <1>a, <1>1, <1>2, <1>3, <1>4, <1>5, <1>6, <1>7, <1>8, <1>9, <1>10, <1>11, <1>12,
      <1>13, <1>14, <1>15, <1>16, <1>17, <1>18, <1>19, <1>20, <1>21, <1>22, <1>23,
      <1>24, <1>25, <1>26, <1>27, <1>28, <1>29, <1>30, <1>31, <1>32, <1>33, <1>34,
      <1>36, <1>37, <1>38, <1>39, Members,
      ZenonT(60)
  DEF Next, UserRequest, RequestStep, SweepStep, ExpiryStep, WorkerStep, Environment,
      Abort, Restart

\* The conjuncts of FiringInv hold in every reachable state.
THEOREM FiringInvariant ==
  ASSUME OneWorker, SweepsUndisturbed PROVE Spec => []FiringInv
<1>1. FiringInv /\ [Next]_vars => FiringInv'
  <2>1. CASE Next
    BY <2>1, FiringNext
  <2>2. CASE UNCHANGED vars
    BY <2>2
    DEF vars, FiringInv, LifecycleTypeOK, FiringDiscipline, Placement, Clicks, Stages,
        Untouched, Unattached
  <2> QED BY <2>1, <2>2
<1> QED
  BY FiringInit, <1>1, PTL DEF Spec

\* At most one executor is about to fire or write blindly to a payout, and the
\* status is still the one it saw: what makes the unconditional writes of
\* the transfer code safe (nomba-transfer.service.ts, sweep.service.ts).
THEOREM FiringDisciplineHolds ==
  ASSUME OneWorker, SweepsUndisturbed PROVE Spec => []FiringDiscipline
<1>1. FiringInv => FiringDiscipline
  BY DEF FiringInv
<1> QED
  BY FiringInvariant, <1>1, PTL

-----------------------------------------------------------------------------
(* Payouts implements PayoutLifecycle.                                     *)

\* Initial states map to initial states.
LEMMA LifecycleInitial == Init => Lifecycle!LifecycleInit
  BY DEF Init, Lifecycle!LifecycleInit

\* Every step is a step of the abstract payout or a stutter.
LEMMA LifecycleStep ==
  ASSUME FiringInv, Next
  PROVE  Lifecycle!LifecycleNext \/ UNCHANGED <<status, calls>>
<1> DEFINE Done == Lifecycle!LifecycleNext \/ UNCHANGED <<status, calls>>
<1>t. \A p \in PayoutIds, to \in Lifecycle!Status :
         Lifecycle!Transition(p, to) => Lifecycle!LifecycleNext
  BY DEF Lifecycle!LifecycleNext
<1>u. \A p \in PayoutIds : status[p] \in Lifecycle!Status /\ calls[p] \in Nat
  BY DEF FiringInv, LifecycleTypeOK
<1>1. ASSUME NEW r \in Requests, NEW p \in PayoutIds, CheckAndLock(r, p)
      PROVE  Done
  BY <1>1
  DEF CheckAndLock, UpdateStatus, nombaVars, Lifecycle!LifecycleNext, Lifecycle!Create
<1>2. ASSUME NEW r \in Requests, NEW s \in Signatories, SendEmail(r, s) PROVE Done
  BY <1>2 DEF SendEmail, rowVars, nombaVars
<1>3. ASSUME NEW r \in Requests, Advance(r) PROVE Done
  <2>a. r \in Procs /\ at[r] \in PayoutIds
    BY <1>3, Attached, Members DEF Advance, Unattached, FiringInv
  <2> QED
    BY <1>3, <2>a
    DEF Advance, TransitionStatus, nombaVars, Lifecycle!LifecycleNext,
        Lifecycle!SkipApproval
<1>4. ASSUME NEW r \in Requests, NEW p \in PayoutIds, NEW s \in Signatories,
             NEW act \in {"APPROVED", "DECLINED"}, ClickLink(r, p, s, act)
      PROVE  Done
  BY <1>4 DEF ClickLink, rowVars, nombaVars
<1>5. ASSUME NEW r \in Requests, LoadPayout(r) PROVE Done
  BY <1>5 DEF LoadPayout, rowVars, nombaVars
<1>6. ASSUME NEW r \in Requests, RecordAction(r) PROVE Done
  BY <1>6 DEF RecordAction, rowVars, nombaVars
<1>7. ASSUME NEW r \in Requests, Decline(r) PROVE Done
  <2>a. r \in Procs /\ at[r] \in PayoutIds
    BY <1>7, Attached, Members DEF Decline, Unattached, FiringInv
  <2>1. Lifecycle!Transition(at[r], "DECLINED") \/ UNCHANGED <<status, calls>>
    BY <1>7, <2>a, <1>u
    DEF Decline, TransitionStatus, UpdateStatus, Awaiting, nombaVars,
        Lifecycle!Transition, Lifecycle!ValidTransitions, FiringInv, FiringDiscipline,
        Placement, Stages
  <2> QED
    BY <1>t, <2>a, <2>1 DEF Lifecycle!Status
<1>8. ASSUME NEW r \in Requests, ReadPolicy(r) PROVE Done
  BY <1>8 DEF ReadPolicy, rowVars, nombaVars
<1>9. ASSUME NEW r \in Requests, CheckQuorum(r) PROVE Done
  BY <1>9 DEF CheckQuorum, rowVars, nombaVars
<1>10. ASSUME NEW r \in Requests, MarkPartial(r) PROVE Done
  <2>a. r \in Procs /\ at[r] \in PayoutIds
    BY <1>10, Attached, Members DEF MarkPartial, Unattached, FiringInv
  <2>1. CASE status[at[r]] = "PENDING"
    <3>1. Lifecycle!Transition(at[r], "PARTIAL")
      BY <1>10, <2>a, <2>1
      DEF MarkPartial, TransitionStatus, Awaiting, nombaVars, Lifecycle!Transition,
          Lifecycle!ValidTransitions
    <3> QED
      BY <1>t, <2>a, <3>1 DEF Lifecycle!Status
  <2>2. CASE status[at[r]] # "PENDING"
    BY <1>10, <2>a, <2>2
    DEF MarkPartial, TransitionStatus, Awaiting, nombaVars, FiringInv, LifecycleTypeOK
  <2> QED BY <2>1, <2>2
<1>11. ASSUME NEW r \in Requests, AnswerInvalid(r) PROVE Done
  BY <1>11 DEF AnswerInvalid, rowVars, nombaVars
<1>12. ASSUME NEW r \in Requests, Approve(r) PROVE Done
  <2>a. r \in Procs /\ at[r] \in PayoutIds
    BY <1>12, Attached, Members DEF Approve, Unattached, FiringInv
  <2>1. Lifecycle!Transition(at[r], "APPROVED") \/ UNCHANGED <<status, calls>>
    BY <1>12, <2>a, <1>u
    DEF Approve, TransitionStatus, UpdateStatus, Awaiting, nombaVars,
        Lifecycle!Transition, Lifecycle!ValidTransitions, FiringInv, FiringDiscipline,
        Placement, Stages
  <2> QED
    BY <1>t, <2>a, <2>1 DEF Lifecycle!Status
<1>13. ASSUME NEW r \in Requests, StartTransfer(r) PROVE Done
  <2>a. r \in Procs /\ at[r] \in PayoutIds
    BY <1>13, Attached, Members DEF StartTransfer, Unattached, FiringInv
  <2>1. Lifecycle!Transition(at[r], "TRANSFERRING") \/ UNCHANGED <<status, calls>>
    BY <1>13, <2>a, <1>u
    DEF StartTransfer, TransitionStatus, UpdateStatus, Awaiting, nombaVars,
        Lifecycle!Transition, Lifecycle!ValidTransitions, FiringInv, FiringDiscipline,
        Placement, Stages
  <2> QED
    BY <1>t, <2>a, <2>1 DEF Lifecycle!Status
<1>14. ASSUME NEW r \in Procs, CallNomba(r) PROVE Done
  <2>a. r \in Procs /\ at[r] \in PayoutIds
    BY <1>14, Attached, Members DEF CallNomba, Unattached, FiringInv
  <2>1. status[at[r]] = "TRANSFERRING" /\ calls[at[r]] = 0
    BY <1>14, <2>a DEF CallNomba, FiringInv, FiringDiscipline
  <2>2. calls' = [calls EXCEPT ![at[r]] = 1] /\ UNCHANGED status
    BY <1>14, <2>a, <2>1 DEF CallNomba, rowVars, FiringInv, LifecycleTypeOK
  <2> QED
    BY <2>a, <2>1, <2>2 DEF Lifecycle!LifecycleNext, Lifecycle!RequestTransfer
<1>15. ASSUME NEW r \in Procs, StoreRef(r) PROVE Done
  <2>a. r \in Procs /\ at[r] \in PayoutIds
    BY <1>15, Attached, Members DEF StoreRef, Unattached, FiringInv
  <2>1. status[at[r]] = "TRANSFERRING"
    BY <1>15, <2>a DEF StoreRef, FiringInv, FiringDiscipline
  <2> QED
    BY <1>15, <2>a, <2>1
    DEF StoreRef, UpdateStatus, nombaVars, FiringInv, LifecycleTypeOK
<1>16. ASSUME NEW r \in Procs, FailTransfer(r) PROVE Done
  <2>a. r \in Procs /\ at[r] \in PayoutIds
    BY <1>16, Attached, Members DEF FailTransfer, Unattached, FiringInv
  <2>1. Lifecycle!Transition(at[r], "FAILED") \/ UNCHANGED <<status, calls>>
    BY <1>16, <2>a, <1>u
    DEF FailTransfer, TransitionStatus, UpdateStatus, Awaiting, nombaVars,
        Lifecycle!Transition, Lifecycle!ValidTransitions, FiringInv, FiringDiscipline,
        Placement, Stages
  <2> QED
    BY <1>t, <2>a, <2>1 DEF Lifecycle!Status
<1>17. ASSUME NEW r \in Procs, Release(r) PROVE Done
  BY <1>17 DEF Release, rowVars, nombaVars
<1>18. ASSUME NEW r \in Requests, NEW p \in PayoutIds, LoadCancel(r, p) PROVE Done
  BY <1>18 DEF LoadCancel, rowVars, nombaVars
<1>19. ASSUME NEW r \in Requests, Cancel(r) PROVE Done
  <2>a. r \in Procs /\ at[r] \in PayoutIds
    BY <1>19, Attached, Members DEF Cancel, Unattached, FiringInv
  <2>1. Lifecycle!Transition(at[r], "CANCELLED") \/ UNCHANGED <<status, calls>>
    BY <1>19, <2>a, <1>u
    DEF Cancel, TransitionStatus, UpdateStatus, Awaiting, nombaVars,
        Lifecycle!Transition, Lifecycle!ValidTransitions, FiringInv, FiringDiscipline,
        Placement, Stages
  <2> QED
    BY <1>t, <2>a, <2>1 DEF Lifecycle!Status
<1>20. ASSUME NEW r \in Expirers, SelectExpired(r) PROVE Done
  BY <1>20 DEF SelectExpired, rowVars, nombaVars
<1>21. ASSUME NEW r \in Expirers, Expire(r) PROVE Done
  <2>1. CASE UNCHANGED status
    BY <1>21, <2>1 DEF Expire, nombaVars
  <2>2. ASSUME NEW p \in todo[r], status[p] \in Awaiting, TransitionStatus(p, Awaiting, "EXPIRED")
        PROVE  Done
    <3>1. p \in PayoutIds
      BY DEF FiringInv, LifecycleTypeOK
    <3>2. Lifecycle!Transition(p, "EXPIRED")
      BY <1>21, <2>2, <3>1, <1>u
      DEF Expire, TransitionStatus, Awaiting, nombaVars, Lifecycle!Transition,
          Lifecycle!ValidTransitions
    <3> QED
      BY <1>t, <3>1, <3>2 DEF Lifecycle!Status
  <2> QED
    BY <1>21, <2>1, <2>2 DEF Expire, TransitionStatus
<1>22. ASSUME NEW r \in Sweepers, SweepRead(r) PROVE Done
  BY <1>22 DEF SweepRead, rowVars, nombaVars
<1>23. ASSUME NEW r \in Sweepers, NEW p \in PayoutIds, SweepCreate(r, p) PROVE Done
  BY <1>23
  DEF SweepCreate, UpdateStatus, nombaVars, Lifecycle!LifecycleNext, Lifecycle!Create
<1>24. ASSUME NEW r \in Sweepers, SweepApprove(r) PROVE Done
  <2>a. r \in Procs /\ at[r] \in PayoutIds
    BY <1>24, Attached, Members DEF SweepApprove, Unattached, FiringInv
  <2>1. Lifecycle!Transition(at[r], "APPROVED") \/ UNCHANGED <<status, calls>>
    BY <1>24, <2>a, <1>u
    DEF SweepApprove, TransitionStatus, UpdateStatus, Awaiting, nombaVars,
        Lifecycle!Transition, Lifecycle!ValidTransitions, FiringInv, FiringDiscipline,
        Placement, Stages
  <2> QED
    BY <1>t, <2>a, <2>1 DEF Lifecycle!Status
<1>25. ASSUME NEW r \in Sweepers, SweepLock(r) PROVE Done
  BY <1>25 DEF SweepLock, rowVars, nombaVars
<1>26. ASSUME NEW r \in Sweepers, SweepFire(r) PROVE Done
  <2>a. r \in Procs /\ at[r] \in PayoutIds
    BY <1>26, Attached, Members DEF SweepFire, Unattached, FiringInv
  <2>1. Lifecycle!Transition(at[r], "TRANSFERRING") \/ UNCHANGED <<status, calls>>
    BY <1>26, <2>a, <1>u
    DEF SweepFire, TransitionStatus, UpdateStatus, Awaiting, nombaVars,
        Lifecycle!Transition, Lifecycle!ValidTransitions, FiringInv, FiringDiscipline,
        Placement, Stages
  <2> QED
    BY <1>t, <2>a, <2>1 DEF Lifecycle!Status
<1>27. ASSUME NEW p \in PayoutIds, NombaConcludes(p) PROVE Done
  BY <1>27 DEF NombaConcludes, rowVars, nombaVars
<1>28. ASSUME NEW w \in Workers, NEW e \in Event, TakeEvent(w, e) PROVE Done
  BY <1>28 DEF TakeEvent, rowVars, nombaVars
<1>29. ASSUME NEW w \in Workers, Settle(w) PROVE Done
  <2>a. w \in Procs /\ at[w] \in PayoutIds
    BY <1>29, Attached, Members DEF Settle, Unattached, FiringInv
  <2>1. Lifecycle!Transition(at[w], "TRANSFERRED") \/ UNCHANGED <<status, calls>>
    BY <1>29, <2>a, <1>u
    DEF Settle, TransitionStatus, UpdateStatus, Awaiting, nombaVars,
        Lifecycle!Transition, Lifecycle!ValidTransitions, FiringInv, FiringDiscipline,
        Placement, Stages
  <2> QED
    BY <1>t, <2>a, <2>1 DEF Lifecycle!Status
<1>30. ASSUME NEW w \in Workers, Refund(w) PROVE Done
  <2>a. w \in Procs /\ at[w] \in PayoutIds
    BY <1>30, Attached, Members DEF Refund, Unattached, FiringInv
  <2>1. Lifecycle!Transition(at[w], "FAILED") \/ UNCHANGED <<status, calls>>
    BY <1>30, <2>a, <1>u
    DEF Refund, TransitionStatus, UpdateStatus, Awaiting, nombaVars,
        Lifecycle!Transition, Lifecycle!ValidTransitions, FiringInv, FiringDiscipline,
        Placement, Stages
  <2> QED
    BY <1>t, <2>a, <2>1 DEF Lifecycle!Status
<1>31. ASSUME NEW n \in Policies, SetPolicy(n) PROVE Done
  BY <1>31 DEF SetPolicy, rowVars, nombaVars
<1>32. ASSUME NEW S \in SUBSET Procs, Stop(S) PROVE Done
  BY <1>32 DEF Stop, rowVars, nombaVars
<1>33. ASSUME Inflow PROVE Done
  BY <1>33 DEF Inflow, rowVars, nombaVars
<1>34. ASSUME NextMonth PROVE Done
  BY <1>34 DEF NextMonth, rowVars, nombaVars
<1>35. ASSUME NEW S, NEW H, SetPanel(S, H) PROVE Done
  BY <1>35 DEF SetPanel, rowVars, nombaVars
<1>36. ASSUME NEW s \in Signatories, Deactivate(s) \/ UpdateSignatory(s)
       PROVE  Done
  BY <1>35, <1>36 DEF Deactivate, UpdateSignatory
<1>37. ASSUME NEW r \in Requests, NEW a \in Amounts, Initiate(r, a) PROVE Done
  BY <1>37 DEF Initiate, rowVars, nombaVars
<1>38. ASSUME NEW r \in Requests, RefuseLock(r) PROVE Done
  BY <1>38 DEF RefuseLock, rowVars, nombaVars
<1>39. ASSUME NEW p \in PayoutIds, NEW s \in Signatories, LapseLink(p, s) PROVE Done
  BY <1>39 DEF LapseLink, rowVars, nombaVars
<1> HIDE DEF LifecycleTypeOK, FiringDiscipline, Placement, Stages, Untouched,
        Enter, Goto, Finish, UpdateStatus, TransitionStatus, Awaiting,
        rowVars, voteVars, policyVars, moneyVars, nombaVars, procVars, localVars
<1> QED
  BY <1>1, <1>2, <1>3, <1>4, <1>5, <1>6, <1>7, <1>8, <1>9, <1>10, <1>11, <1>12, <1>13,
      <1>14, <1>15, <1>16, <1>17, <1>18, <1>19, <1>20, <1>21, <1>22, <1>23, <1>24,
      <1>25, <1>26, <1>27, <1>28, <1>29, <1>30, <1>31, <1>32, <1>33, <1>34,
      <1>36, <1>37, <1>38, <1>39, Members
  DEF Next, UserRequest, RequestStep, SweepStep, ExpiryStep, WorkerStep, Environment,
      Abort, Restart

\* Whatever requests, jobs, webhooks, faults and lost answers do, a payout
\* follows VALID_TRANSITIONS, its transfer is requested at most once, and its
\* terminal status is final (payout-state.machine.ts).
THEOREM PayoutsImplementLifecycle ==
  ASSUME OneWorker, SweepsUndisturbed PROVE Spec => ImplementsLifecycle
<1>1. FiringInv /\ [Next]_vars => [Lifecycle!LifecycleNext]_(Lifecycle!lifecycleVars)
  BY LifecycleStep DEF vars, Lifecycle!lifecycleVars
<1> QED
  BY LifecycleInitial, FiringInvariant, <1>1, PTL
  DEF Spec, ImplementsLifecycle, Lifecycle!LifecycleSpec

-----------------------------------------------------------------------------
(* The quorum behind a transfer.                                           *)

\* What the signatories' votes and the policy owe each other on the way to a
\* transfer; Behind(p) is the goal for one payout.
Behind(p) == Cardinality(approvers[p]) >= lowestPolicy

QuorumInv ==
    /\ minApprovers >= lowestPolicy
    /\ \A p \in PayoutIds : VotesFor(p, "APPROVED") \subseteq approvers[p]
    /\ \A r \in Requests : pc[r] = "quorum" => click[r].need >= lowestPolicy
    /\ \A r \in Requests : pc[r] = "approve" => Behind(at[r])
    /\ \A r \in Procs : pc[r] = "advance" => path[at[r]] = "MANUAL"
    /\ \A r \in Procs :
          pc[r] \in {"sweepApprove", "sweepLock", "sweepFire"} => path[at[r]] = "SWEEP"
    /\ QuorumBehindTransfer

\* Nobody has voted in an initial state.
LEMMA QuorumInit == Init => QuorumInv
  BY PayoutsAssumption
  DEF Init, QuorumInv, QuorumBehindTransfer, VotesFor, Procs

\* More approvers and a lower policy cannot undo a quorum.
LEMMA BehindMonotone ==
  ASSUME IsFiniteSet(Signatories), LifecycleTypeOK, LifecycleTypeOK', NEW p \in PayoutIds,
         approvers[p] \subseteq approvers'[p], lowestPolicy' <= lowestPolicy, Behind(p)
  PROVE  Behind(p)'
<1>1. /\ IsFiniteSet(approvers'[p]) /\ IsFiniteSet(approvers[p])
  BY FS_Subset DEF LifecycleTypeOK
<1>2. Cardinality(approvers[p]) <= Cardinality(approvers'[p])
  BY <1>1, FS_Subset
<1>3. Cardinality(approvers[p]) \in Nat /\ Cardinality(approvers'[p]) \in Nat
  BY <1>1, FS_CardinalityType
<1>4. lowestPolicy \in Nat /\ lowestPolicy' \in Nat
  BY PayoutsAssumption DEF LifecycleTypeOK
<1> QED
  BY <1>2, <1>3, <1>4 DEF Behind

Gates == {"quorum", "approve", "advance", "sweepApprove", "sweepLock", "sweepFire"}
Fired == {"APPROVED", "TRANSFERRING", "TRANSFERRED", "FAILED"}

\* A step that records no vote, brings nobody to a gate and fires nothing.
LEMMA QuorumFrame ==
  ASSUME QuorumInv, UNCHANGED <<vote, approvers, minApprovers, lowestPolicy, path>>,
         \A q \in Procs : pc'[q] \in Gates =>
             pc'[q] = pc[q] /\ at'[q] = at[q] /\ (q \in Requests => click'[q] = click[q]),
         \A p \in PayoutIds : status'[p] \in Fired => status[p] \in Fired
  PROVE  QuorumInv'
<1>1. \A p : VotesFor(p, "APPROVED")' = VotesFor(p, "APPROVED") /\ (Behind(p)' <=> Behind(p))
  BY DEF VotesFor, Behind
<1>2. QuorumBehindTransfer'
  BY <1>1 DEF QuorumInv, QuorumBehindTransfer, Fired, Behind
<1> QED
  BY <1>1, <1>2, Members DEF QuorumInv, Gates, Behind, VotesFor

\* Every step keeps the quorum argument's invariant.
LEMMA QuorumNext ==
  ASSUME IsFiniteSet(Signatories), FiringInv, FiringInv', QuorumInv, Next PROVE QuorumInv'
<1> USE PayoutsAssumption
    DEF Enter, Goto, Finish, UpdateStatus, TransitionStatus, Awaiting,
        rowVars, voteVars, policyVars, moneyVars, nombaVars, procVars, localVars
<1>a. LifecycleTypeOK /\ LifecycleTypeOK'
  BY DEF FiringInv
<1>1. ASSUME NEW r \in Requests, NEW p \in PayoutIds, CheckAndLock(r, p)
      PROVE  QuorumInv'
  <2> QED
    BY <1>a, <1>1, Members
    DEF CheckAndLock, QuorumInv, QuorumBehindTransfer, Behind, VotesFor, LifecycleTypeOK,
        FiringInv, FiringDiscipline, Placement, Stages, Unattached
<1>2. ASSUME NEW r \in Requests, NEW s \in Signatories, SendEmail(r, s)
      PROVE  QuorumInv'
  <2>a. r \in Procs /\ at[r] \in PayoutIds
    BY <1>2, Attached, Members DEF SendEmail, Unattached, FiringInv
  <2>1. \A p \in PayoutIds : approvers[p] \subseteq approvers'[p]
    BY <1>2 DEF SendEmail
  <2>2. \A p \in PayoutIds : VotesFor(p, "APPROVED")' \subseteq approvers'[p]
    BY <1>a, <2>a, <1>2 DEF SendEmail, LifecycleTypeOK, QuorumInv, VotesFor
  <2>3. UNCHANGED <<status, path, minApprovers, lowestPolicy, click>>
    BY <1>2 DEF SendEmail, rowVars, policyVars
  <2>4. \A q \in Procs : pc'[q] \in Gates => pc'[q] = pc[q] /\ at'[q] = at[q]
    <3>1. CASE Finish(r)
      BY <1>a, <2>a, <3>1 DEF Finish, Enter, Gates, LifecycleTypeOK
    <3>2. CASE UNCHANGED procVars
      BY <3>2 DEF procVars
    <3> QED BY <1>2, <3>1, <3>2 DEF SendEmail
  <2>5. \A p \in PayoutIds : Behind(p) => Behind(p)'
    BY <1>a, <2>1, <2>3, <2>4, BehindMonotone DEF LifecycleTypeOK
  <2>6. \A q \in Procs : pc[q] = "approve" => at[q] \in PayoutIds
    BY <1>a, Attached DEF FiringInv, Unattached
  <2>7. QuorumBehindTransfer'
    BY <2>3, <2>5 DEF QuorumInv, QuorumBehindTransfer, Behind
  <2>8. \A q \in Requests : pc[q] = "quorum" => click[q].need \in Nat
    BY DEF FiringInv, Clicks
  <2> QED
    BY <1>a, <2>2, <2>3, <2>4, <2>5, <2>6, <2>7, <2>8, Members
    DEF QuorumInv, Gates, LifecycleTypeOK
<1>3. ASSUME NEW r \in Requests, Advance(r) PROVE QuorumInv'
  <2>a. r \in Procs /\ at[r] \in PayoutIds
    BY <1>3, Attached, Members DEF Advance, Unattached, FiringInv
  <2> QED
    BY <1>a, <2>a, <1>3, Members
    DEF Advance, QuorumInv, QuorumBehindTransfer, Behind, VotesFor, LifecycleTypeOK,
        FiringInv, FiringDiscipline, Placement, Stages, Unattached
<1>4. ASSUME NEW r \in Requests, NEW p \in PayoutIds, NEW s \in Signatories,
             NEW act \in {"APPROVED", "DECLINED"}, ClickLink(r, p, s, act)
      PROVE  QuorumInv'
  <2> QED
    BY <1>a, <1>4, Members
    DEF ClickLink, QuorumInv, QuorumBehindTransfer, Behind, VotesFor, LifecycleTypeOK,
        FiringInv, FiringDiscipline, Placement, Stages, Unattached
<1>5. ASSUME NEW r \in Requests, LoadPayout(r) PROVE QuorumInv'
  <2>a. r \in Procs /\ at[r] \in PayoutIds
    BY <1>5, Attached, Members DEF LoadPayout, Unattached, FiringInv
  <2>1. UNCHANGED <<vote, approvers, minApprovers, lowestPolicy, path>>
    BY <1>5 DEF LoadPayout, rowVars, voteVars, policyVars
  <2>2. \A q \in Procs : pc'[q] \in Gates =>
           pc'[q] = pc[q] /\ at'[q] = at[q] /\ (q \in Requests => click'[q] = click[q])
    BY <1>a, <2>a, <1>5, Members DEF LoadPayout, Gates, LifecycleTypeOK
  <2>3. \A p \in PayoutIds : status'[p] \in Fired => status[p] \in Fired
    BY <1>a, <2>a, <1>5
    DEF LoadPayout, TransitionStatus, rowVars, Fired, Awaiting, LifecycleTypeOK
  <2> QED
    BY <2>1, <2>2, <2>3, QuorumFrame
<1>6. ASSUME NEW r \in Requests, RecordAction(r) PROVE QuorumInv'
  <2>a. r \in Procs /\ at[r] \in PayoutIds
    BY <1>6, Attached, Members DEF RecordAction, Unattached, FiringInv
  <2>1. \A p \in PayoutIds : approvers[p] \subseteq approvers'[p]
    BY <1>a, <2>a, <1>6 DEF RecordAction, LifecycleTypeOK
  <2>2. \A p \in PayoutIds : VotesFor(p, "APPROVED")' \subseteq approvers'[p]
    BY <1>a, <2>a, <1>6 DEF RecordAction, LifecycleTypeOK, QuorumInv, VotesFor
  <2>3. UNCHANGED <<status, path, minApprovers, lowestPolicy, at, click>>
    BY <1>6 DEF RecordAction, Goto, rowVars, policyVars
  <2>4. \A q \in Procs : pc'[q] \in Gates => pc'[q] = pc[q]
    BY <1>a, <2>a, <1>6 DEF RecordAction, Goto, Gates, LifecycleTypeOK
  <2>5. \A p \in PayoutIds : Behind(p) => Behind(p)'
    BY <1>a, <2>1, <2>3, <2>4, BehindMonotone DEF LifecycleTypeOK
  <2>6. \A q \in Procs : pc[q] = "approve" => at[q] \in PayoutIds
    BY <1>a, Attached DEF FiringInv, Unattached
  <2>7. QuorumBehindTransfer'
    BY <2>3, <2>5 DEF QuorumInv, QuorumBehindTransfer, Behind
  <2>8. \A q \in Requests : pc[q] = "quorum" => click[q].need \in Nat
    BY DEF FiringInv, Clicks
  <2> QED
    BY <1>a, <2>2, <2>3, <2>4, <2>5, <2>6, <2>7, <2>8, Members
    DEF QuorumInv, Gates, LifecycleTypeOK
<1>7. ASSUME NEW r \in Requests, Decline(r) PROVE QuorumInv'
  <2>a. r \in Procs /\ at[r] \in PayoutIds
    BY <1>7, Attached, Members DEF Decline, Unattached, FiringInv
  <2>1. UNCHANGED <<vote, approvers, minApprovers, lowestPolicy, path>>
    BY <1>7 DEF Decline, rowVars, voteVars, policyVars
  <2>2. \A q \in Procs : pc'[q] \in Gates =>
           pc'[q] = pc[q] /\ at'[q] = at[q] /\ (q \in Requests => click'[q] = click[q])
    BY <1>a, <2>a, <1>7, Members DEF Decline, Gates, LifecycleTypeOK
  <2>3. \A p \in PayoutIds : status'[p] \in Fired => status[p] \in Fired
    BY <1>a, <2>a, <1>7
    DEF Decline, TransitionStatus, rowVars, Fired, Awaiting, LifecycleTypeOK
  <2> QED
    BY <2>1, <2>2, <2>3, QuorumFrame
<1>8. ASSUME NEW r \in Requests, ReadPolicy(r) PROVE QuorumInv'
  <2>a. r \in Procs /\ at[r] \in PayoutIds
    BY <1>8, Attached, Members DEF ReadPolicy, Unattached, FiringInv
  <2> QED
    BY <1>a, <2>a, <1>8, Members
    DEF ReadPolicy, QuorumInv, QuorumBehindTransfer, Behind, VotesFor,
        LifecycleTypeOK,
        FiringInv, FiringDiscipline, Placement, Stages, Unattached
<1>9. ASSUME NEW r \in Requests, CheckQuorum(r) PROVE QuorumInv'
  <2>a. r \in Procs /\ at[r] \in PayoutIds
    BY <1>9, Attached, Members DEF CheckQuorum, Unattached, FiringInv
  <2>1. UNCHANGED <<status, path, vote, approvers, minApprovers, lowestPolicy, at, click>>
    BY <1>9 DEF CheckQuorum, Goto, rowVars, voteVars, policyVars
  <2>2. pc'[r] = "approve" => Behind(at[r])
    <3>1. SUFFICES ASSUME pc'[r] = "approve" PROVE Behind(at[r])
      OBVIOUS
    <3>2. QuorumReached(at[r], click[r].need) /\ pc[r] = "quorum"
      BY <1>a, <2>a, <1>9, <3>1 DEF CheckQuorum, Goto, LifecycleTypeOK
    <3>3. /\ VotesFor(at[r], "APPROVED") \subseteq approvers[at[r]]
          /\ IsFiniteSet(approvers[at[r]])
      BY <1>a, <2>a, FS_Subset DEF QuorumInv, LifecycleTypeOK
    <3>4. Cardinality(VotesFor(at[r], "APPROVED")) <= Cardinality(approvers[at[r]])
      BY <3>3, FS_Subset
    <3>5. /\ Cardinality(VotesFor(at[r], "APPROVED")) \in Nat
          /\ Cardinality(approvers[at[r]]) \in Nat
      BY <3>3, FS_Subset, FS_CardinalityType
    <3>6. click[r].need >= lowestPolicy /\ click[r].need \in Nat /\ lowestPolicy \in Nat
      BY <1>a, <3>2 DEF QuorumInv, FiringInv, Clicks, LifecycleTypeOK
    <3>7. Cardinality(VotesFor(at[r], "APPROVED")) >= click[r].need
      BY <3>2 DEF QuorumReached
    <3>8. Cardinality(approvers[at[r]]) >= lowestPolicy
      BY <3>4, <3>5, <3>6, <3>7
    <3> QED
      BY <3>8 DEF Behind
  <2>3. \A q \in Procs \ {r} : pc'[q] = pc[q]
    BY <1>a, <1>9 DEF CheckQuorum, Goto, LifecycleTypeOK
  <2>4. pc'[r] \in {"approve", "partial", "invalid"}
    BY <1>a, <2>a, <1>9 DEF CheckQuorum, Goto, LifecycleTypeOK
  <2>5. \A p : VotesFor(p, "APPROVED")' = VotesFor(p, "APPROVED") /\ (Behind(p)' <=> Behind(p))
    BY <2>1 DEF VotesFor, Behind
  <2>6. QuorumBehindTransfer'
    BY <2>1 DEF QuorumInv, QuorumBehindTransfer
  <2> QED
    BY <2>1, <2>2, <2>3, <2>4, <2>5, <2>6, Members DEF QuorumInv
<1>10. ASSUME NEW r \in Requests, MarkPartial(r) PROVE QuorumInv'
  <2>a. r \in Procs /\ at[r] \in PayoutIds
    BY <1>10, Attached, Members DEF MarkPartial, Unattached, FiringInv
  <2> QED
    BY <1>a, <2>a, <1>10, Members
    DEF MarkPartial, QuorumInv, QuorumBehindTransfer, Behind, VotesFor,
        LifecycleTypeOK,
        FiringInv, FiringDiscipline, Placement, Stages, Unattached
<1>11. ASSUME NEW r \in Requests, AnswerInvalid(r) PROVE QuorumInv'
  <2>a. r \in Procs /\ at[r] \in PayoutIds
    BY <1>11, Attached, Members DEF AnswerInvalid, Unattached, FiringInv
  <2> QED
    BY <1>a, <2>a, <1>11, Members
    DEF AnswerInvalid, QuorumInv, QuorumBehindTransfer, Behind, VotesFor,
        LifecycleTypeOK,
        FiringInv, FiringDiscipline, Placement, Stages, Unattached
<1>12. ASSUME NEW r \in Requests, Approve(r) PROVE QuorumInv'
  <2>a. r \in Procs /\ at[r] \in PayoutIds
    BY <1>12, Attached, Members DEF Approve, Unattached, FiringInv
  <2>1. UNCHANGED <<vote, approvers, minApprovers, lowestPolicy, path>>
    BY <1>12 DEF Approve, rowVars, voteVars, policyVars
  <2>2. \A p : VotesFor(p, "APPROVED")' = VotesFor(p, "APPROVED") /\ (Behind(p)' <=> Behind(p))
    BY <2>1 DEF VotesFor, Behind
  <2>3. \A q \in Procs : pc'[q] \in Gates =>
           pc'[q] = pc[q] /\ at'[q] = at[q] /\ (q \in Requests => click'[q] = click[q])
    BY <1>a, <2>a, <1>12, Members DEF Approve, Gates, LifecycleTypeOK
  <2>4. Behind(at[r])
    BY <1>12 DEF Approve, QuorumInv
  <2>5. \A p \in PayoutIds : p # at[r] => status'[p] = status[p]
    BY <1>a, <2>a, <1>12 DEF Approve, LifecycleTypeOK
  <2>6. QuorumBehindTransfer'
    BY <2>1, <2>2, <2>4, <2>5 DEF QuorumInv, QuorumBehindTransfer, Behind
  <2> QED
    BY <2>1, <2>2, <2>3, <2>6, Members DEF QuorumInv, Gates, Behind, VotesFor
<1>13. ASSUME NEW r \in Requests, StartTransfer(r) PROVE QuorumInv'
  <2>a. r \in Procs /\ at[r] \in PayoutIds
    BY <1>13, Attached, Members DEF StartTransfer, Unattached, FiringInv
  <2> QED
    BY <1>a, <2>a, <1>13, Members
    DEF StartTransfer, QuorumInv, QuorumBehindTransfer, Behind, VotesFor,
        LifecycleTypeOK,
        FiringInv, FiringDiscipline, Placement, Stages, Unattached
<1>14. ASSUME NEW r \in Procs, CallNomba(r) PROVE QuorumInv'
  <2>a. r \in Procs /\ at[r] \in PayoutIds
    BY <1>14, Attached, Members DEF CallNomba, Unattached, FiringInv
  <2>1. UNCHANGED <<vote, approvers, minApprovers, lowestPolicy, path>>
    BY <1>14 DEF CallNomba, rowVars, voteVars, policyVars
  <2>2. \A q \in Procs : pc'[q] \in Gates =>
           pc'[q] = pc[q] /\ at'[q] = at[q] /\ (q \in Requests => click'[q] = click[q])
    BY <1>a, <2>a, <1>14, Members DEF CallNomba, Gates, LifecycleTypeOK
  <2>3. \A p \in PayoutIds : status'[p] \in Fired => status[p] \in Fired
    BY <1>a, <2>a, <1>14
    DEF CallNomba, TransitionStatus, rowVars, Fired, Awaiting, LifecycleTypeOK
  <2> QED
    BY <2>1, <2>2, <2>3, QuorumFrame
<1>15. ASSUME NEW r \in Procs, StoreRef(r) PROVE QuorumInv'
  <2>a. r \in Procs /\ at[r] \in PayoutIds
    BY <1>15, Attached, Members DEF StoreRef, Unattached, FiringInv
  <2> QED
    BY <1>a, <2>a, <1>15, Members
    DEF StoreRef, QuorumInv, QuorumBehindTransfer, Behind, VotesFor, LifecycleTypeOK,
        FiringInv, FiringDiscipline, Placement, Stages, Unattached
<1>16. ASSUME NEW r \in Procs, FailTransfer(r) PROVE QuorumInv'
  <2>a. r \in Procs /\ at[r] \in PayoutIds
    BY <1>16, Attached, Members DEF FailTransfer, Unattached, FiringInv
  <2> QED
    BY <1>a, <2>a, <1>16, Members
    DEF FailTransfer, QuorumInv, QuorumBehindTransfer, Behind, VotesFor,
        LifecycleTypeOK,
        FiringInv, FiringDiscipline, Placement, Stages, Unattached
<1>17. ASSUME NEW r \in Procs, Release(r) PROVE QuorumInv'
  <2>a. r \in Procs /\ at[r] \in PayoutIds
    BY <1>17, Attached, Members DEF Release, Unattached, FiringInv
  <2>1. UNCHANGED <<vote, approvers, minApprovers, lowestPolicy, path>>
    BY <1>17 DEF Release, rowVars, voteVars, policyVars
  <2>2. \A q \in Procs : pc'[q] \in Gates =>
           pc'[q] = pc[q] /\ at'[q] = at[q] /\ (q \in Requests => click'[q] = click[q])
    BY <1>a, <2>a, <1>17, Members DEF Release, Gates, LifecycleTypeOK
  <2>3. \A p \in PayoutIds : status'[p] \in Fired => status[p] \in Fired
    BY <1>a, <2>a, <1>17
    DEF Release, TransitionStatus, rowVars, Fired, Awaiting, LifecycleTypeOK
  <2> QED
    BY <2>1, <2>2, <2>3, QuorumFrame
<1>18. ASSUME NEW r \in Requests, NEW p \in PayoutIds, LoadCancel(r, p)
       PROVE  QuorumInv'
  <2> QED
    BY <1>a, <1>18, Members
    DEF LoadCancel, QuorumInv, QuorumBehindTransfer, Behind, VotesFor,
        LifecycleTypeOK,
        FiringInv, FiringDiscipline, Placement, Stages, Unattached
<1>19. ASSUME NEW r \in Requests, Cancel(r) PROVE QuorumInv'
  <2>a. r \in Procs /\ at[r] \in PayoutIds
    BY <1>19, Attached, Members DEF Cancel, Unattached, FiringInv
  <2>1. UNCHANGED <<vote, approvers, minApprovers, lowestPolicy, path>>
    BY <1>19 DEF Cancel, rowVars, voteVars, policyVars
  <2>2. \A q \in Procs : pc'[q] \in Gates =>
           pc'[q] = pc[q] /\ at'[q] = at[q] /\ (q \in Requests => click'[q] = click[q])
    BY <1>a, <2>a, <1>19, Members DEF Cancel, Gates, LifecycleTypeOK
  <2>3. \A p \in PayoutIds : status'[p] \in Fired => status[p] \in Fired
    BY <1>a, <2>a, <1>19
    DEF Cancel, TransitionStatus, rowVars, Fired, Awaiting, LifecycleTypeOK
  <2> QED
    BY <2>1, <2>2, <2>3, QuorumFrame
<1>20. ASSUME NEW r \in Expirers, SelectExpired(r) PROVE QuorumInv'
  <2> QED
    BY <1>a, <1>20, Members
    DEF SelectExpired, QuorumInv, QuorumBehindTransfer, Behind, VotesFor,
        LifecycleTypeOK,
        FiringInv, FiringDiscipline, Placement, Stages, Unattached
<1>21. ASSUME NEW r \in Expirers, Expire(r) PROVE QuorumInv'
  <2>1. UNCHANGED <<vote, approvers, minApprovers, lowestPolicy, path>>
    BY <1>21 DEF Expire, rowVars, voteVars, policyVars
  <2>2. \A q \in Procs : pc'[q] \in Gates =>
           pc'[q] = pc[q] /\ at'[q] = at[q] /\ (q \in Requests => click'[q] = click[q])
    BY <1>a, <1>21, Members DEF Expire, Gates, LifecycleTypeOK
  <2>3. \A p \in PayoutIds : status'[p] \in Fired => status[p] \in Fired
    BY <1>a, <1>21
    DEF Expire, TransitionStatus, rowVars, Fired, Awaiting, LifecycleTypeOK
  <2> QED
    BY <2>1, <2>2, <2>3, QuorumFrame
<1>22. ASSUME NEW r \in Sweepers, SweepRead(r) PROVE QuorumInv'
  <2> QED
    BY <1>a, <1>22, Members
    DEF SweepRead, QuorumInv, QuorumBehindTransfer, Behind, VotesFor, LifecycleTypeOK,
        FiringInv, FiringDiscipline, Placement, Stages, Unattached
<1>23. ASSUME NEW r \in Sweepers, NEW p \in PayoutIds, SweepCreate(r, p)
       PROVE  QuorumInv'
  <2> QED
    BY <1>a, <1>23, Members
    DEF SweepCreate, QuorumInv, QuorumBehindTransfer, Behind, VotesFor,
        LifecycleTypeOK,
        FiringInv, FiringDiscipline, Placement, Stages, Unattached
<1>24. ASSUME NEW r \in Sweepers, SweepApprove(r) PROVE QuorumInv'
  <2>a. r \in Procs /\ at[r] \in PayoutIds
    BY <1>24, Attached, Members DEF SweepApprove, Unattached, FiringInv
  <2> QED
    BY <1>a, <2>a, <1>24, Members
    DEF SweepApprove, QuorumInv, QuorumBehindTransfer, Behind, VotesFor,
        LifecycleTypeOK,
        FiringInv, FiringDiscipline, Placement, Stages, Unattached
<1>25. ASSUME NEW r \in Sweepers, SweepLock(r) PROVE QuorumInv'
  <2>a. r \in Procs /\ at[r] \in PayoutIds
    BY <1>25, Attached, Members DEF SweepLock, Unattached, FiringInv
  <2> QED
    BY <1>a, <2>a, <1>25, Members
    DEF SweepLock, QuorumInv, QuorumBehindTransfer, Behind, VotesFor, LifecycleTypeOK,
        FiringInv, FiringDiscipline, Placement, Stages, Unattached
<1>26. ASSUME NEW r \in Sweepers, SweepFire(r) PROVE QuorumInv'
  <2>a. r \in Procs /\ at[r] \in PayoutIds
    BY <1>26, Attached, Members DEF SweepFire, Unattached, FiringInv
  <2> QED
    BY <1>a, <2>a, <1>26, Members
    DEF SweepFire, QuorumInv, QuorumBehindTransfer, Behind, VotesFor, LifecycleTypeOK,
        FiringInv, FiringDiscipline, Placement, Stages, Unattached
<1>27. ASSUME NEW p \in PayoutIds, NombaConcludes(p) PROVE QuorumInv'
  <2> QED
    BY <1>a, <1>27, Members
    DEF NombaConcludes, QuorumInv, QuorumBehindTransfer, Behind, VotesFor,
        LifecycleTypeOK,
        FiringInv, FiringDiscipline, Placement, Stages, Unattached
<1>28. ASSUME NEW w \in Workers, NEW e \in Event, TakeEvent(w, e) PROVE QuorumInv'
  <2>1. UNCHANGED <<vote, approvers, minApprovers, lowestPolicy, path>>
    BY <1>28 DEF TakeEvent, rowVars, voteVars, policyVars
  <2>2. \A q \in Procs : pc'[q] \in Gates =>
           pc'[q] = pc[q] /\ at'[q] = at[q] /\ (q \in Requests => click'[q] = click[q])
    BY <1>a, <1>28, Members DEF TakeEvent, Gates, LifecycleTypeOK
  <2>3. \A p \in PayoutIds : status'[p] \in Fired => status[p] \in Fired
    BY <1>a, <1>28
    DEF TakeEvent, TransitionStatus, rowVars, Fired, Awaiting, LifecycleTypeOK
  <2> QED
    BY <2>1, <2>2, <2>3, QuorumFrame
<1>29. ASSUME NEW w \in Workers, Settle(w) PROVE QuorumInv'
  <2>a. w \in Procs /\ at[w] \in PayoutIds
    BY <1>29, Attached, Members DEF Settle, Unattached, FiringInv
  <2> QED
    BY <1>a, <2>a, <1>29, Members
    DEF Settle, QuorumInv, QuorumBehindTransfer, Behind, VotesFor, LifecycleTypeOK,
        FiringInv, FiringDiscipline, Placement, Stages, Unattached
<1>30. ASSUME NEW w \in Workers, Refund(w) PROVE QuorumInv'
  <2>a. w \in Procs /\ at[w] \in PayoutIds
    BY <1>30, Attached, Members DEF Refund, Unattached, FiringInv
  <2> QED
    BY <1>a, <2>a, <1>30, Members
    DEF Refund, QuorumInv, QuorumBehindTransfer, Behind, VotesFor, LifecycleTypeOK,
        FiringInv, FiringDiscipline, Placement, Stages, Unattached
<1>31. ASSUME NEW n \in Policies, SetPolicy(n) PROVE QuorumInv'
  <2>1. \A p \in PayoutIds : approvers[p] \subseteq approvers'[p]
    BY <1>31 DEF SetPolicy, voteVars
  <2>2. \A p \in PayoutIds : VotesFor(p, "APPROVED")' \subseteq approvers'[p]
    BY <1>31 DEF SetPolicy, voteVars, QuorumInv, VotesFor
  <2>3. UNCHANGED <<status, path, click, pc, at>>
    BY <1>31 DEF SetPolicy, rowVars, procVars
  <2>4. /\ lowestPolicy' <= lowestPolicy /\ minApprovers' >= lowestPolicy'
        /\ lowestPolicy \in Nat /\ lowestPolicy' \in Nat
    BY <1>a, <1>31 DEF SetPolicy, QuorumInv, LifecycleTypeOK
  <2>5. \A p \in PayoutIds : Behind(p) => Behind(p)'
    BY <1>a, <2>1, <2>3, <2>4, BehindMonotone DEF LifecycleTypeOK
  <2>6. \A q \in Procs : pc[q] = "approve" => at[q] \in PayoutIds
    BY <1>a, Attached DEF FiringInv, Unattached
  <2>7. QuorumBehindTransfer'
    BY <2>3, <2>5 DEF QuorumInv, QuorumBehindTransfer, Behind
  <2>8. \A q \in Requests : pc[q] = "quorum" => click[q].need \in Nat
    BY DEF FiringInv, Clicks
  <2> QED
    BY <1>a, <2>2, <2>3, <2>4, <2>5, <2>6, <2>7, <2>8, Members
    DEF QuorumInv, Gates, LifecycleTypeOK
<1>32. ASSUME NEW S \in SUBSET Procs, Stop(S) PROVE QuorumInv'
  <2> QED
    BY <1>a, <1>32, Members
    DEF Stop, QuorumInv, QuorumBehindTransfer, Behind, VotesFor, LifecycleTypeOK,
        FiringInv, FiringDiscipline, Placement, Stages, Unattached
<1>33. ASSUME Inflow PROVE QuorumInv'
  <2> QED
    BY <1>a, <1>33, Members
    DEF Inflow, QuorumInv, QuorumBehindTransfer, Behind, VotesFor, LifecycleTypeOK,
        FiringInv, FiringDiscipline, Placement, Stages, Unattached
<1>34. ASSUME NextMonth PROVE QuorumInv'
  <2> QED
    BY <1>a, <1>34, Members
    DEF NextMonth, QuorumInv, QuorumBehindTransfer, Behind, VotesFor, LifecycleTypeOK,
        FiringInv, FiringDiscipline, Placement, Stages, Unattached
<1>35. ASSUME NEW S, NEW H, SetPanel(S, H) PROVE QuorumInv'
  <2>1. UNCHANGED <<vote, approvers, minApprovers, lowestPolicy, path, status, pc, at, click>>
    BY <1>35 DEF SetPanel, rowVars, voteVars, procVars
  <2> QED
    BY <2>1, Members, QuorumFrame
<1>36. ASSUME NEW s \in Signatories, Deactivate(s) \/ UpdateSignatory(s)
       PROVE  QuorumInv'
  BY <1>35, <1>36 DEF Deactivate, UpdateSignatory
<1>37. ASSUME NEW r \in Requests, NEW a \in Amounts, Initiate(r, a) PROVE QuorumInv'
  <2>1. UNCHANGED <<vote, approvers, minApprovers, lowestPolicy, path, status, click>>
    BY <1>37 DEF Initiate, rowVars, voteVars, policyVars
  <2>2. \A q \in Procs : pc'[q] \in Gates =>
            pc'[q] = pc[q] /\ at'[q] = at[q] /\ (q \in Requests => click'[q] = click[q])
    BY <1>a, <1>37, <2>1, Members DEF Initiate, Gates, LifecycleTypeOK
  <2> QED
    BY <2>1, <2>2, QuorumFrame
<1>38. ASSUME NEW r \in Requests, RefuseLock(r) PROVE QuorumInv'
  <2>1. UNCHANGED <<vote, approvers, minApprovers, lowestPolicy, path, status, click>>
    BY <1>38 DEF RefuseLock, rowVars, voteVars, policyVars
  <2>2. \A q \in Procs : pc'[q] \in Gates =>
            pc'[q] = pc[q] /\ at'[q] = at[q] /\ (q \in Requests => click'[q] = click[q])
    BY <1>a, <1>38, <2>1, Members DEF RefuseLock, Gates, LifecycleTypeOK
  <2> QED
    BY <2>1, <2>2, QuorumFrame
<1>39. ASSUME NEW p \in PayoutIds, NEW s \in Signatories, LapseLink(p, s) PROVE QuorumInv'
  <2>1. UNCHANGED <<approvers, minApprovers, lowestPolicy, path, status, pc, at, click>>
    BY <1>39 DEF LapseLink, rowVars, policyVars, procVars
  <2>2. \A o \in PayoutIds : VotesFor(o, "APPROVED")' = VotesFor(o, "APPROVED")
    BY <1>39 DEF LapseLink, VotesFor, FiringInv, LifecycleTypeOK
  <2>3. \A o \in PayoutIds : Behind(o)' <=> Behind(o)
    BY <2>1 DEF Behind
  <2>4. QuorumBehindTransfer'
    BY <2>1, <2>3 DEF QuorumInv, QuorumBehindTransfer, Behind
  <2>5. \A r \in Procs : pc[r] = "approve" => at[r] \in PayoutIds
    BY <1>a, Attached DEF FiringInv, Unattached
  <2> QED
    BY <2>1, <2>2, <2>3, <2>4, <2>5, Members DEF QuorumInv
<1> HIDE DEF LifecycleTypeOK, FiringDiscipline, Placement, Stages, Untouched,
        Enter, Goto, Finish, UpdateStatus, TransitionStatus, Awaiting,
        rowVars, voteVars, policyVars, moneyVars, nombaVars, procVars, localVars
<1> QED
  BY <1>1, <1>2, <1>3, <1>4, <1>5, <1>6, <1>7, <1>8, <1>9, <1>10, <1>11, <1>12, <1>13,
      <1>14, <1>15, <1>16, <1>17, <1>18, <1>19, <1>20, <1>21, <1>22, <1>23, <1>24,
      <1>25, <1>26, <1>27, <1>28, <1>29, <1>30, <1>31, <1>32, <1>33, <1>34,
      <1>36, <1>37, <1>38, <1>39, Members,
      ZenonT(60)
  DEF Next, UserRequest, RequestStep, SweepStep, ExpiryStep, WorkerStep, Environment,
      Abort, Restart

\* A payout above the threshold reaches the bank only with the approval of as
\* many different signatories as the policy asked for at some time, for
\* any number of signatories, clicks, policy changes and faults
\* (approval.service.ts processAction).
THEOREM QuorumIsBehindTransfers ==
  ASSUME OneWorker, SweepsUndisturbed, IsFiniteSet(Signatories)
  PROVE  Spec => []QuorumBehindTransfer
<1>1. FiringInv /\ FiringInv' /\ QuorumInv /\ [Next]_vars => QuorumInv'
  <2>1. CASE Next
    BY <2>1, QuorumNext
  <2>2. CASE UNCHANGED vars
    BY <2>2 DEF vars, QuorumInv, QuorumBehindTransfer, Behind, VotesFor
  <2> QED BY <2>1, <2>2
<1>2. QuorumInv => QuorumBehindTransfer
  BY DEF QuorumInv
<1> QED
  BY QuorumInit, FiringInvariant, <1>1, <1>2, PTL DEF Spec

-----------------------------------------------------------------------------
(* The quorum stays within reach.                                          *)

\* Whom the list of a payout named, the initiator left out.
Recipients(p) == {s \in Signatories \ {Initiator} : vote[p][s] # "none"}

VoteTypeOK ==
    /\ vote \in [PayoutIds -> [Signatories -> Vote]]
    /\ panel \subseteq Signatories
    /\ used \in [inflows : Nat, policies : Nat, panel : Nat, faults : Nat]
    /\ minApprovers \in Nat
    /\ DOMAIN ask = Requests
    /\ \A r \in Requests :
          ask[r].amount \in Nat /\ ask[r].list \subseteq Signatories \ {Initiator}

\* As long as the policy has not changed, the list a request has passed the
\* gate with is long enough, and every payout that was created for approval
\* named enough signatories; nobody is ever taken off the list.
ReachInv ==
    /\ VoteTypeOK
    /\ used.policies = 0 =>
       /\ \A p \in PayoutIds :
             path[p] = "APPROVAL" => Cardinality(Recipients(p)) >= minApprovers
       /\ \A r \in Requests :
             ask[r].amount # 0 /\ ask[r].amount >= Threshold =>
                 Cardinality(ask[r].list) >= minApprovers

\* Nobody is on a list in an initial state.
LEMMA ReachInit == Init => ReachInv
  BY PayoutsAssumption DEF Init, ReachInv, VoteTypeOK, Vote, NoAsk

\* A list that only grew still suffices.
LEMMA ReachKept ==
  ASSUME IsFiniteSet(Signatories), ReachInv, used.policies = 0, minApprovers' = minApprovers,
         NEW p \in PayoutIds, path[p] = "APPROVAL",
         \A s \in Signatories : vote[p][s] # "none" => vote'[p][s] # "none"
  PROVE  Cardinality(Recipients(p)') >= minApprovers'
<1>1. Cardinality(Recipients(p)) >= minApprovers
  BY DEF ReachInv
<1>2. Recipients(p) \subseteq Recipients(p)'
  BY DEF Recipients
<1>3. IsFiniteSet(Recipients(p)) /\ IsFiniteSet(Recipients(p)')
  BY FS_Subset DEF Recipients
<1>4. Cardinality(Recipients(p)) <= Cardinality(Recipients(p)')
  BY <1>2, <1>3, FS_Subset
<1>5. Cardinality(Recipients(p)) \in Nat /\ Cardinality(Recipients(p)') \in Nat
  BY <1>3, FS_CardinalityType
<1>6. minApprovers \in Nat
  BY DEF ReachInv, VoteTypeOK
<1> QED
  BY <1>1, <1>4, <1>5, <1>6

\* A step that takes nobody off a list, opens no approval and either keeps the
\* policy or counts its change.
LEMMA ReachFrame ==
  ASSUME IsFiniteSet(Signatories), ReachInv, VoteTypeOK',
         used'.policies = 0 => used.policies = 0 /\ minApprovers' = minApprovers,
         \A r \in Requests : ask'[r] = ask[r] \/ ask'[r] = NoAsk,
         \A p \in PayoutIds : path'[p] = "APPROVAL" => path[p] = "APPROVAL",
         \A p \in PayoutIds, s \in Signatories : vote[p][s] # "none" => vote'[p][s] # "none"
  PROVE  ReachInv'
  BY ReachKept DEF ReachInv, NoAsk

\* Every step keeps the quorums within reach.
LEMMA ReachNext ==
  ASSUME IsFiniteSet(Signatories), FiringInv, LifecycleTypeOK', ReachInv, Next PROVE ReachInv'
<1> DEFINE Same == UNCHANGED <<vote, path, minApprovers, panel, used, ask>>
<1> USE DEF rowVars, voteVars, policyVars, moneyVars, nombaVars, procVars, localVars
<1>a. /\ vote' \in [PayoutIds -> [Signatories -> Vote]]
      /\ minApprovers' \in Nat
  BY PayoutsAssumption DEF LifecycleTypeOK
<1>b. ASSUME UNCHANGED <<panel, used, ask>> PROVE VoteTypeOK'
  BY <1>a, <1>b DEF ReachInv, VoteTypeOK
<1>s. ASSUME Same PROVE ReachInv'
  BY <1>b, <1>s, ReachFrame
<1>1. ASSUME NEW r \in Requests, NEW p \in PayoutIds, CheckAndLock(r, p)
       PROVE  ReachInv'
  <2>1. UNCHANGED <<panel, used, minApprovers>> /\ ask' = [ask EXCEPT ![r] = NoAsk]
    BY <1>1 DEF CheckAndLock
  <2>2. DOMAIN ask' = Requests /\ \A q \in Requests : ask'[q] = ask[q] \/ ask'[q] = NoAsk
    BY <2>1 DEF ReachInv, VoteTypeOK
  <2>3. VoteTypeOK'
    BY <1>a, <2>1, <2>2 DEF ReachInv, VoteTypeOK, NoAsk
  <2>4. \A o \in PayoutIds \ {p} : path'[o] = path[o] /\ vote'[o] = vote[o]
    BY <1>1 DEF CheckAndLock, LifecycleTypeOK, FiringInv
  <2>5. ASSUME used.policies = 0, path'[p] = "APPROVAL"
        PROVE  Cardinality(Recipients(p)') >= minApprovers'
    <3>1. ask[r].amount # 0
      BY <1>1 DEF CheckAndLock, FiringInv, Clicks
    <3>2. ask[r].amount >= Threshold
      <4>1. ~(ask[r].amount < Threshold)
        BY <1>1, <2>5 DEF CheckAndLock, LifecycleTypeOK, FiringInv
      <4> QED BY <4>1, PayoutsAssumption DEF ReachInv, VoteTypeOK
    <3>3. \A s \in Signatories : vote'[p][s] # "none" <=> s \in ask[r].list
      BY <1>1 DEF CheckAndLock, LifecycleTypeOK, FiringInv
    <3>4. Recipients(p)' = ask[r].list
      BY <3>3 DEF Recipients, ReachInv, VoteTypeOK
    <3>5. Cardinality(ask[r].list) >= minApprovers
      BY <2>5, <3>1, <3>2 DEF ReachInv
    <3> QED BY <2>1, <3>4, <3>5
  <2>6. ASSUME used.policies = 0, NEW o \in PayoutIds, path'[o] = "APPROVAL"
        PROVE  Cardinality(Recipients(o)') >= minApprovers'
    <3>1. CASE o = p
      BY <2>5, <2>6, <3>1
    <3>2. CASE o # p
      BY <2>1, <2>4, <2>6, <3>2, ReachKept
    <3> QED BY <3>1, <3>2
  <2> QED
    BY <2>1, <2>2, <2>3, <2>6 DEF ReachInv, NoAsk
<1>2. ASSUME NEW r \in Requests, NEW s \in Signatories, SendEmail(r, s) PROVE ReachInv'
  <2>1. UNCHANGED <<panel, used, minApprovers, path, ask>>
    BY <1>2 DEF SendEmail
  <2>2. \A p \in PayoutIds, o \in Signatories : vote[p][o] # "none" => vote'[p][o] # "none"
    BY <1>2 DEF SendEmail, LifecycleTypeOK, FiringInv
  <2> QED
    BY <1>b, <2>1, <2>2, ReachFrame
<1>3. ASSUME NEW r \in Requests, Advance(r) PROVE ReachInv'
  BY <1>s, <1>3 DEF Advance
<1>4. ASSUME NEW r \in Requests, NEW p \in PayoutIds, NEW s \in Signatories,
             NEW act \in {"APPROVED", "DECLINED"}, ClickLink(r, p, s, act)
       PROVE  ReachInv'
  BY <1>s, <1>4 DEF ClickLink
<1>5. ASSUME NEW r \in Requests, LoadPayout(r) PROVE ReachInv'
  BY <1>s, <1>5 DEF LoadPayout
<1>6. ASSUME NEW r \in Requests, RecordAction(r) PROVE ReachInv'
  <2>1. UNCHANGED <<panel, used, minApprovers, path, ask>>
    BY <1>6 DEF RecordAction
  <2>2. click[r].act # "none"
    BY <1>6 DEF RecordAction, FiringInv, Clicks, ClickPcs
  <2>3. \A p \in PayoutIds, o \in Signatories : vote[p][o] # "none" => vote'[p][o] # "none"
    BY <1>6, <2>2 DEF RecordAction, LifecycleTypeOK, FiringInv
  <2> QED
    BY <1>b, <2>1, <2>3, ReachFrame
<1>7. ASSUME NEW r \in Requests, Decline(r) PROVE ReachInv'
  BY <1>s, <1>7 DEF Decline
<1>8. ASSUME NEW r \in Requests, ReadPolicy(r) PROVE ReachInv'
  BY <1>s, <1>8 DEF ReadPolicy
<1>9. ASSUME NEW r \in Requests, CheckQuorum(r) PROVE ReachInv'
  BY <1>s, <1>9 DEF CheckQuorum
<1>10. ASSUME NEW r \in Requests, MarkPartial(r) PROVE ReachInv'
  BY <1>s, <1>10 DEF MarkPartial
<1>11. ASSUME NEW r \in Requests, AnswerInvalid(r) PROVE ReachInv'
  BY <1>s, <1>11 DEF AnswerInvalid
<1>12. ASSUME NEW r \in Requests, Approve(r) PROVE ReachInv'
  BY <1>s, <1>12 DEF Approve
<1>13. ASSUME NEW r \in Requests, StartTransfer(r) PROVE ReachInv'
  BY <1>s, <1>13 DEF StartTransfer
<1>14. ASSUME NEW r \in Procs, CallNomba(r) PROVE ReachInv'
  BY <1>s, <1>14 DEF CallNomba
<1>15. ASSUME NEW r \in Procs, StoreRef(r) PROVE ReachInv'
  BY <1>s, <1>15 DEF StoreRef
<1>16. ASSUME NEW r \in Procs, FailTransfer(r) PROVE ReachInv'
  BY <1>s, <1>16 DEF FailTransfer
<1>17. ASSUME NEW r \in Procs, Release(r) PROVE ReachInv'
  BY <1>s, <1>17 DEF Release
<1>18. ASSUME NEW r \in Requests, NEW p \in PayoutIds, LoadCancel(r, p) PROVE ReachInv'
  BY <1>s, <1>18 DEF LoadCancel
<1>19. ASSUME NEW r \in Requests, Cancel(r) PROVE ReachInv'
  BY <1>s, <1>19 DEF Cancel
<1>20. ASSUME NEW r \in Expirers, SelectExpired(r) PROVE ReachInv'
  BY <1>s, <1>20 DEF SelectExpired
<1>21. ASSUME NEW r \in Expirers, Expire(r) PROVE ReachInv'
  BY <1>s, <1>21 DEF Expire
<1>22. ASSUME NEW r \in Sweepers, SweepRead(r) PROVE ReachInv'
  BY <1>s, <1>22 DEF SweepRead
<1>23. ASSUME NEW r \in Sweepers, NEW p \in PayoutIds, SweepCreate(r, p) PROVE ReachInv'
  <2>1. UNCHANGED <<panel, used, minApprovers, vote, ask>>
    BY <1>23 DEF SweepCreate
  <2>2. \A o \in PayoutIds : path'[o] = "APPROVAL" => path[o] = "APPROVAL"
    BY <1>23 DEF SweepCreate, LifecycleTypeOK, FiringInv
  <2> QED
    BY <1>b, <2>1, <2>2, ReachFrame
<1>24. ASSUME NEW r \in Sweepers, SweepApprove(r) PROVE ReachInv'
  BY <1>s, <1>24 DEF SweepApprove
<1>25. ASSUME NEW r \in Sweepers, SweepLock(r) PROVE ReachInv'
  BY <1>s, <1>25 DEF SweepLock
<1>26. ASSUME NEW r \in Sweepers, SweepFire(r) PROVE ReachInv'
  BY <1>s, <1>26 DEF SweepFire
<1>27. ASSUME NEW p \in PayoutIds, NombaConcludes(p) PROVE ReachInv'
  BY <1>s, <1>27 DEF NombaConcludes
<1>28. ASSUME NEW w \in Workers, NEW e \in Event, TakeEvent(w, e) PROVE ReachInv'
  BY <1>s, <1>28 DEF TakeEvent
<1>29. ASSUME NEW w \in Workers, Settle(w) PROVE ReachInv'
  BY <1>s, <1>29 DEF Settle
<1>30. ASSUME NEW w \in Workers, Refund(w) PROVE ReachInv'
  BY <1>s, <1>30 DEF Refund
<1>31. ASSUME NEW n \in Policies, SetPolicy(n) PROVE ReachInv'
  <2>1. UNCHANGED <<vote, path, panel, ask>> /\ used' = [used EXCEPT !.policies = @ + 1]
    BY <1>31 DEF SetPolicy
  <2>2. VoteTypeOK' /\ used'.policies # 0
    BY <1>a, <2>1 DEF ReachInv, VoteTypeOK
  <2> QED
    BY <2>1, <2>2, ReachFrame
<1>32. ASSUME NEW S \in SUBSET Procs, Stop(S) PROVE ReachInv'
  <2>1. UNCHANGED <<vote, path, minApprovers, panel>> /\ used' = [used EXCEPT !.faults = @ + 1]
        /\ DOMAIN ask' = Requests /\ \A r \in Requests : ask'[r] = ask[r] \/ ask'[r] = NoAsk
    BY <1>32 DEF Stop
  <2>2. VoteTypeOK' /\ used'.policies = used.policies
    BY <1>a, <2>1 DEF ReachInv, VoteTypeOK, NoAsk
  <2> QED
    BY <2>1, <2>2, ReachFrame
<1>33. ASSUME Inflow PROVE ReachInv'
  <2>1. UNCHANGED <<vote, path, minApprovers, panel, ask>> /\ used' = [used EXCEPT !.inflows = @ + 1]
    BY <1>33 DEF Inflow
  <2>2. VoteTypeOK' /\ used'.policies = used.policies
    BY <1>a, <2>1 DEF ReachInv, VoteTypeOK
  <2> QED
    BY <2>1, <2>2, ReachFrame
<1>34. ASSUME NextMonth PROVE ReachInv'
  BY <1>s, <1>34 DEF NextMonth
<1>35. ASSUME NEW S \in SUBSET Signatories, NEW H, SetPanel(S, H) PROVE ReachInv'
  <2>1. UNCHANGED <<vote, path, minApprovers, ask>> /\ used' = [used EXCEPT !.panel = @ + 1]
        /\ panel' = S
    BY <1>35 DEF SetPanel
  <2>2. VoteTypeOK' /\ used'.policies = used.policies
    BY <1>a, <1>35, <2>1 DEF ReachInv, VoteTypeOK
  <2> QED
    BY <2>1, <2>2, ReachFrame
<1>36. ASSUME NEW s \in Signatories, Deactivate(s) \/ UpdateSignatory(s) PROVE ReachInv'
  <2>1. panel \ {s} \in SUBSET Signatories /\ panel \cup {s} \in SUBSET Signatories
    BY DEF ReachInv, VoteTypeOK
  <2>2. (\E H : SetPanel(panel \ {s}, H)) \/ (\E H : SetPanel(panel \cup {s}, H))
    BY <1>36, Zenon DEF Deactivate, UpdateSignatory
  <2> QED BY <1>35, <2>1, <2>2, Zenon
<1>37. ASSUME NEW r \in Requests, NEW a \in Amounts, Initiate(r, a) PROVE ReachInv'
  <2>1. UNCHANGED <<vote, path, minApprovers, panel, used>>
        /\ DOMAIN ask' = DOMAIN ask /\ \A q \in Requests \ {r} : ask'[q] = ask[q]
    BY <1>37 DEF Initiate, ReachInv, VoteTypeOK
  <2>2. /\ ask'[r].amount = a
        /\ ask'[r].list = IF a >= Threshold THEN Eligible ELSE {}
        /\ a >= Threshold => Cardinality(Eligible) >= minApprovers
    BY <1>37 DEF Initiate, ReachInv, VoteTypeOK
  <2>e. a \in Nat
    BY PayoutsAssumption
  <2>3. Eligible \subseteq Signatories \ {Initiator}
    BY DEF Eligible, ReachInv, VoteTypeOK
  <2>4. \A q \in Requests :
           ask'[q].amount \in Nat /\ ask'[q].list \subseteq Signatories \ {Initiator}
    BY <2>1, <2>2, <2>e, <2>3 DEF ReachInv, VoteTypeOK
  <2>5. VoteTypeOK'
    BY <1>a, <2>1, <2>4 DEF ReachInv, VoteTypeOK
  <2>6. ASSUME used.policies = 0, NEW q \in Requests, ask'[q].amount # 0, ask'[q].amount >= Threshold
        PROVE  Cardinality(ask'[q].list) >= minApprovers
    BY <2>1, <2>2, <2>6 DEF ReachInv
  <2>7. ASSUME used.policies = 0, NEW p \in PayoutIds, path'[p] = "APPROVAL"
        PROVE  Cardinality(Recipients(p)') >= minApprovers
    BY <2>1, <2>7 DEF ReachInv, Recipients
  <2> QED
    BY <2>1, <2>5, <2>6, <2>7 DEF ReachInv
<1>38. ASSUME NEW r \in Requests, RefuseLock(r) PROVE ReachInv'
  <2>1. UNCHANGED <<vote, path, minApprovers, panel, used>>
        /\ DOMAIN ask' = Requests /\ \A q \in Requests : ask'[q] = ask[q] \/ ask'[q] = NoAsk
    BY <1>38 DEF RefuseLock, ReachInv, VoteTypeOK
  <2>2. VoteTypeOK'
    BY <1>a, <2>1 DEF ReachInv, VoteTypeOK, NoAsk
  <2> QED
    BY <2>1, <2>2, ReachFrame
<1>39. ASSUME NEW p \in PayoutIds, NEW s \in Signatories, LapseLink(p, s) PROVE ReachInv'
  <2>1. UNCHANGED <<panel, used, minApprovers, path, ask>>
    BY <1>39 DEF LapseLink
  <2>2. \A q \in PayoutIds, o \in Signatories : vote[q][o] # "none" => vote'[q][o] # "none"
    BY <1>39 DEF LapseLink, LifecycleTypeOK, FiringInv
  <2> QED
    BY <1>b, <2>1, <2>2, ReachFrame
<1> HIDE DEF rowVars, voteVars, policyVars, moneyVars, nombaVars, procVars, localVars
<1> QED
  BY <1>1, <1>2, <1>3, <1>4, <1>5, <1>6, <1>7, <1>8, <1>9, <1>10, <1>11, <1>12, <1>13,
      <1>14, <1>15, <1>16, <1>17, <1>18, <1>19, <1>20, <1>21, <1>22, <1>23, <1>24,
      <1>25, <1>26, <1>27, <1>28, <1>29, <1>30, <1>31, <1>32, <1>33, <1>34,
      <1>36, <1>37, <1>38, <1>39, Members
  DEF Next, UserRequest, RequestStep, SweepStep, ExpiryStep, WorkerStep, Environment,
      Abort, Restart

\* Whoever leaves or joins the panel while links are out, a payout that waits
\* for approval was sent to enough signatories for the policy, its initiator
\* not among them (quorum.service.ts getEligibleSignatories), and as long as
\* none of its links has expired (token.service.ts:88) and their holders have a
\* phone number on file (approval.service.ts:250) those who have not voted can
\* still complete the quorum.
THEOREM QuorumStaysReachable ==
  ASSUME OneWorker, SweepsUndisturbed, IsFiniteSet(Signatories)
  PROVE  Spec => []QuorumReachable
<1>1. FiringInv /\ FiringInv' /\ ReachInv /\ [Next]_vars => ReachInv'
  <2>1. CASE Next
    BY <2>1, ReachNext DEF FiringInv
  <2>2. CASE UNCHANGED vars
    BY <2>2 DEF vars, ReachInv, VoteTypeOK, Recipients
  <2> QED BY <2>1, <2>2
<1>2. ReachInv => QuorumReachable
  <2> SUFFICES ASSUME ReachInv, used.policies = 0, NEW p \in PayoutIds, path[p] = "APPROVAL",
                      VotesFor(p, "DECLINED") = {}, VotesFor(p, "lapsed") = {},
                      VotesFor(p, "sent") \subseteq phones
               PROVE  Cardinality({s \in Signatories : CanStillCount(p, s)}) >= minApprovers
    BY DEF QuorumReachable
  <2>1. Recipients(p) = {s \in Signatories : CanStillCount(p, s)}
    BY DEF CanStillCount, Recipients, ReachInv, VoteTypeOK, Vote, VotesFor
  <2> QED BY <2>1 DEF ReachInv
<1> QED
  BY ReachInit, FiringInvariant, <1>1, <1>2, PTL DEF Spec

-----------------------------------------------------------------------------
(* Sums of numbers over finite sets: what SumFunctionOnSet of Functions    *)
(* does with an element more, and with a value changed.                    *)

\* The element that a sum over s takes next.
Pick(s) == CHOOSE x \in s : TRUE

\* it adds f over every set of D, one element after the other.
Adds(it, f, D) ==
    it = [s \in D |-> IF s = {} THEN 0 ELSE f[Pick(s)] + it[s \ {Pick(s)}]]

Small(S, n) == {s \in SUBSET S : IsFiniteSet(s) /\ Cardinality(s) \in 0 .. n}

LEMMA PickIn == ASSUME NEW s, s # {} PROVE Pick(s) \in s
BY DEF Pick

\* Removing the element taken next leaves a smaller set.
LEMMA SmallStep ==
    ASSUME NEW S, NEW n \in Nat, NEW s \in Small(S, n), s # {}
    PROVE  n - 1 \in Nat /\ s \ {Pick(s)} \in Small(S, n - 1)
<1>1. IsFiniteSet(s) /\ Cardinality(s) \in 0 .. n /\ s \in SUBSET S
  BY DEF Small
<1>2. Cardinality(s \ {Pick(s)}) = Cardinality(s) - 1 /\ IsFiniteSet(s \ {Pick(s)})
  BY <1>1, PickIn, FS_RemoveElement
<1>3. Cardinality(s \ {Pick(s)}) \in Nat
  BY <1>2, FS_CardinalityType
<1> QED BY <1>1, <1>2, <1>3 DEF Small

\* The recursion has a solution on the sets of at most n elements.
LEMMA AddsSmall ==
    ASSUME NEW f, NEW S, NEW N \in Nat
    PROVE  \E it : Adds(it, f, Small(S, N))
<1> DEFINE Bad == {n \in Nat : ~\E it : Adds(it, f, Small(S, n))}
<1> SUFFICES ASSUME Bad # {} PROVE FALSE
  OBVIOUS
<1>w. IsWellFoundedOn(OpToRel(<, Nat), Nat)
  BY NatLessThanWellFounded
<1>1. PICK n \in Bad : \A k \in Bad : ~(k < n)
  <2>1. PICK n \in Bad : \A k \in Bad : <<k, n>> \notin OpToRel(<, Nat)
    BY <1>w, WFMin
  <2> QED BY <2>1 DEF OpToRel
<1>2. CASE n = 0
  <2>1. Small(S, 0) = {{}}
    <3>1. \A s \in Small(S, 0) : s = {}
      BY FS_EmptySet DEF Small
    <3>2. {} \in Small(S, 0)
      BY FS_EmptySet DEF Small
    <3> QED BY <3>1, <3>2
  <2>2. Adds([s \in Small(S, 0) |-> 0], f, Small(S, 0))
    BY <2>1 DEF Adds
  <2> QED BY <1>2, <2>2
<1>3. CASE n # 0
  <2>1. n - 1 \in Nat /\ n - 1 \notin Bad
    BY <1>1, <1>3
  <2>2. PICK g : Adds(g, f, Small(S, n - 1))
    BY <2>1
  <2> DEFINE h == [s \in Small(S, n) |->
                      IF s = {} THEN 0 ELSE f[Pick(s)] + g[s \ {Pick(s)}]]
  <2>3. Small(S, n - 1) \subseteq Small(S, n)
    BY <2>1 DEF Small
  <2>4. \A u \in Small(S, n - 1) : h[u] = g[u]
    BY <2>2, <2>3 DEF Adds
  <2>5. \A s \in Small(S, n) : s # {} => h[s \ {Pick(s)}] = g[s \ {Pick(s)}]
    BY <2>4, SmallStep
  <2>6. Adds(h, f, Small(S, n))
    BY <2>5 DEF Adds
  <2> QED BY <2>6
<1> QED BY <1>2, <1>3

\* What the library's sum over a finite set computes.
LEMMA SumRecursion ==
    ASSUME NEW f, NEW S, IsFiniteSet(S)
    PROVE  \E it : Adds(it, f, SUBSET S) /\ SumFunctionOnSet(f, S) = it[S]
<1>1. Cardinality(S) \in Nat
  BY FS_CardinalityType
<1>2. SUBSET S = Small(S, Cardinality(S))
  <2>1. \A s \in SUBSET S : s \in Small(S, Cardinality(S))
    BY <1>1, FS_Subset, FS_CardinalityType DEF Small
  <2> QED BY <2>1 DEF Small
<1>3. PICK v : Adds(v, f, SUBSET S)
  <2>1. PICK v : Adds(v, f, Small(S, Cardinality(S)))
    BY <1>1, AddsSmall
  <2> QED BY <2>1, <1>2
<1> DEFINE h == CHOOSE g : g = [s \in SUBSET S |->
                    IF s = {} THEN 0
                    ELSE f[CHOOSE x \in s : TRUE] + g[s \ {CHOOSE x \in s : TRUE}]]
<1>4. SumFunctionOnSet(f, S) = h[S]
  BY DEF SumFunctionOnSet, FoldFunctionOnSet, MapThenFoldSet
<1>5. h = [s \in SUBSET S |->
              IF s = {} THEN 0 ELSE f[CHOOSE x \in s : TRUE] + h[s \ {CHOOSE x \in s : TRUE}]]
  BY <1>3 DEF Adds, Pick
<1> QED BY <1>4, <1>5 DEF Adds, Pick

\* A sum over no element.
LEMMA SumEmpty == ASSUME NEW f PROVE SumFunctionOnSet(f, {}) = 0
<1>1. PICK g : Adds(g, f, SUBSET {}) /\ SumFunctionOnSet(f, {}) = g[{}]
  BY FS_EmptySet, SumRecursion
<1>2. {} \in SUBSET {}
  OBVIOUS
<1> QED BY <1>1, <1>2 DEF Adds

\* A minimal set is one all of whose strict subsets are outside.
LEMMA MinimalSubset ==
    ASSUME NEW S, IsFiniteSet(S), NEW B \in SUBSET SUBSET S, B # {}
    PROVE  \E T \in B : \A U \in SUBSET T : U # T => U \notin B
<1>1. IsWellFoundedOn(StrictSubsetOrdering(S), SUBSET S)
  BY FS_FiniteSubsetsOfFinite, FS_StrictSubsetOrderingWellFounded
<1>2. PICK T \in B : \A U \in B : <<U, T>> \notin StrictSubsetOrdering(S)
  BY <1>1, WFMin
<1>3. \A U \in B : ~(U \subseteq T /\ U # T)
  BY <1>2 DEF StrictSubsetOrdering
<1> QED BY <1>3

\* The order in which elements are added does not matter, nor which larger set
\* the recursion was set up for.
LEMMA AddsTyped ==
    ASSUME NEW f, NEW S, IsFiniteSet(S), \A x \in S : f[x] \in Int,
           NEW it, Adds(it, f, SUBSET S)
    PROVE  \A s \in SUBSET S : it[s] \in Int
<1> DEFINE Bad == {s \in SUBSET S : it[s] \notin Int}
<1> SUFFICES ASSUME Bad # {} PROVE FALSE
  OBVIOUS
<1>1. PICK s \in Bad : \A u \in SUBSET s : u # s => u \notin Bad
  <2>1. Bad \in SUBSET SUBSET S
    OBVIOUS
  <2> HIDE DEF Bad
  <2> QED BY <2>1, MinimalSubset
<1>2. it[s] = IF s = {} THEN 0 ELSE f[Pick(s)] + it[s \ {Pick(s)}]
  BY DEF Adds
<1>3. s # {}
  BY <1>2
<1>4. Pick(s) \in s /\ s \ {Pick(s)} \in SUBSET s /\ s \ {Pick(s)} # s
  BY <1>3, PickIn
<1>5. it[s \ {Pick(s)}] \in Int /\ f[Pick(s)] \in Int
  BY <1>1, <1>4
<1> QED BY <1>2, <1>3, <1>5

LEMMA AddsAnyOrder ==
    ASSUME NEW f, NEW S, IsFiniteSet(S), \A x \in S : f[x] \in Int,
           NEW it, Adds(it, f, SUBSET S), NEW y \in S
    PROVE  it[S] = f[y] + it[S \ {y}]
<1> DEFINE Bad == {s \in SUBSET S : \E x \in s : it[s] # f[x] + it[s \ {x}]}
<1> SUFFICES ASSUME Bad # {} PROVE FALSE
  OBVIOUS
<1>1. PICK s \in Bad : \A u \in SUBSET s : u # s => u \notin Bad
  <2>1. Bad \in SUBSET SUBSET S
    OBVIOUS
  <2> HIDE DEF Bad
  <2> QED BY <2>1, MinimalSubset
<1>2. PICK x \in s : it[s] # f[x] + it[s \ {x}]
  OBVIOUS
<1> DEFINE c == Pick(s)
<1>3. c \in s /\ it[s] = f[c] + it[s \ {c}]
  BY PickIn DEF Adds
<1>4. c # x
  BY <1>2, <1>3
<1> HIDE DEF c
<1>5. it[s \ {c}] = f[x] + it[(s \ {c}) \ {x}]
  <2>1. s \ {c} \notin Bad /\ s \ {c} \in SUBSET S
    BY <1>1, <1>3
  <2> QED BY <2>1, <1>4
<1>6. it[s \ {x}] = f[c] + it[(s \ {c}) \ {x}]
  <2>1. s \ {x} \notin Bad /\ s \ {x} \in SUBSET S
    BY <1>1
  <2>2. it[s \ {x}] = f[c] + it[(s \ {x}) \ {c}]
    BY <2>1, <1>3, <1>4
  <2>3. (s \ {x}) \ {c} = (s \ {c}) \ {x}
    OBVIOUS
  <2> QED BY <2>2, <2>3
<1>7. (s \ {c}) \ {x} \in SUBSET S
  OBVIOUS
<1>8. it[(s \ {c}) \ {x}] \in Int /\ f[x] \in Int /\ f[c] \in Int
  BY <1>3, <1>7, AddsTyped
<1> HIDE DEF Bad
<1> QED BY <1>2, <1>3, <1>5, <1>6, <1>8

LEMMA AddsAgree ==
    ASSUME NEW f, NEW S, IsFiniteSet(S), NEW T \in SUBSET S,
           NEW g, Adds(g, f, SUBSET S), NEW h, Adds(h, f, SUBSET T)
    PROVE  h[T] = g[T]
<1> DEFINE Bad == {s \in SUBSET T : h[s] # g[s]}
<1> SUFFICES ASSUME Bad # {} PROVE FALSE
  OBVIOUS
<1>1. PICK s \in Bad : \A u \in SUBSET s : u # s => u \notin Bad
  <2>1. Bad \in SUBSET SUBSET T /\ IsFiniteSet(T)
    BY FS_Subset
  <2> HIDE DEF Bad
  <2> QED BY <2>1, MinimalSubset
<1>2. /\ h[s] = IF s = {} THEN 0 ELSE f[Pick(s)] + h[s \ {Pick(s)}]
      /\ g[s] = IF s = {} THEN 0 ELSE f[Pick(s)] + g[s \ {Pick(s)}]
  BY DEF Adds
<1>3. s # {} => Pick(s) \in s /\ s \ {Pick(s)} \in SUBSET s /\ s \ {Pick(s)} # s
  BY PickIn
<1>4. s # {} => h[s \ {Pick(s)}] = g[s \ {Pick(s)}]
  BY <1>1, <1>3
<1> QED BY <1>2, <1>4

\* One element of a sum set apart.
LEMMA SumRemove ==
    ASSUME NEW f, NEW S, IsFiniteSet(S), \A x \in S : f[x] \in Int, NEW x \in S
    PROVE  SumFunctionOnSet(f, S) = f[x] + SumFunctionOnSet(f, S \ {x})
<1>1. PICK g : Adds(g, f, SUBSET S) /\ SumFunctionOnSet(f, S) = g[S]
  BY SumRecursion
<1> DEFINE T == S \ {x}
<1>2. IsFiniteSet(T) /\ T \in SUBSET S /\ S \in SUBSET S
  BY FS_RemoveElement
<1>3. g[S] = f[x] + g[T]
  <2>1. Adds(g, f, SUBSET S)
    BY <1>1
  <2> HIDE <1>1
  <2> QED BY <2>1, AddsAnyOrder
<1> HIDE DEF T
<1>4. PICK h : Adds(h, f, SUBSET T) /\ SumFunctionOnSet(f, T) = h[T]
  BY <1>2, SumRecursion
<1>5. h[T] = g[T]
  <2>1. Adds(g, f, SUBSET S)
    BY <1>1
  <2>2. Adds(h, f, SUBSET T)
    BY <1>4
  <2>3. T \in SUBSET S
    BY <1>2
  <2> HIDE <1>1, <1>2, <1>4
  <2> QED BY <2>1, <2>2, <2>3, AddsAgree
<1> QED BY <1>1, <1>3, <1>4, <1>5 DEF T

LEMMA SumInt ==
    ASSUME NEW f, NEW S, IsFiniteSet(S), \A x \in S : f[x] \in Int
    PROVE  SumFunctionOnSet(f, S) \in Int
<1>1. PICK g : Adds(g, f, SUBSET S) /\ SumFunctionOnSet(f, S) = g[S]
  BY SumRecursion
<1> QED BY <1>1, AddsTyped

\* Sums of the same values are the same.
LEMMA SumSame ==
    ASSUME NEW f, NEW g, NEW S, IsFiniteSet(S), \A x \in S : f[x] \in Int,
           \A x \in S : f[x] = g[x]
    PROVE  SumFunctionOnSet(f, S) = SumFunctionOnSet(g, S)
<1> DEFINE Bad == {s \in SUBSET S : SumFunctionOnSet(f, s) # SumFunctionOnSet(g, s)}
<1> SUFFICES ASSUME Bad # {} PROVE FALSE
  OBVIOUS
<1>1. PICK s \in Bad : \A u \in SUBSET s : u # s => u \notin Bad
  <2>1. Bad \in SUBSET SUBSET S
    OBVIOUS
  <2> HIDE DEF Bad
  <2> QED BY <2>1, MinimalSubset
<1>2. IsFiniteSet(s) /\ s \in SUBSET S
  BY FS_Subset
<1>3. PICK x \in s : TRUE
  BY SumEmpty
<1>4. SumFunctionOnSet(f, s) = f[x] + SumFunctionOnSet(f, s \ {x})
  BY <1>2, SumRemove
<1>5. SumFunctionOnSet(g, s) = g[x] + SumFunctionOnSet(g, s \ {x})
  BY <1>2, SumRemove
<1>6. SumFunctionOnSet(f, s \ {x}) = SumFunctionOnSet(g, s \ {x})
  BY <1>1, <1>2
<1> QED BY <1>2, <1>4, <1>5, <1>6

\* Smaller values have a smaller sum, and a sum of naturals is a natural.
LEMMA SumMonotone ==
    ASSUME NEW f, NEW g, NEW S, IsFiniteSet(S), \A x \in S : f[x] \in Int /\ g[x] \in Int,
           \A x \in S : f[x] <= g[x]
    PROVE  SumFunctionOnSet(f, S) <= SumFunctionOnSet(g, S)
<1> DEFINE Bad == {s \in SUBSET S : ~(SumFunctionOnSet(f, s) <= SumFunctionOnSet(g, s))}
<1> SUFFICES ASSUME Bad # {} PROVE FALSE
  OBVIOUS
<1>1. PICK s \in Bad : \A u \in SUBSET s : u # s => u \notin Bad
  <2>1. Bad \in SUBSET SUBSET S
    OBVIOUS
  <2> HIDE DEF Bad
  <2> QED BY <2>1, MinimalSubset
<1>2. IsFiniteSet(s) /\ s \in SUBSET S
  BY FS_Subset
<1>3. PICK x \in s : TRUE
  BY SumEmpty
<1>4. SumFunctionOnSet(f, s) = f[x] + SumFunctionOnSet(f, s \ {x})
  BY <1>2, SumRemove
<1>5. SumFunctionOnSet(g, s) = g[x] + SumFunctionOnSet(g, s \ {x})
  BY <1>2, SumRemove
<1>6. SumFunctionOnSet(f, s \ {x}) <= SumFunctionOnSet(g, s \ {x})
  BY <1>1, <1>2
<1>7. IsFiniteSet(s \ {x}) /\ SumFunctionOnSet(f, s \ {x}) \in Int /\ SumFunctionOnSet(g, s \ {x}) \in Int
  BY <1>2, FS_RemoveElement, SumInt
<1>8. f[x] \in Int /\ g[x] \in Int /\ f[x] <= g[x]
  BY <1>2
<1> QED BY <1>4, <1>5, <1>6, <1>7, <1>8

\* A sum of naturals is a natural.
LEMMA SumNat ==
    ASSUME NEW f, NEW S, IsFiniteSet(S), \A x \in S : f[x] \in Nat
    PROVE  SumFunctionOnSet(f, S) \in Nat
<1> DEFINE Bad == {s \in SUBSET S : SumFunctionOnSet(f, s) \notin Nat}
<1> SUFFICES ASSUME Bad # {} PROVE FALSE
  OBVIOUS
<1>1. PICK s \in Bad : \A u \in SUBSET s : u # s => u \notin Bad
  <2>1. Bad \in SUBSET SUBSET S
    OBVIOUS
  <2> HIDE DEF Bad
  <2> QED BY <2>1, MinimalSubset
<1>2. IsFiniteSet(s) /\ s \in SUBSET S
  BY FS_Subset
<1>3. PICK x \in s : TRUE
  BY SumEmpty
<1>4. SumFunctionOnSet(f, s) = f[x] + SumFunctionOnSet(f, s \ {x})
  BY <1>2, SumRemove
<1>5. SumFunctionOnSet(f, s \ {x}) \in Nat /\ f[x] \in Nat
  BY <1>1, <1>2
<1> QED BY <1>4, <1>5

\* Elements that count nothing may be left out.
LEMMA SumSupport ==
    ASSUME NEW f, NEW S, IsFiniteSet(S), \A x \in S : f[x] \in Int,
           NEW T \in SUBSET S, \A x \in S \ T : f[x] = 0
    PROVE  SumFunctionOnSet(f, S) = SumFunctionOnSet(f, T)
<1> DEFINE Bad == {s \in SUBSET S : SumFunctionOnSet(f, s) # SumFunctionOnSet(f, s \cap T)}
<1> SUFFICES ASSUME Bad # {} PROVE FALSE
  <2>1. S \in SUBSET S /\ S \cap T = T
    OBVIOUS
  <2> QED BY <2>1
<1>1. PICK s \in Bad : \A u \in SUBSET s : u # s => u \notin Bad
  <2>1. Bad \in SUBSET SUBSET S
    OBVIOUS
  <2> HIDE DEF Bad
  <2> QED BY <2>1, MinimalSubset
<1>2. IsFiniteSet(s) /\ s \in SUBSET S /\ IsFiniteSet(s \cap T)
  BY FS_Subset
<1>3. PICK x \in s : TRUE
  <2>1. {} \cap T = {}
    OBVIOUS
  <2> QED BY <2>1
<1>4. SumFunctionOnSet(f, s) = f[x] + SumFunctionOnSet(f, s \ {x})
  BY <1>2, SumRemove
<1>5. SumFunctionOnSet(f, s \ {x}) = SumFunctionOnSet(f, (s \ {x}) \cap T)
  BY <1>1, <1>2
<1>6. CASE x \in T
  <2>1. SumFunctionOnSet(f, s \cap T) = f[x] + SumFunctionOnSet(f, (s \cap T) \ {x})
    BY <1>2, <1>6, SumRemove
  <2> DEFINE U == (s \cap T) \ {x}
             W == (s \ {x}) \cap T
             V == s \cap T
  <2>2. U = W
    OBVIOUS
  <2>3. /\ SumFunctionOnSet(f, V) = f[x] + SumFunctionOnSet(f, U)
        /\ SumFunctionOnSet(f, s) = f[x] + SumFunctionOnSet(f, W)
        /\ SumFunctionOnSet(f, s) # SumFunctionOnSet(f, V)
    BY <1>4, <1>5, <2>1
  <2> HIDE DEF U, W, V
  <2> QED BY <2>2, <2>3
<1>7. CASE x \notin T
  <2> DEFINE W == (s \ {x}) \cap T
             V == s \cap T
  <2>1. f[x] = 0 /\ W = V
    BY <1>2, <1>7
  <2>2. SumFunctionOnSet(f, V) \in Int
    BY <1>2, SumInt
  <2>3. /\ SumFunctionOnSet(f, s) = f[x] + SumFunctionOnSet(f, W)
        /\ SumFunctionOnSet(f, s) # SumFunctionOnSet(f, V)
    BY <1>4, <1>5
  <2> HIDE DEF W, V
  <2> QED BY <2>1, <2>2, <2>3
<1> QED BY <1>6, <1>7

\* One value of a sum changes.
LEMMA SumChange ==
    ASSUME NEW f, NEW g, NEW S, IsFiniteSet(S), \A x \in S : f[x] \in Int /\ g[x] \in Int,
           NEW y \in S, \A x \in S \ {y} : g[x] = f[x]
    PROVE  SumFunctionOnSet(g, S) = SumFunctionOnSet(f, S) + g[y] - f[y]
<1>1. SumFunctionOnSet(f, S) = f[y] + SumFunctionOnSet(f, S \ {y})
  BY SumRemove
<1>2. SumFunctionOnSet(g, S) = g[y] + SumFunctionOnSet(g, S \ {y})
  BY SumRemove
<1> DEFINE T == S \ {y}
<1>3. IsFiniteSet(T) /\ \A x \in T : f[x] \in Int /\ f[x] = g[x]
  BY FS_RemoveElement
<1>4. SumFunctionOnSet(f, T) = SumFunctionOnSet(g, T) /\ SumFunctionOnSet(f, T) \in Int
  <2> HIDE DEF T
  <2> QED BY <1>3, SumSame, SumInt
<1>5. f[y] \in Int /\ g[y] \in Int
  OBVIOUS
<1> QED BY <1>1, <1>2, <1>4, <1>5

\* A sum over one more element.
LEMMA SumExtend ==
    ASSUME NEW f, NEW S, IsFiniteSet(S), NEW y, y \notin S,
           \A x \in S \cup {y} : f[x] \in Int
    PROVE  SumFunctionOnSet(f, S \cup {y}) = SumFunctionOnSet(f, S) + f[y]
<1> DEFINE T == S \cup {y}
<1>1. IsFiniteSet(T) /\ y \in T /\ T \ {y} = S
  BY FS_AddElement
<1>2. \A x \in T : f[x] \in Int
  OBVIOUS
<1>3. SumFunctionOnSet(f, S) \in Int /\ f[y] \in Int
  BY SumInt
<1>4. SumFunctionOnSet(f, T) = SumFunctionOnSet(f, S) + f[y]
  <2> DEFINE U == T \ {y}
  <2> HIDE DEF T
  <2>1. SumFunctionOnSet(f, T) = f[y] + SumFunctionOnSet(f, U)
    BY <1>1, <1>2, SumRemove
  <2>2. U = S
    BY <1>1
  <2> HIDE DEF U
  <2> QED BY <1>3, <2>1, <2>2
<1> QED BY <1>4

\* A sum of naturals is at least each of them.
LEMMA SumCovers ==
    ASSUME NEW f, NEW S, IsFiniteSet(S), \A x \in S : f[x] \in Nat, NEW y \in S
    PROVE  SumFunctionOnSet(f, S) >= f[y]
<1>1. SumFunctionOnSet(f, S) = f[y] + SumFunctionOnSet(f, S \ {y})
  BY SumRemove
<1>2. IsFiniteSet(S \ {y}) /\ \A x \in S \ {y} : f[x] \in Nat
  BY FS_RemoveElement
<1>3. SumFunctionOnSet(f, S \ {y}) \in Nat
  BY <1>2, SumNat
<1> QED BY <1>1, <1>3

\* A sum over one element.
LEMMA SumSingle ==
    ASSUME NEW f, NEW y, f[y] \in Int PROVE SumFunctionOnSet(f, {y}) = f[y]
<1>1. SumFunctionOnSet(f, {} \cup {y}) = SumFunctionOnSet(f, {}) + f[y]
  <2>1. IsFiniteSet({}) /\ y \notin {} /\ \A x \in {} \cup {y} : f[x] \in Int
    BY FS_EmptySet
  <2> QED BY <2>1, SumExtend
<1>2. {} \cup {y} = {y}
  OBVIOUS
<1> QED BY <1>1, <1>2, SumEmpty

-----------------------------------------------------------------------------
(* The books of a fund: the totals of a ledger and what each operation of   *)
(* FundLedger.tla does to them.                                            *)

Months == Nat \ {NoPeriod}

\* A ledger as the database can hold it.
IsLedger(l) ==
    /\ IsFiniteSet(DOMAIN l) /\ DOMAIN l \subseteq Months
    /\ l \in [DOMAIN l -> Row]

\* k differs from l in reservations at most.
LocksOnly(l, k) ==
    /\ DOMAIN k = DOMAIN l
    /\ \A q \in DOMAIN l : /\ k[q].collected = l[q].collected
                           /\ k[q].paidOut = l[q].paidOut
                           /\ k[q].fees = l[q].fees

LEMMA RowFields ==
    ASSUME NEW l, IsLedger(l), NEW q \in DOMAIN l
    PROVE  /\ l[q].collected \in Nat /\ l[q].paidOut \in Nat
           /\ l[q].fees \in Nat /\ l[q].softLock \in Nat
BY DEF IsLedger, Row

\* The totals of a ledger are natural numbers.
LEMMA TotalsAreNat ==
    ASSUME NEW l, IsLedger(l)
    PROVE  /\ CollectedKobo(l) \in Nat /\ PaidOutKobo(l) \in Nat
           /\ FeesKobo(l) \in Nat /\ SoftLockKobo(l) \in Nat
           /\ AvailableKobo(l) \in Nat
<1>0. ASSUME NEW f, DOMAIN f = DOMAIN l, \A q \in DOMAIN l : f[q] \in Nat
      PROVE  SumFunction(f) \in Nat
  BY <1>0, SumNat DEF SumFunction, IsLedger
<1>1. CollectedKobo(l) \in Nat
  BY <1>0, RowFields DEF CollectedKobo
<1>2. PaidOutKobo(l) \in Nat
  BY <1>0, RowFields DEF PaidOutKobo
<1>3. FeesKobo(l) \in Nat
  BY <1>0, RowFields DEF FeesKobo
<1>4. SoftLockKobo(l) \in Nat
  BY <1>0, RowFields DEF SoftLockKobo
<1>5. AvailableKobo(l) \in Nat
  BY <1>1, <1>2, <1>3, <1>4 DEF AvailableKobo, FloorZero
<1> QED BY <1>1, <1>2, <1>3, <1>4, <1>5

\* Reservations leave the other totals alone.
LEMMA OtherTotals ==
    ASSUME NEW l, NEW k, LocksOnly(l, k)
    PROVE  /\ CollectedKobo(k) = CollectedKobo(l) /\ PaidOutKobo(k) = PaidOutKobo(l)
           /\ FeesKobo(k) = FeesKobo(l)
<1>1. [q \in DOMAIN k |-> k[q].collected] = [q \in DOMAIN l |-> l[q].collected]
  BY DEF LocksOnly
<1>2. [q \in DOMAIN k |-> k[q].paidOut] = [q \in DOMAIN l |-> l[q].paidOut]
  BY DEF LocksOnly
<1>3. [q \in DOMAIN k |-> k[q].fees] = [q \in DOMAIN l |-> l[q].fees]
  BY DEF LocksOnly
<1> QED BY <1>1, <1>2, <1>3 DEF CollectedKobo, PaidOutKobo, FeesKobo

\* The total of a column of which one row was written, an old one or a new one.
LEMMA ColumnChange ==
    ASSUME NEW f, NEW g, NEW m, IsFiniteSet(DOMAIN f), DOMAIN g = DOMAIN f \cup {m},
           \A q \in DOMAIN f : f[q] \in Int, \A q \in DOMAIN g : g[q] \in Int,
           \A q \in DOMAIN f \ {m} : g[q] = f[q]
    PROVE  /\ m \in DOMAIN f => SumFunction(g) = SumFunction(f) + g[m] - f[m]
           /\ m \notin DOMAIN f => SumFunction(g) = SumFunction(f) + g[m]
<1>1. CASE m \in DOMAIN f
  <2>1. DOMAIN g = DOMAIN f
    BY <1>1
  <2> QED BY <1>1, <2>1, SumChange DEF SumFunction
<1>2. CASE m \notin DOMAIN f
  <2>1. SumFunctionOnSet(g, DOMAIN f \cup {m}) = SumFunctionOnSet(g, DOMAIN f) + g[m]
    BY <1>2, SumExtend
  <2>2. SumFunctionOnSet(f, DOMAIN f) = SumFunctionOnSet(g, DOMAIN f)
    BY <1>2, SumSame
  <2> QED BY <1>2, <2>1, <2>2 DEF SumFunction
<1> QED BY <1>1, <1>2

\* What a row held before it is written.
OldRow(l, m) == IF m \in DOMAIN l THEN l[m] ELSE EmptyRow

\* The totals of a ledger of which one row was written.
LEMMA TotalsChange ==
    ASSUME NEW l, NEW k, NEW m, IsLedger(l), IsLedger(k), DOMAIN k = DOMAIN l \cup {m},
           \A q \in DOMAIN l \ {m} : k[q] = l[q]
    PROVE  /\ SoftLockKobo(k) = SoftLockKobo(l) + k[m].softLock - OldRow(l, m).softLock
           /\ PaidOutKobo(k) = PaidOutKobo(l) + k[m].paidOut - OldRow(l, m).paidOut
           /\ CollectedKobo(k) = CollectedKobo(l) + k[m].collected - OldRow(l, m).collected
<1> DEFINE old == OldRow(l, m)
<1>1. /\ \A q \in DOMAIN l : l[q].softLock \in Nat /\ l[q].paidOut \in Nat /\ l[q].collected \in Nat
      /\ \A q \in DOMAIN k : k[q].softLock \in Nat /\ k[q].paidOut \in Nat /\ k[q].collected \in Nat
  BY RowFields
<1>2. IsFiniteSet(DOMAIN l)
  BY DEF IsLedger
<1>3. m \notin DOMAIN l => old.softLock = 0 /\ old.paidOut = 0 /\ old.collected = 0
  BY DEF OldRow, EmptyRow
<1>4. m \in DOMAIN l => old = l[m]
  BY DEF OldRow
<1>n. /\ SoftLockKobo(l) \in Nat /\ PaidOutKobo(l) \in Nat /\ CollectedKobo(l) \in Nat
      /\ m \in DOMAIN k
  BY TotalsAreNat
<1>5. SoftLockKobo(k) = SoftLockKobo(l) + k[m].softLock - old.softLock
  <2> DEFINE f == [q \in DOMAIN l |-> l[q].softLock]
             g == [q \in DOMAIN k |-> k[q].softLock]
  <2>1. /\ DOMAIN f = DOMAIN l /\ DOMAIN g = DOMAIN l \cup {m}
        /\ g[m] = k[m].softLock /\ (m \in DOMAIN l => f[m] = old.softLock)
        /\ \A q \in DOMAIN l : f[q] \in Int
        /\ \A q \in DOMAIN l \cup {m} : g[q] \in Int
        /\ \A q \in DOMAIN l \ {m} : g[q] = f[q]
    BY <1>1, <1>4
  <2>2. SoftLockKobo(l) = SumFunction(f) /\ SoftLockKobo(k) = SumFunction(g)
    BY DEF SoftLockKobo
  <2> HIDE DEF f, g, old
  <2> QED BY <1>1, <1>2, <1>3, <1>n, <2>1, <2>2, ColumnChange
<1>6. PaidOutKobo(k) = PaidOutKobo(l) + k[m].paidOut - old.paidOut
  <2> DEFINE f == [q \in DOMAIN l |-> l[q].paidOut]
             g == [q \in DOMAIN k |-> k[q].paidOut]
  <2>1. /\ DOMAIN f = DOMAIN l /\ DOMAIN g = DOMAIN l \cup {m}
        /\ g[m] = k[m].paidOut /\ (m \in DOMAIN l => f[m] = old.paidOut)
        /\ \A q \in DOMAIN l : f[q] \in Int
        /\ \A q \in DOMAIN l \cup {m} : g[q] \in Int
        /\ \A q \in DOMAIN l \ {m} : g[q] = f[q]
    BY <1>1, <1>4
  <2>2. PaidOutKobo(l) = SumFunction(f) /\ PaidOutKobo(k) = SumFunction(g)
    BY DEF PaidOutKobo
  <2> HIDE DEF f, g, old
  <2> QED BY <1>1, <1>2, <1>3, <1>n, <2>1, <2>2, ColumnChange
<1>7. CollectedKobo(k) = CollectedKobo(l) + k[m].collected - old.collected
  <2> DEFINE f == [q \in DOMAIN l |-> l[q].collected]
             g == [q \in DOMAIN k |-> k[q].collected]
  <2>1. /\ DOMAIN f = DOMAIN l /\ DOMAIN g = DOMAIN l \cup {m}
        /\ g[m] = k[m].collected /\ (m \in DOMAIN l => f[m] = old.collected)
        /\ \A q \in DOMAIN l : f[q] \in Int
        /\ \A q \in DOMAIN l \cup {m} : g[q] \in Int
        /\ \A q \in DOMAIN l \ {m} : g[q] = f[q]
    BY <1>1, <1>4
  <2>2. CollectedKobo(l) = SumFunction(f) /\ CollectedKobo(k) = SumFunction(g)
    BY DEF CollectedKobo
  <2> HIDE DEF f, g, old
  <2> QED BY <1>1, <1>2, <1>3, <1>n, <2>1, <2>2, ColumnChange
<1> QED BY <1>5, <1>6, <1>7

\* A finite set of numbers has a largest one.
LEMMA LatestIn ==
    ASSUME NEW D, IsFiniteSet(D), D \subseteq Nat, D # {}
    PROVE  LatestPeriod(D) \in D
<1> DEFINE Bad == {s \in SUBSET D : s # {} /\ ~\E q \in s : \A o \in s : o <= q}
<1>1. Bad = {}
  <2> SUFFICES ASSUME Bad # {} PROVE FALSE
    OBVIOUS
  <2>1. PICK s \in Bad : \A u \in SUBSET s : u # s => u \notin Bad
    <3>1. Bad \in SUBSET SUBSET D
      OBVIOUS
    <3> HIDE DEF Bad
    <3> QED BY <3>1, MinimalSubset
  <2>2. PICK x \in s : TRUE
    OBVIOUS
  <2>3. CASE s \ {x} = {}
    BY <2>2, <2>3
  <2>4. CASE s \ {x} # {}
    <3>1. s \ {x} \notin Bad /\ s \ {x} \in SUBSET D
      BY <2>1
    <3>2. PICK y \in s \ {x} : \A o \in s \ {x} : o <= y
      BY <2>4, <3>1
    <3>3. CASE x <= y
      BY <3>2, <3>3
    <3>4. CASE ~(x <= y)
      <4>1. \A o \in s : o <= x
        BY <3>2, <3>4
      <4> QED BY <4>1
    <3> QED BY <3>3, <3>4
  <2> QED BY <2>3, <2>4
<1>2. \E q \in D : \A o \in D : o <= q
  BY <1>1
<1> QED BY <1>2 DEF LatestPeriod

\* A reservation is added to the row it is made on.
LEMMA ReserveAdds ==
    ASSUME NEW l, IsLedger(l), NEW a \in Nat, NEW m \in DOMAIN l
    PROVE  LET k == Reserve(l, m, a) IN
           /\ IsLedger(k) /\ LocksOnly(l, k)
           /\ k[m].softLock = l[m].softLock + a
           /\ \A q \in DOMAIN l \ {m} : k[q].softLock = l[q].softLock
           /\ SoftLockKobo(k) = SoftLockKobo(l) + a
<1> DEFINE k == Reserve(l, m, a)
<1>1. IsLedger(k) /\ LocksOnly(l, k)
  BY DEF Reserve, IsLedger, LocksOnly, Row
<1>2. /\ k[m].softLock = l[m].softLock + a
      /\ \A q \in DOMAIN l \ {m} : k[q].softLock = l[q].softLock
  BY DEF Reserve, IsLedger, Row
<1>3. /\ DOMAIN k = DOMAIN l \cup {m} /\ OldRow(l, m) = l[m]
      /\ \A q \in DOMAIN l \ {m} : k[q] = l[q]
  BY DEF Reserve, OldRow
<1>4. SoftLockKobo(l) \in Nat /\ l[m].softLock \in Nat
  BY TotalsAreNat, RowFields
<1> HIDE DEF k
<1>5. SoftLockKobo(k) = SoftLockKobo(l) + k[m].softLock - l[m].softLock
  BY <1>1, <1>3, TotalsChange
<1>6. SoftLockKobo(k) = SoftLockKobo(l) + a
  BY <1>2, <1>4, <1>5
<1> QED BY <1>1, <1>2, <1>6 DEF k

\* A reservation is added to the latest row.
LEMMA SoftLockAdds ==
    ASSUME NEW l, IsLedger(l), NEW a \in Nat
    PROVE  LET k == SoftLock(l, a)  m == LatestPeriod(DOMAIN l) IN
           /\ IsLedger(k) /\ LocksOnly(l, k)
           /\ DOMAIN l # {} =>
                /\ m \in DOMAIN l /\ k[m].softLock = l[m].softLock + a
                /\ \A q \in DOMAIN l \ {m} : k[q].softLock = l[q].softLock
                /\ SoftLockKobo(k) = SoftLockKobo(l) + a
<1>1. CASE DOMAIN l = {}
  <2>1. SoftLock(l, a) = l
    BY <1>1 DEF SoftLock
  <2> QED BY <1>1, <2>1 DEF LocksOnly
<1>2. CASE DOMAIN l # {}
  <2> DEFINE m == LatestPeriod(DOMAIN l)
  <2>1. SoftLock(l, a) = Reserve(l, m, a)
    BY <1>2 DEF SoftLock
  <2>2. m \in DOMAIN l
    BY <1>2, LatestIn DEF IsLedger, Months
  <2> HIDE DEF m
  <2> QED BY <1>2, <2>1, <2>2, ReserveAdds DEF m
<1> QED BY <1>1, <1>2

\* A reservation is taken off a row, never below zero.
LEMMA ReleaseSubtracts ==
    ASSUME NEW l, IsLedger(l), NEW a \in Nat, NEW m
    PROVE  LET k == ReleaseLock(l, a, m) IN
           /\ IsLedger(k) /\ LocksOnly(l, k)
           /\ m \in DOMAIN l /\ l[m].softLock >= a =>
                /\ k[m].softLock = l[m].softLock - a
                /\ \A q \in DOMAIN l \ {m} : k[q].softLock = l[q].softLock
                /\ SoftLockKobo(k) = SoftLockKobo(l) - a
<1>1. ASSUME NEW t \in DOMAIN l
      PROVE  LET k == [l EXCEPT ![t].softLock = FloorZero(@ - a)] IN
             /\ IsLedger(k) /\ LocksOnly(l, k)
             /\ l[t].softLock >= a =>
                  /\ k[t].softLock = l[t].softLock - a
                  /\ \A q \in DOMAIN l \ {t} : k[q].softLock = l[q].softLock
                  /\ SoftLockKobo(k) = SoftLockKobo(l) - a
  <2> DEFINE n == FloorZero(l[t].softLock - a)
             k == [l EXCEPT ![t].softLock = n]
  <2>1. n \in Nat /\ (l[t].softLock >= a => n = l[t].softLock - a) /\ l[t].softLock \in Nat
    BY RowFields DEF FloorZero
  <2> HIDE DEF n
  <2>2. IsLedger(k) /\ LocksOnly(l, k)
    BY <2>1 DEF IsLedger, LocksOnly, Row
  <2>3. k[t].softLock = n /\ \A q \in DOMAIN l \ {t} : k[q].softLock = l[q].softLock
    BY DEF IsLedger, Row
  <2>4. SoftLockKobo(k) = SoftLockKobo(l) + n - l[t].softLock
    <3>1. /\ DOMAIN k = DOMAIN l \cup {t} /\ OldRow(l, t) = l[t]
          /\ \A q \in DOMAIN l \ {t} : k[q] = l[q]
      BY DEF OldRow
    <3> HIDE DEF k
    <3> QED BY <2>2, <2>3, <3>1, TotalsChange
  <2>5. SoftLockKobo(l) \in Nat
    BY TotalsAreNat
  <2> HIDE DEF k
  <2>6. /\ IsLedger(k) /\ LocksOnly(l, k)
        /\ l[t].softLock >= a =>
              /\ k[t].softLock = l[t].softLock - a
              /\ \A q \in DOMAIN l \ {t} : k[q].softLock = l[q].softLock
              /\ SoftLockKobo(k) = SoftLockKobo(l) - a
    BY <2>1, <2>2, <2>3, <2>4, <2>5
  <2> QED BY <2>6 DEF k, n
<1>2. LocksOnly(l, l)
  BY DEF LocksOnly
<1> DEFINE locked == LockedPeriods(l)
           t == IF m # NoPeriod THEN m ELSE IF locked # {} THEN LatestPeriod(locked) ELSE NoPeriod
<1>3. ReleaseLock(l, a, m) = IF t \in DOMAIN l
                             THEN [l EXCEPT ![t].softLock = FloorZero(@ - a)] ELSE l
  BY DEF ReleaseLock
<1>4. m \in DOMAIN l => t = m
  BY DEF IsLedger, Months
<1> HIDE DEF t
<1>5. CASE t \in DOMAIN l
  BY <1>1, <1>3, <1>4, <1>5
<1>6. CASE t \notin DOMAIN l
  BY <1>2, <1>3, <1>4, <1>6
<1> QED BY <1>5, <1>6

\* A row is created if the month has none.
LEMMA Upserted ==
    ASSUME NEW l, IsLedger(l), NEW m \in Months
    PROVE  LET u == Upsert(l, m) IN
           /\ DOMAIN u = DOMAIN l \cup {m} /\ u \in [DOMAIN l \cup {m} -> Row]
           /\ u[m] = OldRow(l, m) /\ OldRow(l, m) \in Row
           /\ \A q \in DOMAIN l : u[q] = l[q]
           /\ IsFiniteSet(DOMAIN l \cup {m}) /\ DOMAIN l \cup {m} \subseteq Months
<1>1. EmptyRow \in Row
  BY DEF EmptyRow, Row
<1> QED BY <1>1, FS_AddElement DEF Upsert, OldRow, IsLedger

\* What a write of one row r that leaves the reservation alone does to the totals.
LEMMA PostAdds ==
    ASSUME NEW l, IsLedger(l), NEW m \in Months,
           NEW r \in Row, r.softLock = OldRow(l, m).softLock
    PROVE  LET k == [Upsert(l, m) EXCEPT ![m] = r] IN
           /\ IsLedger(k) /\ DOMAIN k = DOMAIN l \cup {m}
           /\ \A q \in DOMAIN k : k[q].softLock = OldRow(l, q).softLock
           /\ CollectedKobo(k) = CollectedKobo(l) + r.collected - OldRow(l, m).collected
           /\ PaidOutKobo(k) = PaidOutKobo(l) + r.paidOut - OldRow(l, m).paidOut
           /\ SoftLockKobo(k) = SoftLockKobo(l)
<1> DEFINE u == Upsert(l, m)
           k == [u EXCEPT ![m] = r]
<1>1. /\ DOMAIN u = DOMAIN l \cup {m} /\ u \in [DOMAIN l \cup {m} -> Row]
      /\ \A q \in DOMAIN l : u[q] = l[q]
      /\ IsFiniteSet(DOMAIN l \cup {m}) /\ DOMAIN l \cup {m} \subseteq Months
  BY Upserted
<1> HIDE DEF u
<1>2. DOMAIN k = DOMAIN l \cup {m} /\ k \in [DOMAIN l \cup {m} -> Row] /\ k[m] = r
  BY <1>1
<1>3. IsLedger(k)
  BY <1>1, <1>2 DEF IsLedger
<1>4. \A q \in DOMAIN l \ {m} : k[q] = l[q]
  BY <1>1
<1>5. \A q \in DOMAIN k : k[q].softLock = OldRow(l, q).softLock
  BY <1>2, <1>4 DEF OldRow
<1>6. SoftLockKobo(l) \in Nat /\ OldRow(l, m).softLock \in Nat
  BY TotalsAreNat, Upserted DEF Row
<1> HIDE DEF k
<1>7. /\ SoftLockKobo(k) = SoftLockKobo(l) + k[m].softLock - OldRow(l, m).softLock
      /\ PaidOutKobo(k) = PaidOutKobo(l) + k[m].paidOut - OldRow(l, m).paidOut
      /\ CollectedKobo(k) = CollectedKobo(l) + k[m].collected - OldRow(l, m).collected
  BY <1>2, <1>3, <1>4, TotalsChange
<1>8. /\ IsLedger(k) /\ DOMAIN k = DOMAIN l \cup {m}
      /\ \A q \in DOMAIN k : k[q].softLock = OldRow(l, q).softLock
      /\ CollectedKobo(k) = CollectedKobo(l) + r.collected - OldRow(l, m).collected
      /\ PaidOutKobo(k) = PaidOutKobo(l) + r.paidOut - OldRow(l, m).paidOut
      /\ SoftLockKobo(k) = SoftLockKobo(l)
  BY <1>2, <1>3, <1>5, <1>6, <1>7
<1> QED BY <1>8 DEF k, u

\* The reservations of k are those of l.
SameLocks(l, k) ==
    /\ \A q \in DOMAIN k : k[q].softLock = OldRow(l, q).softLock
    /\ SoftLockKobo(k) = SoftLockKobo(l)

\* k is the ledger l after a was collected in the row of month m.
Credited(l, k, m, a) ==
    /\ IsLedger(k) /\ DOMAIN k = DOMAIN l \cup {m}
    /\ CollectedKobo(k) = CollectedKobo(l) + a /\ PaidOutKobo(k) = PaidOutKobo(l)

\* A payment is collected once, in the row of its month.
LEMMA CreditAdds ==
    ASSUME NEW l, IsLedger(l), NEW m \in Months, NEW a \in Nat, NEW e \in Nat
    PROVE  LET k == CreditLedger(l, m, a, e) IN Credited(l, k, m, a) /\ SameLocks(l, k)
<1> DEFINE o == OldRow(l, m)
           r == [collected |-> o.collected + a, paidOut |-> o.paidOut,
                 fees |-> o.fees + e, softLock |-> o.softLock]
           k == [Upsert(l, m) EXCEPT ![m] = r]
<1>1. o \in Row /\ Upsert(l, m)[m] = o /\ Upsert(l, m) \in [DOMAIN l \cup {m} -> Row]
  BY Upserted
<1> HIDE DEF o
<1>2. /\ r \in Row /\ r.softLock = o.softLock /\ r.paidOut = o.paidOut
      /\ r.collected = o.collected + a /\ o.collected \in Nat /\ o.paidOut \in Nat
  BY <1>1 DEF Row
<1>3. CreditLedger(l, m, a, e) = k
  <2> DEFINE u == Upsert(l, m)
  <2>1. CreditLedger(l, m, a, e)
          = [u EXCEPT ![m].collected = u[m].collected + a, ![m].fees = u[m].fees + e]
    BY DEF CreditLedger
  <2> HIDE DEF u
  <2>2. m \in DOMAIN l \cup {m} /\ u \in [DOMAIN l \cup {m} -> Row] /\ u[m] = o
    BY <1>1 DEF u
  <2>3. PICK c \in Nat, p \in Nat, f \in Nat, s \in Nat :
             o = [collected |-> c, paidOut |-> p, fees |-> f, softLock |-> s]
    BY <1>1 DEF Row
  <2> DEFINE D == DOMAIN l \cup {m}
             v == [u EXCEPT ![m].collected = u[m].collected + a]
             w == [v EXCEPT ![m].fees = u[m].fees + e]
             z == [u EXCEPT ![m] = r]
  <2>4. /\ v[m] = [collected |-> c + a, paidOut |-> p, fees |-> f, softLock |-> s]
        /\ (\A q \in D : q # m => v[q] = u[q]) /\ v \in [D -> Row]
    BY <2>2, <2>3 DEF Row
  <2>5. r = [collected |-> c + a, paidOut |-> p, fees |-> f + e, softLock |-> s] /\ r \in Row /\ u[m].fees = f
    BY <1>2, <2>2, <2>3
  <2>6. w[m] = r /\ (\A q \in D : q # m => w[q] = u[q]) /\ w \in [D -> Row]
    <3> HIDE DEF v, r
    <3> QED BY <2>2, <2>4, <2>5 DEF Row
  <2>7. z[m] = r /\ (\A q \in D : q # m => z[q] = u[q]) /\ z \in [D -> Row]
    <3> HIDE DEF r
    <3> QED BY <2>2, <2>5
  <2>8. w = z
    <3> HIDE DEF w, z
    <3> QED BY <2>6, <2>7
  <2> QED BY <2>1, <2>8 DEF u
<1>4. PaidOutKobo(l) \in Nat /\ CollectedKobo(l) \in Nat
  BY TotalsAreNat
<1> HIDE DEF r
<1>5. /\ IsLedger(k) /\ DOMAIN k = DOMAIN l \cup {m}
      /\ \A q \in DOMAIN k : k[q].softLock = OldRow(l, q).softLock
      /\ CollectedKobo(k) = CollectedKobo(l) + r.collected - o.collected
      /\ PaidOutKobo(k) = PaidOutKobo(l) + r.paidOut - o.paidOut
      /\ SoftLockKobo(k) = SoftLockKobo(l)
  BY <1>2, PostAdds DEF o
<1> HIDE DEF k
<1>6. Credited(l, k, m, a) /\ SameLocks(l, k)
  BY <1>2, <1>4, <1>5 DEF Credited, SameLocks
<1> QED BY <1>3, <1>6

\* k is the ledger l after a was paid out of the row of month m.
PaidOut(l, k, m, a) ==
    /\ IsLedger(k) /\ DOMAIN k = DOMAIN l \cup {m}
    /\ CollectedKobo(k) = CollectedKobo(l) /\ PaidOutKobo(k) = PaidOutKobo(l) + a

\* k is l with a taken off the reservation on row t.
LockTaken(l, k, t, a) ==
    /\ k[t].softLock = l[t].softLock - a
    /\ \A q \in DOMAIN k \ {t} : k[q].softLock = OldRow(l, q).softLock
    /\ SoftLockKobo(k) = SoftLockKobo(l) - a

\* A payout is paid out of the row of its month, then its reservation released.
LEMMA Debited ==
    ASSUME NEW l, IsLedger(l), NEW m \in Months, NEW a \in Nat, NEW e \in Nat, NEW lp
    PROVE  \E k : PaidOut(l, k, m, a) /\ SameLocks(l, k)
                  /\ DebitLedger(l, m, a, e, lp) = ReleaseLock(k, a, lp)
<1> DEFINE o == OldRow(l, m)
           r == [collected |-> o.collected, paidOut |-> o.paidOut + a,
                 fees |-> o.fees + e, softLock |-> o.softLock]
           k == [Upsert(l, m) EXCEPT ![m] = r]
<1>1. o \in Row /\ Upsert(l, m)[m] = o /\ Upsert(l, m) \in [DOMAIN l \cup {m} -> Row]
  BY Upserted
<1> HIDE DEF o
<1>2. /\ r \in Row /\ r.softLock = o.softLock /\ r.collected = o.collected
      /\ r.paidOut = o.paidOut + a /\ o.collected \in Nat /\ o.paidOut \in Nat
  BY <1>1 DEF Row
<1>3. DebitLedger(l, m, a, e, lp) = ReleaseLock(k, a, lp)
  <2> DEFINE u == Upsert(l, m)
  <2>1. DebitLedger(l, m, a, e, lp)
          = ReleaseLock([u EXCEPT ![m].paidOut = u[m].paidOut + a, ![m].fees = u[m].fees + e],
                        a, lp)
    BY DEF DebitLedger
  <2> HIDE DEF u
  <2>2. m \in DOMAIN l \cup {m} /\ u \in [DOMAIN l \cup {m} -> Row] /\ u[m] = o
    BY <1>1 DEF u
  <2>3. PICK c \in Nat, p \in Nat, f \in Nat, s \in Nat :
             o = [collected |-> c, paidOut |-> p, fees |-> f, softLock |-> s]
    BY <1>1 DEF Row
  <2> DEFINE D == DOMAIN l \cup {m}
             v == [u EXCEPT ![m].paidOut = u[m].paidOut + a]
             w == [v EXCEPT ![m].fees = u[m].fees + e]
             z == [u EXCEPT ![m] = r]
  <2>4. /\ v[m] = [collected |-> c, paidOut |-> p + a, fees |-> f, softLock |-> s]
        /\ (\A q \in D : q # m => v[q] = u[q]) /\ v \in [D -> Row]
    BY <2>2, <2>3 DEF Row
  <2>5. r = [collected |-> c, paidOut |-> p + a, fees |-> f + e, softLock |-> s] /\ r \in Row /\ u[m].fees = f
    BY <1>2, <2>2, <2>3
  <2>6. w[m] = r /\ (\A q \in D : q # m => w[q] = u[q]) /\ w \in [D -> Row]
    <3> HIDE DEF v, r
    <3> QED BY <2>2, <2>4, <2>5 DEF Row
  <2>7. z[m] = r /\ (\A q \in D : q # m => z[q] = u[q]) /\ z \in [D -> Row]
    <3> HIDE DEF r
    <3> QED BY <2>2, <2>5
  <2>8. w = z
    <3> HIDE DEF w, z
    <3> QED BY <2>6, <2>7
  <2> QED BY <2>1, <2>8 DEF u
<1>4. PaidOutKobo(l) \in Nat /\ CollectedKobo(l) \in Nat
  BY TotalsAreNat
<1> HIDE DEF r
<1>5. /\ IsLedger(k) /\ DOMAIN k = DOMAIN l \cup {m}
      /\ \A q \in DOMAIN k : k[q].softLock = OldRow(l, q).softLock
      /\ CollectedKobo(k) = CollectedKobo(l) + r.collected - o.collected
      /\ PaidOutKobo(k) = PaidOutKobo(l) + r.paidOut - o.paidOut
      /\ SoftLockKobo(k) = SoftLockKobo(l)
  BY <1>2, PostAdds DEF o
<1> HIDE DEF k
<1>6. PaidOut(l, k, m, a) /\ SameLocks(l, k)
  BY <1>2, <1>4, <1>5 DEF PaidOut, SameLocks
<1> QED BY <1>3, <1>6

\* What that does to the months and to the totals.
LEMMA DebitTotals ==
    ASSUME NEW l, IsLedger(l), NEW m \in Months, NEW a \in Nat, NEW e \in Nat, NEW lp
    PROVE  PaidOut(l, DebitLedger(l, m, a, e, lp), m, a)
<1> DEFINE d == DebitLedger(l, m, a, e, lp)
<1>1. PICK k : PaidOut(l, k, m, a) /\ SameLocks(l, k) /\ d = ReleaseLock(k, a, lp)
  BY Debited
<1> HIDE DEF d
<1>2. IsLedger(d) /\ LocksOnly(k, d)
  BY <1>1, ReleaseSubtracts DEF PaidOut
<1>3. PaidOut(l, d, m, a)
  BY <1>1, <1>2, OtherTotals DEF LocksOnly, PaidOut
<1> QED BY <1>3 DEF d

\* What it does to the reservation.
LEMMA DebitReleases ==
    ASSUME NEW l, IsLedger(l), NEW m \in Months, NEW a \in Nat, NEW e \in Nat,
           NEW lp \in DOMAIN l, l[lp].softLock >= a
    PROVE  LockTaken(l, DebitLedger(l, m, a, e, lp), lp, a)
<1> DEFINE d == DebitLedger(l, m, a, e, lp)
<1>1. PICK k : PaidOut(l, k, m, a) /\ SameLocks(l, k) /\ d = ReleaseLock(k, a, lp)
  BY Debited
<1> HIDE DEF d
<1>2. lp \in DOMAIN k /\ k[lp].softLock = l[lp].softLock
  BY <1>1 DEF OldRow, PaidOut, SameLocks
<1>3. /\ LocksOnly(k, d) /\ d[lp].softLock = k[lp].softLock - a
      /\ \A q \in DOMAIN k \ {lp} : d[q].softLock = k[q].softLock
      /\ SoftLockKobo(d) = SoftLockKobo(k) - a
  BY <1>1, <1>2, ReleaseSubtracts DEF PaidOut
<1>4. LockTaken(l, d, lp, a)
  BY <1>1, <1>2, <1>3 DEF LocksOnly, LockTaken, SameLocks
<1> QED BY <1>4 DEF d

\* A release takes no more than was reserved, whatever row it goes to; with one
\* month's row only, it takes just that.
LEMMA ReleaseAtMost ==
    ASSUME NEW l, IsLedger(l), NEW a \in Nat, NEW m
    PROVE  LET k == ReleaseLock(l, a, m) IN
           /\ IsLedger(k) /\ LocksOnly(l, k)
           /\ SoftLockKobo(k) >= SoftLockKobo(l) - a
           /\ DOMAIN l = {1} /\ m \in {NoPeriod, 1} /\ SoftLockKobo(l) >= a =>
                SoftLockKobo(k) = SoftLockKobo(l) - a
<1>0. SoftLockKobo(l) \in Nat
  BY TotalsAreNat
<1>1. ASSUME NEW t \in DOMAIN l
      PROVE  LET k == [l EXCEPT ![t].softLock = FloorZero(@ - a)] IN
             /\ IsLedger(k) /\ LocksOnly(l, k)
             /\ SoftLockKobo(k) = SoftLockKobo(l) + FloorZero(l[t].softLock - a) - l[t].softLock
  <2> DEFINE n == FloorZero(l[t].softLock - a)
             k == [l EXCEPT ![t].softLock = n]
  <2>1. n \in Nat
    BY RowFields DEF FloorZero
  <2> HIDE DEF n
  <2>2. IsLedger(k) /\ LocksOnly(l, k) /\ k[t].softLock = n
    BY <2>1 DEF IsLedger, LocksOnly, Row
  <2>3. /\ DOMAIN k = DOMAIN l \cup {t} /\ OldRow(l, t) = l[t]
        /\ \A q \in DOMAIN l \ {t} : k[q] = l[q]
    BY DEF OldRow
  <2> HIDE DEF k
  <2>4. SoftLockKobo(k) = SoftLockKobo(l) + n - l[t].softLock
    BY <2>2, <2>3, TotalsChange
  <2> QED BY <2>2, <2>4 DEF k, n
<1>2. IsLedger(l) /\ LocksOnly(l, l)
  BY DEF LocksOnly
<1> DEFINE locked == LockedPeriods(l)
           t == IF m # NoPeriod THEN m ELSE IF locked # {} THEN LatestPeriod(locked) ELSE NoPeriod
           k == ReleaseLock(l, a, m)
<1>3. k = IF t \in DOMAIN l THEN [l EXCEPT ![t].softLock = FloorZero(@ - a)] ELSE l
  BY DEF ReleaseLock
\* The one row there is holds all reservations, and is found if there are any.
<1>4. ASSUME DOMAIN l = {1}, m \in {NoPeriod, 1}
      PROVE  /\ SoftLockKobo(l) = l[1].softLock
             /\ t \notin DOMAIN l => SoftLockKobo(l) = 0
             /\ t \in DOMAIN l => t = 1
  <2> DEFINE f == [q \in DOMAIN l |-> l[q].softLock]
  <2>1. DOMAIN f = {1} /\ f[1] = l[1].softLock /\ f[1] \in Nat /\ SoftLockKobo(l) = SumFunction(f)
    BY <1>4, RowFields DEF SoftLockKobo
  <2> HIDE DEF f
  <2>2. SoftLockKobo(l) = l[1].softLock
    BY <2>1, SumSingle DEF SumFunction
  <2>3. CASE m = 1
    BY <1>4, <2>2, <2>3 DEF NoPeriod
  <2>4. CASE m = NoPeriod /\ locked = {}
    BY <1>4, <2>1, <2>2, <2>4 DEF NoPeriod, LockedPeriods
  <2>5. CASE m = NoPeriod /\ locked # {}
    <3>1. locked = {1} /\ IsFiniteSet(locked) /\ locked \subseteq Nat
      BY <1>4, <2>5, FS_Singleton DEF LockedPeriods
    <3>2. LatestPeriod(locked) \in locked
      <4> HIDE DEF locked
      <4> QED BY <3>1, LatestIn
    <3> QED BY <1>4, <2>2, <2>5, <3>1, <3>2
  <2> QED BY <1>4, <2>3, <2>4, <2>5
<1> HIDE DEF t, k
<1>5. CASE t \in DOMAIN l
  <2>1. /\ IsLedger(k) /\ LocksOnly(l, k)
        /\ SoftLockKobo(k) = SoftLockKobo(l) + FloorZero(l[t].softLock - a) - l[t].softLock
    BY <1>1, <1>3, <1>5
  <2>2. l[t].softLock \in Nat
    BY <1>5, RowFields
  <2>3. SoftLockKobo(k) >= SoftLockKobo(l) - a
    BY <1>0, <2>1, <2>2 DEF FloorZero
  <2>4. DOMAIN l = {1} /\ m \in {NoPeriod, 1} /\ SoftLockKobo(l) >= a =>
          SoftLockKobo(k) = SoftLockKobo(l) - a
    BY <1>0, <1>4, <1>5, <2>1, <2>2 DEF FloorZero
  <2> QED BY <2>1, <2>3, <2>4 DEF k
<1>6. CASE t \notin DOMAIN l
  <2>1. k = l
    BY <1>3, <1>6
  <2>2. SoftLockKobo(k) >= SoftLockKobo(l) - a
    BY <1>0, <2>1
  <2>3. DOMAIN l = {1} /\ m \in {NoPeriod, 1} /\ SoftLockKobo(l) >= a =>
          SoftLockKobo(k) = SoftLockKobo(l) - a
    BY <1>0, <1>4, <1>6, <2>1
  <2> QED BY <1>2, <2>1, <2>2, <2>3 DEF k
<1> QED BY <1>5, <1>6

\* d has no more than a of the reservations of l taken off, and a row of month m.
TakenAtMost(l, d, m, a, lp) ==
    /\ DOMAIN d = DOMAIN l \cup {m}
    /\ SoftLockKobo(d) >= SoftLockKobo(l) - a
    /\ DOMAIN l \cup {m} = {1} /\ lp \in {NoPeriod, 1} /\ SoftLockKobo(l) >= a =>
         SoftLockKobo(d) = SoftLockKobo(l) - a

\* Nor does the payment of a payout take more than was reserved.
LEMMA DebitAtMost ==
    ASSUME NEW l, IsLedger(l), NEW m \in Months, NEW a \in Nat, NEW e \in Nat, NEW lp
    PROVE  TakenAtMost(l, DebitLedger(l, m, a, e, lp), m, a, lp)
<1> DEFINE d == DebitLedger(l, m, a, e, lp)
<1>1. PICK k : PaidOut(l, k, m, a) /\ SameLocks(l, k) /\ d = ReleaseLock(k, a, lp)
  BY Debited
<1> HIDE DEF d
<1>2. IsLedger(k) /\ DOMAIN k = DOMAIN l \cup {m} /\ SoftLockKobo(k) = SoftLockKobo(l)
  BY <1>1 DEF PaidOut, SameLocks
<1>3. /\ LocksOnly(k, d) /\ SoftLockKobo(d) >= SoftLockKobo(k) - a
      /\ DOMAIN k = {1} /\ lp \in {NoPeriod, 1} /\ SoftLockKobo(k) >= a =>
           SoftLockKobo(d) = SoftLockKobo(k) - a
  BY <1>1, <1>2, ReleaseAtMost
<1>4. TakenAtMost(l, d, m, a, lp)
  BY <1>2, <1>3 DEF LocksOnly, TakenAtMost
<1> QED BY <1>4 DEF d

-----------------------------------------------------------------------------
(* The type invariant.                                                     *)

\* The rest of TypeOK: what the argument above had no use for.
BooksTypeOK ==
    /\ amount \in [PayoutIds -> Nat]
    /\ period \in [PayoutIds -> NoPeriod .. MaxMonth]
    /\ month \in 1 .. MaxMonth
    /\ DOMAIN ledger \in SUBSET (1 .. MaxMonth) /\ ledger \in [DOMAIN ledger -> Row]
    /\ nomba \in [PayoutIds -> {"none", "processing", "success", "failed"}]
    /\ inbox \subseteq Event
    /\ sweepAmount \in [Sweepers -> Nat]
    /\ panel \subseteq Signatories /\ phones \subseteq Signatories
    /\ overlooked \in Nat
    /\ ask \in [Requests -> Ask]
    /\ used \in [inflows : 0 .. MaxInflows, policies : 0 .. MaxPolicyChanges,
                 panel : 0 .. MaxPanelChanges, faults : 0 .. MaxFaults]

\* What most steps leave alone.
Quiet ==
    UNCHANGED <<amount, period, month, ledger, overlooked, nomba, inbox, ask, sweepAmount, panel,
                phones, used>>

\* The steps that do not.
Noise ==
    \/ \E r \in Requests, a \in Amounts : Initiate(r, a)
    \/ \E r \in Requests : RefuseLock(r) \/ \E p \in PayoutIds : CheckAndLock(r, p)
    \/ \E r \in Procs : CallNomba(r) \/ Release(r)
    \/ \E r \in Sweepers : SweepRead(r) \/ SweepLock(r) \/ \E p \in PayoutIds : SweepCreate(r, p)
    \/ \E p \in PayoutIds : NombaConcludes(p)
    \/ \E w \in Workers : Settle(w) \/ \E e \in Event : TakeEvent(w, e)
    \/ Inflow \/ NextMonth
    \/ \E n \in Policies : SetPolicy(n)
    \/ \E S \in SUBSET Procs : Stop(S)
    \/ \E S, H : /\ SetPanel(S, H)
                 /\ panel \subseteq Signatories => S \subseteq Signatories
                 /\ phones \subseteq Signatories => H \subseteq Signatories

LEMMA QuietOrNot == ASSUME Next PROVE Quiet \/ Noise
<1> USE DEF rowVars, voteVars, policyVars, moneyVars, nombaVars, procVars, localVars, Quiet
<1>1. ASSUME NEW r \in Requests, NEW p \in PayoutIds, CheckAndLock(r, p)
      PROVE  Quiet \/ Noise
  BY <1>1 DEF Noise
<1>2. ASSUME NEW r \in Requests, NEW s \in Signatories, SendEmail(r, s) PROVE Quiet \/ Noise
  BY <1>2 DEF SendEmail
<1>3. ASSUME NEW r \in Requests, Advance(r) PROVE Quiet \/ Noise
  BY <1>3 DEF Advance
<1>4. ASSUME NEW r \in Requests, NEW p \in PayoutIds, NEW s \in Signatories,
             NEW act \in {"APPROVED", "DECLINED"}, ClickLink(r, p, s, act)
      PROVE  Quiet \/ Noise
  BY <1>4 DEF ClickLink
<1>5. ASSUME NEW r \in Requests, LoadPayout(r) PROVE Quiet \/ Noise
  BY <1>5 DEF LoadPayout
<1>6. ASSUME NEW r \in Requests, RecordAction(r) PROVE Quiet \/ Noise
  BY <1>6 DEF RecordAction
<1>7. ASSUME NEW r \in Requests, Decline(r) PROVE Quiet \/ Noise
  BY <1>7 DEF Decline
<1>8. ASSUME NEW r \in Requests, ReadPolicy(r) PROVE Quiet \/ Noise
  BY <1>8 DEF ReadPolicy
<1>9. ASSUME NEW r \in Requests, CheckQuorum(r) PROVE Quiet \/ Noise
  BY <1>9 DEF CheckQuorum
<1>10. ASSUME NEW r \in Requests, MarkPartial(r) PROVE Quiet \/ Noise
  BY <1>10 DEF MarkPartial
<1>11. ASSUME NEW r \in Requests, AnswerInvalid(r) PROVE Quiet \/ Noise
  BY <1>11 DEF AnswerInvalid
<1>12. ASSUME NEW r \in Requests, Approve(r) PROVE Quiet \/ Noise
  BY <1>12 DEF Approve
<1>13. ASSUME NEW r \in Requests, StartTransfer(r) PROVE Quiet \/ Noise
  BY <1>13 DEF StartTransfer
<1>14. ASSUME NEW r \in Procs, CallNomba(r) PROVE Quiet \/ Noise
  BY <1>14 DEF Noise
<1>15. ASSUME NEW r \in Procs, StoreRef(r) PROVE Quiet \/ Noise
  BY <1>15 DEF StoreRef
<1>16. ASSUME NEW r \in Procs, FailTransfer(r) PROVE Quiet \/ Noise
  BY <1>16 DEF FailTransfer
<1>17. ASSUME NEW r \in Procs, Release(r) PROVE Quiet \/ Noise
  BY <1>17 DEF Noise
<1>18. ASSUME NEW r \in Requests, NEW p \in PayoutIds, LoadCancel(r, p) PROVE Quiet \/ Noise
  BY <1>18 DEF LoadCancel
<1>19. ASSUME NEW r \in Requests, Cancel(r) PROVE Quiet \/ Noise
  BY <1>19 DEF Cancel
<1>20. ASSUME NEW r \in Expirers, SelectExpired(r) PROVE Quiet \/ Noise
  BY <1>20 DEF SelectExpired
<1>21. ASSUME NEW r \in Expirers, Expire(r) PROVE Quiet \/ Noise
  BY <1>21 DEF Expire
<1>22. ASSUME NEW r \in Sweepers, SweepRead(r) PROVE Quiet \/ Noise
  BY <1>22 DEF Noise
<1>23. ASSUME NEW r \in Sweepers, NEW p \in PayoutIds, SweepCreate(r, p) PROVE Quiet \/ Noise
  BY <1>23 DEF Noise
<1>24. ASSUME NEW r \in Sweepers, SweepApprove(r) PROVE Quiet \/ Noise
  BY <1>24 DEF SweepApprove
<1>25. ASSUME NEW r \in Sweepers, SweepLock(r) PROVE Quiet \/ Noise
  BY <1>25 DEF Noise
<1>26. ASSUME NEW r \in Sweepers, SweepFire(r) PROVE Quiet \/ Noise
  BY <1>26 DEF SweepFire
<1>27. ASSUME NEW p \in PayoutIds, NombaConcludes(p) PROVE Quiet \/ Noise
  BY <1>27 DEF Noise
<1>28. ASSUME NEW w \in Workers, NEW e \in Event, TakeEvent(w, e) PROVE Quiet \/ Noise
  BY <1>28 DEF Noise
<1>29. ASSUME NEW w \in Workers, Settle(w) PROVE Quiet \/ Noise
  BY <1>29 DEF Noise
<1>30. ASSUME NEW w \in Workers, Refund(w) PROVE Quiet \/ Noise
  BY <1>30 DEF Refund
<1>31. ASSUME NEW n \in Policies, SetPolicy(n) PROVE Quiet \/ Noise
  BY <1>31 DEF Noise
<1>32. ASSUME NEW S \in SUBSET Procs, Stop(S) PROVE Quiet \/ Noise
  BY <1>32 DEF Noise
<1>33. ASSUME Inflow PROVE Quiet \/ Noise
  BY <1>33 DEF Noise
<1>34. ASSUME NextMonth PROVE Quiet \/ Noise
  BY <1>34 DEF Noise
<1>35. ASSUME NEW S \in SUBSET Signatories, NEW H \in SUBSET Signatories, SetPanel(S, H)
       PROVE  Quiet \/ Noise
  BY <1>35 DEF Noise
<1>36. ASSUME NEW s \in Signatories, Deactivate(s) \/ UpdateSignatory(s) PROVE Quiet \/ Noise
  BY <1>36 DEF Deactivate, UpdateSignatory, Noise
<1>37. ASSUME NEW r \in Requests, NEW a \in Amounts, Initiate(r, a) PROVE Quiet \/ Noise
  BY <1>37 DEF Noise
<1>38. ASSUME NEW r \in Requests, RefuseLock(r) PROVE Quiet \/ Noise
  BY <1>38 DEF Noise
<1>39. ASSUME NEW p \in PayoutIds, NEW s \in Signatories, LapseLink(p, s) PROVE Quiet \/ Noise
  BY <1>39 DEF LapseLink
<1> HIDE DEF rowVars, voteVars, policyVars, moneyVars, nombaVars, procVars, localVars, Quiet
<1> QED
  BY <1>1, <1>2, <1>3, <1>4, <1>5, <1>6, <1>7, <1>8, <1>9, <1>10, <1>11, <1>12, <1>13,
      <1>14, <1>15, <1>16, <1>17, <1>18, <1>19, <1>20, <1>21, <1>22, <1>23, <1>24,
      <1>25, <1>26, <1>27, <1>28, <1>29, <1>30, <1>31, <1>32, <1>33, <1>34,
      <1>36, <1>37, <1>38, <1>39, Members
  DEF Next, UserRequest, RequestStep, SweepStep, ExpiryStep, WorkerStep, Environment,
      Abort, Restart

\* A ledger row of the schema, and a month of the calendar.
LEMMA BooksAreLedger ==
  ASSUME BooksTypeOK PROVE IsLedger(ledger) /\ month \in Months
<1>1. IsFiniteSet(1 .. MaxMonth)
  BY FS_Interval, PayoutsAssumption
<1>2. IsFiniteSet(DOMAIN ledger)
  BY <1>1, FS_Subset DEF BooksTypeOK
<1> QED
  BY <1>2, PayoutsAssumption DEF BooksTypeOK, IsLedger, Months, NoPeriod

\* A ledger of the months so far.
LEMMA LedgerTyped ==
  ASSUME NEW k, IsLedger(k), DOMAIN k \subseteq 1 .. MaxMonth
  PROVE  DOMAIN k \in SUBSET (1 .. MaxMonth) /\ k \in [DOMAIN k -> Row]
  BY DEF IsLedger

\* A lock that is granted is one reservation on a row that is there; whoever
\* grants it has seen every row, or the amount counts as overlooked.
LEMMA Granted ==
  ASSUME BooksTypeOK, NEW r \in Requests, NEW p \in PayoutIds, CheckAndLock(r, p)
  PROVE  LET a == ask[r].amount  m == period'[p] IN
         /\ a \in Nat /\ m \in DOMAIN ledger
         /\ period' = [period EXCEPT ![p] = m]
         /\ ledger' = Reserve(ledger, m, a)
         /\ \/ overlooked' = overlooked + a
            \/ overlooked' = overlooked /\ AvailableKobo(ledger) >= a + Fee
<1> DEFINE a == ask[r].amount
<1>1. IsLedger(ledger)
  BY BooksAreLedger
<1>2. a \in Nat
  BY PayoutsAssumption DEF BooksTypeOK, Ask
<1> HIDE DEF a
<1>3. PICK rows \in RowsFoundSince(ask[r].rows, ledger) :
         /\ CanLock(ledger, rows, a, Fee)
         /\ ledger' = Reserve(ledger, LatestPeriod(rows), a)
         /\ period' = [period EXCEPT ![p] = LatestPeriod(rows)]
         /\ overlooked' = IF rows = DOMAIN ledger THEN overlooked ELSE overlooked + a
  BY DEF CheckAndLock, a
<1>4. rows \subseteq DOMAIN ledger /\ rows # {}
  BY <1>3 DEF RowsFoundSince, CanLock
<1>5. LatestPeriod(rows) \in DOMAIN ledger
  <2>1. IsFiniteSet(rows) /\ rows \subseteq Nat
    BY <1>1, <1>4, FS_Subset DEF IsLedger, Months
  <2> QED BY <1>4, <2>1, LatestIn
<1>6. period'[p] = LatestPeriod(rows)
  BY <1>3 DEF BooksTypeOK
<1>7. rows = DOMAIN ledger => AvailableKobo(ledger) >= a + Fee
  <2>1. Restrict(ledger, DOMAIN ledger) = ledger
    BY <1>1 DEF Restrict, IsLedger
  <2> QED BY <1>3, <2>1 DEF CanLock
<1> QED BY <1>2, <1>3, <1>5, <1>6, <1>7 DEF a

\* The books are empty when the behaviour starts, but for the first balance.
LEMMA BooksInit == Init => BooksTypeOK
<1> SUFFICES ASSUME Init PROVE BooksTypeOK
  OBVIOUS
<1>1. [EmptyRow EXCEPT !.collected = InitialBalance] \in Row
  BY PayoutsAssumption DEF EmptyRow, Row
<1>2. DOMAIN ledger = {1} /\ ledger \in [{1} -> Row]
  BY <1>1 DEF Init
<1> QED
  BY <1>2, PayoutsAssumption DEF Init, BooksTypeOK, NoPeriod, NoAsk, Ask

\* Every step keeps the types.
LEMMA BooksNext ==
  ASSUME FiringInv, BooksTypeOK, Next PROVE BooksTypeOK'
<1> USE DEF rowVars, voteVars, policyVars, moneyVars, nombaVars, procVars, localVars
<1>a. IsLedger(ledger) /\ month \in Months /\ month \in 1 .. MaxMonth
      /\ DOMAIN ledger \subseteq 1 .. MaxMonth
  BY BooksAreLedger DEF BooksTypeOK
<1>b. \A r \in Procs : pc[r] \notin Unattached =>
          at[r] \in PayoutIds /\ amount[at[r]] \in Nat
  BY Attached DEF FiringInv, BooksTypeOK
<1>c. Amounts \subseteq Nat /\ Fee \in Nat /\ InflowAmount \in Nat
  BY PayoutsAssumption
<1>n. NoAsk \in Ask
  BY DEF NoAsk, Ask
<1>1. CASE Quiet
  BY <1>1 DEF Quiet, BooksTypeOK
<1>2. ASSUME NEW r \in Requests, NEW p \in PayoutIds, CheckAndLock(r, p)
      PROVE  BooksTypeOK'
  <2>1. /\ ask[r].amount \in Nat /\ period'[p] \in DOMAIN ledger
        /\ period' = [period EXCEPT ![p] = period'[p]]
        /\ ledger' = Reserve(ledger, period'[p], ask[r].amount)
        /\ overlooked' \in {overlooked, overlooked + ask[r].amount}
    BY <1>2, Granted
  <2>2. IsLedger(ledger') /\ DOMAIN ledger' = DOMAIN ledger
    BY <1>a, <2>1, ReserveAdds DEF LocksOnly
  <2>3. amount' \in [PayoutIds -> Nat]
    BY <1>2, <2>1 DEF CheckAndLock, BooksTypeOK
  <2>4. period' \in [PayoutIds -> NoPeriod .. MaxMonth]
    <3>1. period'[p] \in NoPeriod .. MaxMonth
      BY <1>a, <2>1, PayoutsAssumption DEF NoPeriod
    <3> QED BY <2>1, <3>1 DEF BooksTypeOK
  <2>5. ask' \in [Requests -> Ask]
    BY <1>2, <1>n DEF CheckAndLock, BooksTypeOK
  <2>6. UNCHANGED <<month, nomba, inbox, sweepAmount, panel, phones, used>>
    BY <1>2 DEF CheckAndLock
  <2> QED BY <1>a, <2>1, <2>2, <2>3, <2>4, <2>5, <2>6, LedgerTyped DEF BooksTypeOK
<1>3. ASSUME NEW r \in Procs, CallNomba(r) PROVE BooksTypeOK'
  <2>1. nomba' \in [PayoutIds -> {"none", "processing", "success", "failed"}]
    BY <1>3 DEF CallNomba, BooksTypeOK
  <2>2. UNCHANGED <<amount, period, month, ledger, inbox, sweepAmount, panel,
                    phones, overlooked, ask, used>>
    BY <1>3 DEF CallNomba
  <2> QED BY <2>1, <2>2 DEF BooksTypeOK
<1>4. ASSUME NEW r \in Procs, Release(r) PROVE BooksTypeOK'
  <2>1. amount[at[r]] \in Nat
    BY <1>b, <1>4 DEF Release, Unattached
  <2>2. IsLedger(ledger') /\ DOMAIN ledger' = DOMAIN ledger
    BY <1>a, <1>4, <2>1, ReleaseSubtracts DEF Release, LocksOnly
  <2>3. UNCHANGED <<amount, period, month, nomba, inbox, sweepAmount, panel,
                    phones, overlooked, ask, used>>
    BY <1>4 DEF Release
  <2> QED BY <1>a, <2>2, <2>3, LedgerTyped DEF BooksTypeOK
<1>5. ASSUME NEW r \in Sweepers, SweepRead(r) PROVE BooksTypeOK'
  <2>1. AvailableKobo(ledger) - Fee \in Nat
    BY <1>a, <1>c, <1>5, TotalsAreNat DEF SweepRead
  <2>2. sweepAmount' \in [Sweepers -> Nat]
    BY <1>5, <2>1 DEF SweepRead, BooksTypeOK
  <2>3. UNCHANGED <<amount, period, month, ledger, nomba, inbox, panel, phones,
                    overlooked, ask, used>>
    BY <1>5 DEF SweepRead
  <2> QED BY <2>2, <2>3 DEF BooksTypeOK
<1>6. ASSUME NEW r \in Sweepers, SweepLock(r) PROVE BooksTypeOK'
  <2>1. amount[at[r]] \in Nat
    BY <1>b, <1>6, Members DEF SweepLock, Unattached
  <2>2. IsLedger(ledger') /\ DOMAIN ledger' = DOMAIN ledger
    BY <1>a, <1>6, <2>1, SoftLockAdds DEF SweepLock, LocksOnly
  <2>3. UNCHANGED <<amount, period, month, nomba, inbox, sweepAmount, panel,
                    phones, overlooked, ask, used>>
    BY <1>6 DEF SweepLock
  <2> QED BY <1>a, <2>2, <2>3, LedgerTyped DEF BooksTypeOK
<1>7. ASSUME NEW r \in Sweepers, NEW p \in PayoutIds, SweepCreate(r, p) PROVE BooksTypeOK'
  <2>1. amount' \in [PayoutIds -> Nat] /\ sweepAmount' \in [Sweepers -> Nat]
    BY <1>7 DEF SweepCreate, BooksTypeOK
  <2>2. UNCHANGED <<period, month, ledger, nomba, inbox, panel, phones,
                    overlooked, ask, used>>
    BY <1>7 DEF SweepCreate
  <2> QED BY <2>1, <2>2 DEF BooksTypeOK
<1>8. ASSUME NEW p \in PayoutIds, NombaConcludes(p) PROVE BooksTypeOK'
  <2>1. nomba' \in [PayoutIds -> {"none", "processing", "success", "failed"}]
    BY <1>8 DEF NombaConcludes, BooksTypeOK
  <2>2. inbox' \subseteq Event
    <3>1. \A k \in {"payout_success", "payout_failed", "payout_refund"} : [p |-> p, kind |-> k] \in Event
      BY DEF Event
    <3>2. \E kinds \in SUBSET {"payout_success", "payout_failed", "payout_refund"} :
             inbox' = inbox \cup {[p |-> p, kind |-> k] : k \in kinds}
      <4>1. CASE inbox' = inbox \cup {[p |-> p, kind |-> "payout_success"]}
        BY <4>1
      <4>2. CASE \E kinds \in SUBSET {"payout_failed", "payout_refund"} \ {{}} :
                   inbox' = inbox \cup {[p |-> p, kind |-> k] : k \in kinds}
        BY <4>2
      <4> QED BY <1>8, <4>1, <4>2 DEF NombaConcludes
    <3> QED BY <3>1, <3>2 DEF BooksTypeOK
  <2>3. UNCHANGED <<amount, period, month, ledger, sweepAmount, panel,
                    phones, overlooked, ask, used>>
    BY <1>8 DEF NombaConcludes
  <2> QED BY <2>1, <2>2, <2>3 DEF BooksTypeOK
<1>9. ASSUME NEW w \in Workers, Settle(w) PROVE BooksTypeOK'
  <2>1. amount[at[w]] \in Nat
    BY <1>b, <1>9, Members DEF Settle, Unattached
  <2>2. IsLedger(ledger') /\ DOMAIN ledger' = DOMAIN ledger \cup {month}
    <3>1. ledger' = DebitLedger(ledger, month, amount[at[w]], Fee, period[at[w]])
      BY <1>9 DEF Settle
    <3>2. Fee \in Nat /\ month \in Months /\ IsLedger(ledger)
      BY <1>a, <1>c
    <3>3. PaidOut(ledger, ledger', month, amount[at[w]])
      BY <2>1, <3>1, <3>2, DebitTotals
    <3> QED BY <3>3 DEF PaidOut
  <2>3. UNCHANGED <<amount, period, month, nomba, inbox, sweepAmount, panel,
                    phones, overlooked, ask, used>>
    BY <1>9 DEF Settle
  <2> QED BY <1>9, <1>a, <2>2, <2>3, LedgerTyped DEF Settle, BooksTypeOK
<1>10. ASSUME NEW w \in Workers, NEW e \in Event, TakeEvent(w, e) PROVE BooksTypeOK'
  BY <1>10 DEF TakeEvent, BooksTypeOK
<1>11. CASE Inflow
  <2>1. IsLedger(ledger') /\ DOMAIN ledger' = DOMAIN ledger \cup {month}
    <3>1. Credited(ledger, ledger', month, InflowAmount)
      BY <1>a, <1>c, <1>11, CreditAdds DEF Inflow
    <3> QED BY <3>1 DEF Credited
  <2>2. used' \in [inflows : 0 .. MaxInflows, policies : 0 .. MaxPolicyChanges,
                   panel : 0 .. MaxPanelChanges, faults : 0 .. MaxFaults]
    BY <1>11, PayoutsAssumption DEF Inflow, BooksTypeOK
  <2>3. UNCHANGED <<amount, period, month, nomba, inbox, sweepAmount, panel, phones,
                    overlooked, ask>>
    BY <1>11 DEF Inflow
  <2> QED BY <1>a, <2>1, <2>2, <2>3, LedgerTyped DEF BooksTypeOK
<1>12. CASE NextMonth
  BY <1>12, PayoutsAssumption DEF NextMonth, BooksTypeOK
<1>13. ASSUME NEW n \in Policies, SetPolicy(n) PROVE BooksTypeOK'
  BY <1>13, PayoutsAssumption DEF SetPolicy, BooksTypeOK
<1>14. ASSUME NEW S \in SUBSET Procs, Stop(S) PROVE BooksTypeOK'
  <2>1. sweepAmount' \in [Sweepers -> Nat] /\ ask' \in [Requests -> Ask]
    BY <1>14, <1>n DEF Stop, BooksTypeOK
  <2> QED BY <1>14, <2>1, PayoutsAssumption DEF Stop, BooksTypeOK
<1>15. ASSUME NEW S \in SUBSET Signatories, NEW H \in SUBSET Signatories, SetPanel(S, H)
       PROVE  BooksTypeOK'
  BY <1>15, PayoutsAssumption DEF SetPanel, BooksTypeOK
<1>16. panel \subseteq Signatories /\ phones \subseteq Signatories
  BY DEF BooksTypeOK
<1>17. ASSUME NEW r \in Requests, NEW a \in Amounts, Initiate(r, a) PROVE BooksTypeOK'
  <2>1. [amount |-> a, list |-> IF a >= Threshold THEN Eligible ELSE {}, rows |-> DOMAIN ledger] \in Ask
    <3>1. Eligible \subseteq Signatories /\ DOMAIN ledger \subseteq 1 .. MaxMonth
      BY DEF Eligible, BooksTypeOK
    <3> QED BY <3>1 DEF Ask
  <2>2. ask' \in [Requests -> Ask]
    BY <1>17, <2>1 DEF Initiate, BooksTypeOK
  <2>3. UNCHANGED <<amount, period, month, ledger, overlooked, nomba, inbox, sweepAmount, panel,
                    phones, used>>
    BY <1>17 DEF Initiate
  <2> QED BY <2>2, <2>3 DEF BooksTypeOK
<1>18. ASSUME NEW r \in Requests, RefuseLock(r) PROVE BooksTypeOK'
  <2>1. ask' \in [Requests -> Ask]
    BY <1>18, <1>n DEF RefuseLock, BooksTypeOK
  <2>2. UNCHANGED <<amount, period, month, ledger, overlooked, nomba, inbox, sweepAmount, panel,
                    phones, used>>
    BY <1>18 DEF RefuseLock
  <2> QED BY <2>1, <2>2 DEF BooksTypeOK
<1> HIDE DEF rowVars, voteVars, policyVars, moneyVars, nombaVars, procVars, localVars
<1> QED
  BY <1>1, <1>2, <1>3, <1>4, <1>5, <1>6, <1>7, <1>8, <1>9, <1>10, <1>11, <1>12, <1>13,
     <1>14, <1>15, <1>16, <1>17, <1>18, QuietOrNot DEF Noise

\* The types of the books in every reachable state.
LEMMA BooksAreTyped ==
  ASSUME OneWorker, SweepsUndisturbed PROVE Spec => []BooksTypeOK
<1>1. FiringInv /\ BooksTypeOK /\ [Next]_vars => BooksTypeOK'
  <2>1. CASE Next
    BY <2>1, BooksNext
  <2>2. CASE UNCHANGED vars
    BY <2>2 DEF vars, BooksTypeOK
  <2> QED BY <2>1, <2>2
<1> QED
  BY BooksInit, FiringInvariant, <1>1, PTL DEF Spec

\* Every column, counter and queue keeps its type in every reachable state of
\* the payout code, for any number of payouts, amounts and faults.
THEOREM PayoutTypes ==
  ASSUME OneWorker, SweepsUndisturbed PROVE Spec => []TypeOK
<1>1. FiringInv /\ BooksTypeOK => TypeOK
  BY DEF FiringInv, LifecycleTypeOK, BooksTypeOK, TypeOK
<1> QED
  BY FiringInvariant, BooksAreTyped, <1>1, PTL

-----------------------------------------------------------------------------
(* Each transfer is debited once.                                          *)

\* Only a worker that settles makes a payout TRANSFERRED, and none stops being it.
LEMMA TransferredKept ==
  ASSUME FiringInv, Next, \A w \in Workers : ~Settle(w)
  PROVE  \A p \in PayoutIds : status'[p] = "TRANSFERRED" <=> status[p] = "TRANSFERRED"
<1> DEFINE Kept == \A p \in PayoutIds : status'[p] = "TRANSFERRED" <=> status[p] = "TRANSFERRED"
<1>a. status \in [PayoutIds -> Lifecycle!Status]
  BY DEF FiringInv, LifecycleTypeOK
<1>b. \A x : \A p \in PayoutIds : status[p] # "TRANSFERRED" /\ x # "TRANSFERRED"
          /\ status' = [status EXCEPT ![p] = x] => Kept
  BY <1>a
<1>c. \A from, x : \A p \in PayoutIds : "TRANSFERRED" \notin from /\ x # "TRANSFERRED"
          /\ TransitionStatus(p, from, x) => Kept
  BY <1>a DEF TransitionStatus
<1>d. \A r \in Procs : pc[r] \notin Unattached => at[r] \in PayoutIds
  BY Attached DEF FiringInv
<1>e. \A r \in Procs : pc[r] \in Driving \cup {"refund"} => status[at[r]] # "TRANSFERRED"
  BY DEF FiringInv, FiringDiscipline, Driving
<1> USE DEF rowVars, Unattached
<1> HIDE DEF Kept
<1>1. ASSUME NEW r \in Requests, NEW p \in PayoutIds, CheckAndLock(r, p)
      PROVE  Kept
  BY <1>b, <1>1 DEF CheckAndLock, UpdateStatus
<1>2. ASSUME NEW r \in Requests, NEW s \in Signatories, SendEmail(r, s) PROVE Kept
  BY <1>2 DEF SendEmail, Kept
<1>3. ASSUME NEW r \in Requests, Advance(r) PROVE Kept
  BY <1>c, <1>d, <1>3, Members DEF Advance, Awaiting
<1>4. ASSUME NEW r \in Requests, NEW p \in PayoutIds, NEW s \in Signatories,
             NEW act \in {"APPROVED", "DECLINED"}, ClickLink(r, p, s, act)
      PROVE  Kept
  BY <1>4 DEF ClickLink, Kept
<1>5. ASSUME NEW r \in Requests, LoadPayout(r) PROVE Kept
  BY <1>5 DEF LoadPayout, Kept
<1>6. ASSUME NEW r \in Requests, RecordAction(r) PROVE Kept
  BY <1>6 DEF RecordAction, Kept
<1>7. ASSUME NEW r \in Requests, Decline(r) PROVE Kept
  BY <1>c, <1>d, <1>7, Members DEF Decline, Awaiting
<1>8. ASSUME NEW r \in Requests, ReadPolicy(r) PROVE Kept
  BY <1>8 DEF ReadPolicy, Kept
<1>9. ASSUME NEW r \in Requests, CheckQuorum(r) PROVE Kept
  BY <1>9 DEF CheckQuorum, Kept
<1>10. ASSUME NEW r \in Requests, MarkPartial(r) PROVE Kept
  BY <1>c, <1>d, <1>10, Members DEF MarkPartial, Awaiting
<1>11. ASSUME NEW r \in Requests, AnswerInvalid(r) PROVE Kept
  BY <1>11 DEF AnswerInvalid, Kept
<1>12. ASSUME NEW r \in Requests, Approve(r) PROVE Kept
  BY <1>c, <1>d, <1>12, Members DEF Approve, Awaiting
<1>13. ASSUME NEW r \in Requests, StartTransfer(r) PROVE Kept
  BY <1>c, <1>d, <1>13, Members DEF StartTransfer, Awaiting
<1>14. ASSUME NEW r \in Procs, CallNomba(r) PROVE Kept
  BY <1>14 DEF CallNomba, Kept
<1>15. ASSUME NEW r \in Procs, StoreRef(r) PROVE Kept
  BY <1>b, <1>d, <1>e, <1>15, Members DEF StoreRef, UpdateStatus, Driving
<1>16. ASSUME NEW r \in Procs, FailTransfer(r) PROVE Kept
  BY <1>b, <1>c, <1>d, <1>e, <1>16 DEF FailTransfer, UpdateStatus, Driving
<1>17. ASSUME NEW r \in Procs, Release(r) PROVE Kept
  BY <1>17 DEF Release, Kept
<1>18. ASSUME NEW r \in Requests, NEW p \in PayoutIds, LoadCancel(r, p) PROVE Kept
  BY <1>18 DEF LoadCancel, Kept
<1>19. ASSUME NEW r \in Requests, Cancel(r) PROVE Kept
  BY <1>c, <1>d, <1>19, Members DEF Cancel, Awaiting
<1>20. ASSUME NEW r \in Expirers, SelectExpired(r) PROVE Kept
  BY <1>20 DEF SelectExpired, Kept
<1>21. ASSUME NEW r \in Expirers, Expire(r) PROVE Kept
  <2>1. todo[r] \subseteq PayoutIds
    BY DEF FiringInv, LifecycleTypeOK
  <2>2. CASE UNCHANGED status
    BY <2>2 DEF Kept
  <2>3. CASE \E p \in todo[r] : TransitionStatus(p, Awaiting, "EXPIRED")
    BY <1>c, <2>1, <2>3 DEF Awaiting
  <2> QED BY <1>21, <2>2, <2>3 DEF Expire
<1>22. ASSUME NEW r \in Sweepers, SweepRead(r) PROVE Kept
  BY <1>22 DEF SweepRead, Kept
<1>23. ASSUME NEW r \in Sweepers, NEW p \in PayoutIds, SweepCreate(r, p) PROVE Kept
  BY <1>b, <1>23 DEF SweepCreate, UpdateStatus
<1>24. ASSUME NEW r \in Sweepers, SweepApprove(r) PROVE Kept
  BY <1>b, <1>d, <1>e, <1>24, Members DEF SweepApprove, UpdateStatus, Driving
<1>25. ASSUME NEW r \in Sweepers, SweepLock(r) PROVE Kept
  BY <1>25 DEF SweepLock, Kept
<1>26. ASSUME NEW r \in Sweepers, SweepFire(r) PROVE Kept
  BY <1>b, <1>d, <1>e, <1>26, Members DEF SweepFire, UpdateStatus, Driving
<1>27. ASSUME NEW p \in PayoutIds, NombaConcludes(p) PROVE Kept
  BY <1>27 DEF NombaConcludes, Kept
<1>28. ASSUME NEW w \in Workers, NEW e \in Event, TakeEvent(w, e) PROVE Kept
  BY <1>28 DEF TakeEvent, Kept
<1>29. ASSUME NEW w \in Workers, Settle(w) PROVE Kept
  BY <1>29
<1>30. ASSUME NEW w \in Workers, Refund(w) PROVE Kept
  BY <1>b, <1>d, <1>e, <1>30, Members DEF Refund, UpdateStatus, Driving
<1>31. ASSUME NEW n \in Policies, SetPolicy(n) PROVE Kept
  BY <1>31 DEF SetPolicy, Kept
<1>32. ASSUME NEW S \in SUBSET Procs, Stop(S) PROVE Kept
  BY <1>32 DEF Stop, Kept
<1>33. ASSUME Inflow PROVE Kept
  BY <1>33 DEF Inflow, Kept
<1>34. ASSUME NextMonth PROVE Kept
  BY <1>34 DEF NextMonth, Kept
<1>35. ASSUME NEW S, NEW H, SetPanel(S, H) PROVE Kept
  BY <1>35 DEF SetPanel, Kept
<1>36. ASSUME NEW s \in Signatories, Deactivate(s) \/ UpdateSignatory(s) PROVE Kept
  BY <1>35, <1>36 DEF Deactivate, UpdateSignatory, Kept
<1>37. ASSUME NEW r \in Requests, NEW a \in Amounts, Initiate(r, a) PROVE Kept
  BY <1>37 DEF Initiate, Kept
<1>38. ASSUME NEW r \in Requests, RefuseLock(r) PROVE Kept
  BY <1>38 DEF RefuseLock, Kept
<1>39. ASSUME NEW p \in PayoutIds, NEW s \in Signatories, LapseLink(p, s) PROVE Kept
  BY <1>39 DEF LapseLink, Kept
<1> HIDE DEF rowVars, Unattached
<1>q. Kept
  BY <1>1, <1>2, <1>3, <1>4, <1>5, <1>6, <1>7, <1>8, <1>9, <1>10, <1>11, <1>12, <1>13,
      <1>14, <1>15, <1>16, <1>17, <1>18, <1>19, <1>20, <1>21, <1>22, <1>23, <1>24,
      <1>25, <1>26, <1>27, <1>28, <1>29, <1>30, <1>31, <1>32, <1>33, <1>34,
      <1>36, <1>37, <1>38, <1>39, Members
  DEF Next, UserRequest, RequestStep, SweepStep, ExpiryStep, WorkerStep, Environment,
      Abort, Restart
<1> QED BY <1>q DEF Kept

\* Once a payout exists its amount and the month of its reservation stay.
LEMMA RowsKept ==
  ASSUME FiringInv, BooksTypeOK, Next
  PROVE  \A p \in PayoutIds : status[p] # "NONE" =>
             amount'[p] = amount[p] /\ period'[p] = period[p]
<1> USE DEF rowVars
<1>1. CASE Quiet
  BY <1>1 DEF Quiet
<1>2. ASSUME NEW r \in Requests, NEW p \in PayoutIds, CheckAndLock(r, p)
      PROVE  \A o \in PayoutIds \ {p} : amount'[o] = amount[o] /\ period'[o] = period[o]
  <2>1. period' = [period EXCEPT ![p] = period'[p]]
    BY <1>2, Granted
  <2> QED BY <1>2, <2>1 DEF CheckAndLock, BooksTypeOK
<1>3. ASSUME NEW r \in Sweepers, NEW p \in PayoutIds, SweepCreate(r, p)
      PROVE  /\ period' = period
             /\ \A o \in PayoutIds \ {p} : amount'[o] = amount[o]
  BY <1>3 DEF SweepCreate, BooksTypeOK
<1>4. CASE \/ \E r \in Procs : CallNomba(r) \/ Release(r)
           \/ \E r \in Requests : RefuseLock(r) \/ \E a \in Amounts : Initiate(r, a)
           \/ \E r \in Sweepers : SweepRead(r) \/ SweepLock(r)
           \/ \E p \in PayoutIds : NombaConcludes(p)
           \/ \E w \in Workers : Settle(w) \/ \E e \in Event : TakeEvent(w, e)
           \/ Inflow \/ NextMonth
           \/ \E n \in Policies : SetPolicy(n)
           \/ \E S \in SUBSET Procs : Stop(S)
           \/ \E S, H : SetPanel(S, H)
  BY <1>4 DEF CallNomba, Release, SweepRead, SweepLock, NombaConcludes, Settle, TakeEvent,
              Inflow, NextMonth, SetPolicy, Stop, SetPanel, Initiate, RefuseLock
<1>5. \A r \in Requests, p \in PayoutIds : CheckAndLock(r, p) => status[p] = "NONE"
  BY DEF CheckAndLock
<1>6. \A r \in Sweepers, p \in PayoutIds : SweepCreate(r, p) => status[p] = "NONE"
  BY DEF SweepCreate
<1> HIDE DEF rowVars
<1> QED BY <1>1, <1>2, <1>3, <1>4, <1>5, <1>6, QuietOrNot DEF Noise

\* What has been paid out changes only when a worker settles.
LEMMA PaidOutKept ==
  ASSUME FiringInv, BooksTypeOK, Next, \A w \in Workers : ~Settle(w)
  PROVE  PaidOutKobo(ledger') = PaidOutKobo(ledger)
<1>a. IsLedger(ledger) /\ month \in Months
  BY BooksAreLedger
<1>b. \A r \in Procs : pc[r] \notin Unattached => amount[at[r]] \in Nat
  BY Attached DEF FiringInv, BooksTypeOK
<1>1. CASE ledger' = ledger
  BY <1>1
<1>2. ASSUME NEW a \in Nat, ledger' = SoftLock(ledger, a)
      PROVE  PaidOutKobo(ledger') = PaidOutKobo(ledger)
  BY <1>a, <1>2, SoftLockAdds, OtherTotals
<1>3. ASSUME NEW a \in Nat, NEW q, ledger' = ReleaseLock(ledger, a, q)
      PROVE  PaidOutKobo(ledger') = PaidOutKobo(ledger)
  BY <1>a, <1>3, ReleaseSubtracts, OtherTotals
<1>4. CASE Inflow
  <2>1. InflowAmount \in Nat
    BY PayoutsAssumption
  <2>2. Credited(ledger, ledger', month, InflowAmount)
    BY <1>a, <1>4, <2>1, CreditAdds DEF Inflow
  <2> QED BY <2>2 DEF Credited
<1>5. CASE Quiet
  BY <1>1, <1>5 DEF Quiet
<1>6. ASSUME NEW r \in Requests, NEW p \in PayoutIds, CheckAndLock(r, p)
      PROVE  PaidOutKobo(ledger') = PaidOutKobo(ledger)
  <2>1. /\ ask[r].amount \in Nat /\ period'[p] \in DOMAIN ledger
        /\ ledger' = Reserve(ledger, period'[p], ask[r].amount)
    BY <1>6, Granted
  <2> QED BY <1>a, <2>1, ReserveAdds, OtherTotals
<1>7. ASSUME NEW r \in Procs, Release(r) PROVE PaidOutKobo(ledger') = PaidOutKobo(ledger)
  BY <1>3, <1>b, <1>7 DEF Release, Unattached
<1>8. ASSUME NEW r \in Sweepers, SweepLock(r) PROVE PaidOutKobo(ledger') = PaidOutKobo(ledger)
  BY <1>2, <1>b, <1>8, Members DEF SweepLock, Unattached
<1>9. CASE \/ \E r \in Procs : CallNomba(r)
           \/ \E r \in Requests : RefuseLock(r) \/ \E a \in Amounts : Initiate(r, a)
           \/ \E r \in Sweepers : SweepRead(r) \/ \E p \in PayoutIds : SweepCreate(r, p)
           \/ \E p \in PayoutIds : NombaConcludes(p)
           \/ \E w \in Workers : \E e \in Event : TakeEvent(w, e)
           \/ NextMonth
           \/ \E n \in Policies : SetPolicy(n)
           \/ \E S \in SUBSET Procs : Stop(S)
           \/ \E S, H : SetPanel(S, H)
  BY <1>1, <1>9 DEF CallNomba, SweepRead, SweepCreate, NombaConcludes, TakeEvent,
                    NextMonth, SetPolicy, Stop, SetPanel, Initiate, RefuseLock,
                    moneyVars
<1> QED BY <1>4, <1>5, <1>6, <1>7, <1>8, <1>9, QuietOrNot DEF Noise

Transferred == {p \in PayoutIds : status[p] = "TRANSFERRED"}

\* Every step keeps the debits and the transfers in step.
LEMMA DebitsNext ==
  ASSUME IsFiniteSet(PayoutIds), FiringInv, BooksTypeOK, BooksTypeOK', Next, DebitsMatchTransfers
  PROVE  DebitsMatchTransfers'
<1>a. DebitsMatchTransfers <=> PaidOutKobo(ledger) = SumFunctionOnSet(amount, Transferred)
  BY DEF DebitsMatchTransfers, Transferred
<1>b. DebitsMatchTransfers' <=> PaidOutKobo(ledger') = SumFunctionOnSet(amount', Transferred')
  BY DEF DebitsMatchTransfers, Transferred
<1>c. IsFiniteSet(Transferred) /\ Transferred \subseteq PayoutIds
  BY FS_Subset DEF Transferred
<1>d. \A p \in PayoutIds : amount[p] \in Int /\ amount'[p] \in Int
  BY DEF BooksTypeOK
<1>e. \A p \in Transferred : amount[p] = amount'[p]
  BY RowsKept DEF Transferred
<1>1. SumFunctionOnSet(amount, Transferred) = SumFunctionOnSet(amount', Transferred)
  BY <1>c, <1>d, <1>e, SumSame
<1>2. CASE \A w \in Workers : ~Settle(w)
  <2>1. Transferred' = Transferred
    BY <1>2, TransferredKept DEF Transferred
  <2> QED BY <1>a, <1>b, <1>1, <1>2, <2>1, PaidOutKept
<1>3. ASSUME NEW w \in Workers, Settle(w) PROVE DebitsMatchTransfers'
  <2> DEFINE p == at[w]
  <2>1. p \in PayoutIds /\ status[p] = "TRANSFERRING" /\ amount' = amount
    BY <1>3, Attached, Members
    DEF Settle, Unattached, FiringInv, FiringDiscipline
  <2>2. p \notin Transferred /\ Transferred' = Transferred \cup {p}
    BY <1>3, <2>1 DEF Settle, UpdateStatus, Transferred, FiringInv, LifecycleTypeOK
  <2>3. amount[p] \in Nat /\ Fee \in Nat
    BY <2>1, PayoutsAssumption DEF BooksTypeOK
  <2>4. PaidOutKobo(ledger') = PaidOutKobo(ledger) + amount[p]
    <3>1. ledger' = DebitLedger(ledger, month, amount[p], Fee, period[p])
      BY <1>3 DEF Settle
    <3>2. PaidOut(ledger, ledger', month, amount[p])
      BY <2>3, <3>1, BooksAreLedger, DebitTotals
    <3> QED BY <3>2 DEF PaidOut
  <2>5. SumFunctionOnSet(amount, Transferred \cup {p})
          = SumFunctionOnSet(amount, Transferred) + amount[p]
    <3> HIDE DEF p
    <3> QED BY <1>c, <1>d, <2>1, <2>2, SumExtend
  <2> QED BY <1>a, <1>b, <2>1, <2>2, <2>4, <2>5
<1> QED BY <1>2, <1>3

\* What the ledger says was paid out is the sum of the TRANSFERRED payouts:
\* whatever webhooks arrive, repeated, late or early, and whoever stops half-way,
\* each transfer is debited once (nomba-transfer.service.ts handleTransferSuccess).
THEOREM DebitedOnce ==
  ASSUME OneWorker, SweepsUndisturbed, IsFiniteSet(PayoutIds)
  PROVE  Spec => []DebitsMatchTransfers
<1>1. Init => DebitsMatchTransfers
  <2> SUFFICES ASSUME Init PROVE DebitsMatchTransfers
    OBVIOUS
  <2>1. {p \in PayoutIds : status[p] = "TRANSFERRED"} = {}
    BY DEF Init
  <2>2. PaidOutKobo(ledger) = 0
    <3>1. DOMAIN ledger = {1} /\ ledger[1].paidOut = 0
      BY DEF Init, EmptyRow
    <3> DEFINE f == [q \in DOMAIN ledger |-> ledger[q].paidOut]
    <3>2. DOMAIN f = {1} /\ f[1] = 0
      BY <3>1
    <3>3. PaidOutKobo(ledger) = SumFunctionOnSet(f, {1})
      BY <3>2 DEF PaidOutKobo, SumFunction
    <3> HIDE DEF f
    <3> QED BY <3>2, <3>3, SumSingle
  <2> QED BY <2>1, <2>2, SumEmpty DEF DebitsMatchTransfers
<1>2. FiringInv /\ BooksTypeOK /\ BooksTypeOK' /\ DebitsMatchTransfers /\ [Next]_vars
        => DebitsMatchTransfers'
  <2>1. CASE Next
    BY <2>1, DebitsNext
  <2>2. CASE UNCHANGED vars
    BY <2>2 DEF vars, DebitsMatchTransfers
  <2> QED BY <2>1, <2>2
<1> QED
  BY FiringInvariant, BooksAreTyped, <1>1, <1>2, PTL DEF Spec

-----------------------------------------------------------------------------
(* A final status says what happened at the bank.                          *)

\* The executors that know, or think they know, what the bank has done.
Posts == {"failed", "settle", "refund"}

Final == {"TRANSFERRED", "FAILED"}

\* While answers do not get lost, what the program believes of a transfer is
\* what the bank did, from the first call to the last webhook.
OutcomeInv ==
    /\ OutcomeAgrees
    /\ \A p \in PayoutIds : calls[p] = 0 => nomba[p] = "none"
    /\ \A r \in Procs : /\ pc[r] = "failed" => nomba[at[r]] = "none"
                        /\ pc[r] = "settle" => nomba[at[r]] = "success"
                        /\ pc[r] = "refund" => nomba[at[r]] = "failed"
    /\ \A e \in inbox : nomba[e.p] = IF e.kind = "payout_success" THEN "success" ELSE "failed"

\* A step that tells the bank nothing, ends no transfer and sends nobody to a
\* post keeps the agreement.
LEMMA OutcomeFrame ==
  ASSUME OutcomeInv, UNCHANGED <<nomba, inbox, calls>>,
         \A p \in PayoutIds : status'[p] \in Final => status'[p] = status[p],
         \A r \in Procs : pc'[r] \in Posts => pc'[r] = pc[r] /\ at'[r] = at[r]
  PROVE  OutcomeInv'
  BY DEF OutcomeInv, OutcomeAgrees, Final, Posts

\* Every step keeps the agreement.
LEMMA OutcomeNext ==
  ASSUME ~LostAnswers, FiringInv, BooksTypeOK, OutcomeInv, Next PROVE OutcomeInv'
<1> DEFINE FinalsKept == \A p \in PayoutIds : status'[p] \in Final => status'[p] = status[p]
           PostsKept == \A r \in Procs : pc'[r] \in Posts => pc'[r] = pc[r] /\ at'[r] = at[r]
<1>a. /\ status \in [PayoutIds -> Lifecycle!Status] /\ pc \in [Procs -> Pcs]
      /\ at \in [Procs -> PayoutIds \cup {NoPayout}]
  BY DEF FiringInv, LifecycleTypeOK
<1>b. /\ UNCHANGED status => FinalsKept
      /\ \A x : \A p \in PayoutIds :
             x \notin Final /\ status' = [status EXCEPT ![p] = x] => FinalsKept
  BY <1>a
<1>c. \A from, x : \A p \in PayoutIds : x \notin Final /\ TransitionStatus(p, from, x) => FinalsKept
  BY <1>a DEF TransitionStatus
<1>d. /\ UNCHANGED procVars => PostsKept
      /\ \A step : \A r \in Procs : step \notin Posts /\ Goto(r, step) => PostsKept
      /\ \A step, o : \A r \in Procs : step \notin Posts /\ Enter(r, step, o) => PostsKept
      /\ \A r \in Procs : Finish(r) => PostsKept
  BY <1>a DEF procVars, Goto, Enter, Finish, Posts
<1>e. \A r \in Procs : pc[r] \notin Unattached => at[r] \in PayoutIds
  BY Attached DEF FiringInv
<1>f. UNCHANGED <<nomba, inbox, calls>> /\ FinalsKept /\ PostsKept => OutcomeInv'
  BY OutcomeFrame
<1> HIDE DEF FinalsKept, PostsKept
<1> USE DEF rowVars, voteVars, policyVars, moneyVars, nombaVars, localVars, Unattached
<1>1. ASSUME NEW r \in Requests, NEW p \in PayoutIds, CheckAndLock(r, p)
      PROVE  OutcomeInv'
  BY <1>b, <1>c, <1>d, <1>e, <1>f, <1>1, Members DEF CheckAndLock, Final, Posts, Awaiting, UpdateStatus
<1>2. ASSUME NEW r \in Requests, NEW s \in Signatories, SendEmail(r, s) PROVE OutcomeInv'
  BY <1>b, <1>c, <1>d, <1>e, <1>f, <1>2, Members DEF SendEmail, Final, Posts, Awaiting, UpdateStatus
<1>3. ASSUME NEW r \in Requests, Advance(r) PROVE OutcomeInv'
  BY <1>b, <1>c, <1>d, <1>e, <1>f, <1>3, Members DEF Advance, Final, Posts, Awaiting, UpdateStatus
<1>4. ASSUME NEW r \in Requests, NEW p \in PayoutIds, NEW s \in Signatories,
             NEW act \in {"APPROVED", "DECLINED"}, ClickLink(r, p, s, act)
      PROVE  OutcomeInv'
  BY <1>b, <1>c, <1>d, <1>e, <1>f, <1>4, Members DEF ClickLink, Final, Posts, Awaiting, UpdateStatus
<1>5. ASSUME NEW r \in Requests, LoadPayout(r) PROVE OutcomeInv'
  BY <1>b, <1>c, <1>d, <1>e, <1>f, <1>5, Members DEF LoadPayout, Final, Posts, Awaiting, UpdateStatus
<1>6. ASSUME NEW r \in Requests, RecordAction(r) PROVE OutcomeInv'
  BY <1>b, <1>c, <1>d, <1>e, <1>f, <1>6, Members DEF RecordAction, Final, Posts, Awaiting, UpdateStatus
<1>7. ASSUME NEW r \in Requests, Decline(r) PROVE OutcomeInv'
  BY <1>b, <1>c, <1>d, <1>e, <1>f, <1>7, Members DEF Decline, Final, Posts, Awaiting, UpdateStatus
<1>8. ASSUME NEW r \in Requests, ReadPolicy(r) PROVE OutcomeInv'
  BY <1>b, <1>c, <1>d, <1>e, <1>f, <1>8, Members DEF ReadPolicy, Final, Posts, Awaiting, UpdateStatus
<1>9. ASSUME NEW r \in Requests, CheckQuorum(r) PROVE OutcomeInv'
  BY <1>b, <1>c, <1>d, <1>e, <1>f, <1>9, Members DEF CheckQuorum, Final, Posts, Awaiting, UpdateStatus
<1>10. ASSUME NEW r \in Requests, MarkPartial(r) PROVE OutcomeInv'
  BY <1>b, <1>c, <1>d, <1>e, <1>f, <1>10, Members DEF MarkPartial, Final, Posts, Awaiting, UpdateStatus
<1>11. ASSUME NEW r \in Requests, AnswerInvalid(r) PROVE OutcomeInv'
  BY <1>b, <1>c, <1>d, <1>e, <1>f, <1>11, Members DEF AnswerInvalid, Final, Posts, Awaiting, UpdateStatus
<1>12. ASSUME NEW r \in Requests, Approve(r) PROVE OutcomeInv'
  BY <1>b, <1>c, <1>d, <1>e, <1>f, <1>12, Members DEF Approve, Final, Posts, Awaiting, UpdateStatus
<1>13. ASSUME NEW r \in Requests, StartTransfer(r) PROVE OutcomeInv'
  BY <1>b, <1>c, <1>d, <1>e, <1>f, <1>13, Members DEF StartTransfer, Final, Posts, Awaiting, UpdateStatus
<1>14. ASSUME NEW r \in Procs, CallNomba(r) PROVE OutcomeInv'
  <2> DEFINE p == at[r]
  <2>1. /\ p \in PayoutIds /\ calls[p] = 0 /\ nomba[p] = "none"
        /\ status[p] = "TRANSFERRING" /\ ~ref[p]
    BY <1>e, <1>14 DEF CallNomba, FiringInv, FiringDiscipline, OutcomeInv
  <2>2. /\ calls' = [calls EXCEPT ![p] = @ + 1] /\ UNCHANGED <<status, inbox, at>>
        /\ calls \in [PayoutIds -> Nat]
    BY <1>14 DEF CallNomba, Goto, FiringInv, LifecycleTypeOK
  <2>3. \A q \in Procs \ {r} : pc[q] \in Posts => at[q] # p
    BY <1>14, <2>1 DEF CallNomba, Posts, FiringInv, FiringDiscipline, Driving
  <2>4. \A e \in inbox : e.p # p
    BY <2>1 DEF OutcomeInv
  <2>5. \A o \in PayoutIds : calls'[o] = 0 => o # p /\ calls[o] = 0
    BY <2>1, <2>2
  <2> HIDE DEF p
  <2>6. CASE nomba' = [nomba EXCEPT ![p] = "processing"] /\ Goto(r, "storeRef")
    <3>1. \A q \in Procs : pc'[q] \in Posts => q # r /\ pc'[q] = pc[q]
      BY <1>a, <2>6 DEF Goto, Posts
    <3>2. \A o \in PayoutIds : o # p => nomba'[o] = nomba[o]
      BY <2>6 DEF BooksTypeOK
    <3>3. \A q \in Procs : pc[q] \in Posts => at[q] \in PayoutIds
      BY <1>e DEF Posts
    <3>4. OutcomeAgrees'
      BY <2>1, <2>2, <3>2 DEF OutcomeInv, OutcomeAgrees
    <3>5. \A e \in inbox : e.p \in PayoutIds
      BY DEF BooksTypeOK, Event
    <3>6. \A o \in PayoutIds : calls'[o] = 0 => nomba'[o] = "none"
      BY <2>5, <3>2 DEF OutcomeInv
    <3>7. \A q \in Procs : /\ pc'[q] = "failed" => nomba'[at'[q]] = "none"
                           /\ pc'[q] = "settle" => nomba'[at'[q]] = "success"
                           /\ pc'[q] = "refund" => nomba'[at'[q]] = "failed"
      BY <2>2, <2>3, <3>1, <3>2, <3>3 DEF OutcomeInv, Posts
    <3>8. \A e \in inbox' : nomba'[e.p] = IF e.kind = "payout_success" THEN "success" ELSE "failed"
      BY <2>2, <2>4, <3>2, <3>5 DEF OutcomeInv
    <3> QED BY <3>4, <3>6, <3>7, <3>8 DEF OutcomeInv
  <2>7. CASE UNCHANGED nomba /\ Goto(r, "failed")
    <3>1. \A q \in Procs : pc'[q] = IF q = r THEN "failed" ELSE pc[q]
      BY <1>a, <2>7 DEF Goto
    <3>2. at[r] = p
      BY DEF p
    <3> QED BY <2>1, <2>2, <2>5, <2>7, <3>1, <3>2 DEF OutcomeInv, OutcomeAgrees
  <2> QED BY <1>14, <2>6, <2>7 DEF CallNomba, p
<1>15. ASSUME NEW r \in Procs, StoreRef(r) PROVE OutcomeInv'
  BY <1>b, <1>c, <1>d, <1>e, <1>f, <1>15, Members DEF StoreRef, Final, Posts, Awaiting, UpdateStatus
<1>16. ASSUME NEW r \in Procs, FailTransfer(r) PROVE OutcomeInv'
  <2>1. /\ at[r] \in PayoutIds /\ nomba[at[r]] = "none" /\ status[at[r]] = "TRANSFERRING"
        /\ UNCHANGED <<nomba, inbox, calls>>
    BY <1>e, <1>16 DEF FailTransfer, FiringInv, FiringDiscipline, OutcomeInv
  <2>2. status' = [status EXCEPT ![at[r]] = "FAILED"]
    BY <1>16, <2>1 DEF FailTransfer, UpdateStatus, TransitionStatus
  <2>3. \A p \in PayoutIds : status'[p] = IF p = at[r] THEN "FAILED" ELSE status[p]
    BY <1>a, <2>2
  <2>4. PostsKept
    BY <1>d, <1>16 DEF FailTransfer, Posts
  <2> QED BY <2>1, <2>3, <2>4 DEF OutcomeInv, OutcomeAgrees, PostsKept, Posts
<1>17. ASSUME NEW r \in Procs, Release(r) PROVE OutcomeInv'
  BY <1>b, <1>c, <1>d, <1>e, <1>f, <1>17, Members DEF Release, Final, Posts, Awaiting, UpdateStatus
<1>18. ASSUME NEW r \in Requests, NEW p \in PayoutIds, LoadCancel(r, p) PROVE OutcomeInv'
  BY <1>b, <1>c, <1>d, <1>e, <1>f, <1>18, Members DEF LoadCancel, Final, Posts, Awaiting, UpdateStatus
<1>19. ASSUME NEW r \in Requests, Cancel(r) PROVE OutcomeInv'
  BY <1>b, <1>c, <1>d, <1>e, <1>f, <1>19, Members DEF Cancel, Final, Posts, Awaiting, UpdateStatus
<1>20. ASSUME NEW r \in Expirers, SelectExpired(r) PROVE OutcomeInv'
  BY <1>b, <1>c, <1>d, <1>e, <1>f, <1>20, Members DEF SelectExpired, Final, Posts, Awaiting, UpdateStatus
<1>21. ASSUME NEW r \in Expirers, Expire(r) PROVE OutcomeInv'
  <2>1. todo[r] \subseteq PayoutIds
    BY DEF FiringInv, LifecycleTypeOK
  <2>2. FinalsKept
    <3>1. CASE UNCHANGED status
      BY <1>b, <3>1
    <3>2. CASE \E p \in todo[r] : TransitionStatus(p, Awaiting, "EXPIRED")
      BY <1>c, <2>1, <3>2 DEF Final
    <3> QED BY <1>21, <3>1, <3>2 DEF Expire
  <2>3. PostsKept
    BY <1>d, <1>21, Members DEF Expire, Posts
  <2> QED BY <1>f, <1>21, <2>2, <2>3 DEF Expire
<1>22. ASSUME NEW r \in Sweepers, SweepRead(r) PROVE OutcomeInv'
  BY <1>b, <1>c, <1>d, <1>e, <1>f, <1>22, Members DEF SweepRead, Final, Posts, Awaiting, UpdateStatus
<1>23. ASSUME NEW r \in Sweepers, NEW p \in PayoutIds, SweepCreate(r, p) PROVE OutcomeInv'
  BY <1>b, <1>c, <1>d, <1>e, <1>f, <1>23, Members DEF SweepCreate, Final, Posts, Awaiting, UpdateStatus
<1>24. ASSUME NEW r \in Sweepers, SweepApprove(r) PROVE OutcomeInv'
  BY <1>b, <1>c, <1>d, <1>e, <1>f, <1>24, Members DEF SweepApprove, Final, Posts, Awaiting, UpdateStatus
<1>25. ASSUME NEW r \in Sweepers, SweepLock(r) PROVE OutcomeInv'
  BY <1>b, <1>c, <1>d, <1>e, <1>f, <1>25, Members DEF SweepLock, Final, Posts, Awaiting, UpdateStatus
<1>26. ASSUME NEW r \in Sweepers, SweepFire(r) PROVE OutcomeInv'
  BY <1>b, <1>c, <1>d, <1>e, <1>f, <1>26, Members DEF SweepFire, Final, Posts, Awaiting, UpdateStatus
<1>27. ASSUME NEW p \in PayoutIds, NombaConcludes(p) PROVE OutcomeInv'
  <2>1. nomba[p] = "processing" /\ UNCHANGED <<status, calls, pc, at>>
    BY <1>27 DEF NombaConcludes, procVars
  <2>2. \E x \in {"success", "failed"} :
           /\ nomba' = [nomba EXCEPT ![p] = x]
           /\ \A e \in inbox' : \/ e \in inbox
                                \/ /\ e.p = p
                                   /\ x = IF e.kind = "payout_success" THEN "success" ELSE "failed"
    BY <1>27 DEF NombaConcludes
  <2>3. \A o \in PayoutIds : o # p => nomba'[o] = nomba[o]
    BY <2>2 DEF BooksTypeOK
  <2>4. nomba'[p] \in {"success", "failed"}
        /\ \A e \in inbox' : \/ e \in inbox
                             \/ /\ e.p = p
                                /\ nomba'[p] = IF e.kind = "payout_success" THEN "success" ELSE "failed"
    BY <2>2 DEF BooksTypeOK
  <2>5. \A o \in PayoutIds : calls[o] = 0 => o # p
    BY <2>1 DEF OutcomeInv
  <2>6. \A q \in Procs : pc[q] \in Posts => at[q] \in PayoutIds /\ at[q] # p
    BY <1>e, <2>1 DEF OutcomeInv, Posts
  <2>7. \A e \in inbox : e.p \in PayoutIds /\ e.p # p
    BY <2>1 DEF OutcomeInv, BooksTypeOK, Event
  <2>8. OutcomeAgrees'
    BY <2>1, <2>3 DEF OutcomeInv, OutcomeAgrees
  <2>9. \A q \in Procs : /\ pc'[q] = "failed" => nomba'[at'[q]] = "none"
                         /\ pc'[q] = "settle" => nomba'[at'[q]] = "success"
                         /\ pc'[q] = "refund" => nomba'[at'[q]] = "failed"
    BY <2>1, <2>3, <2>6 DEF OutcomeInv, Posts
  <2>10. \A e \in inbox' : nomba'[e.p] = IF e.kind = "payout_success" THEN "success" ELSE "failed"
    BY <2>3, <2>4, <2>7 DEF OutcomeInv
  <2>11. \A o \in PayoutIds : calls'[o] = 0 => nomba'[o] = "none"
    BY <2>1, <2>3, <2>5 DEF OutcomeInv
  <2> QED BY <2>8, <2>9, <2>10, <2>11 DEF OutcomeInv
<1>28. ASSUME NEW w \in Workers, NEW e \in Event, TakeEvent(w, e) PROVE OutcomeInv'
  <2>1. UNCHANGED <<nomba, calls, status>> /\ inbox' \subseteq inbox /\ e \in inbox
    BY <1>28 DEF TakeEvent
  <2>2. CASE UNCHANGED procVars
    BY <2>1, <2>2 DEF procVars, OutcomeInv, OutcomeAgrees
  <2>3. CASE Enter(w, IF e.kind = "payout_success" THEN "settle" ELSE "refund", e.p)
    <3>1. \A q \in Procs : q # w => pc'[q] = pc[q] /\ at'[q] = at[q]
      BY <1>a, <2>3 DEF Enter
    <3>2. /\ pc'[w] = IF e.kind = "payout_success" THEN "settle" ELSE "refund"
          /\ at'[w] = e.p
      BY <1>a, <2>3, Members DEF Enter
    <3>3. nomba[e.p] = IF e.kind = "payout_success" THEN "success" ELSE "failed"
      BY <2>1 DEF OutcomeInv
    <3> QED BY <2>1, <3>1, <3>2, <3>3 DEF OutcomeInv, OutcomeAgrees
  <2> QED BY <1>28, <2>2, <2>3 DEF TakeEvent
<1>29. ASSUME NEW w \in Workers, Settle(w) PROVE OutcomeInv'
  <2>1. at[w] \in PayoutIds /\ nomba[at[w]] = "success" /\ UNCHANGED <<nomba, inbox, calls>>
    BY <1>e, <1>29, Members DEF Settle, OutcomeInv
  <2>2. \A p \in PayoutIds : status'[p] = IF p = at[w] THEN "TRANSFERRED" ELSE status[p]
    BY <1>a, <1>29, <2>1 DEF Settle, UpdateStatus
  <2>3. PostsKept
    BY <1>d, <1>29, Members DEF Settle
  <2> QED BY <2>1, <2>2, <2>3 DEF OutcomeInv, OutcomeAgrees, PostsKept, Posts
<1>30. ASSUME NEW w \in Workers, Refund(w) PROVE OutcomeInv'
  <2>1. at[w] \in PayoutIds /\ nomba[at[w]] = "failed" /\ UNCHANGED <<nomba, inbox, calls>>
    BY <1>e, <1>30, Members DEF Refund, OutcomeInv
  <2>2. \A p \in PayoutIds : status'[p] = IF p = at[w] THEN "FAILED" ELSE status[p]
    BY <1>a, <1>30, <2>1 DEF Refund, UpdateStatus
  <2>3. PostsKept
    BY <1>d, <1>30, Members DEF Refund, Posts
  <2> QED BY <2>1, <2>2, <2>3 DEF OutcomeInv, OutcomeAgrees, PostsKept, Posts
<1>31. ASSUME NEW n \in Policies, SetPolicy(n) PROVE OutcomeInv'
  BY <1>b, <1>c, <1>d, <1>e, <1>f, <1>31, Members DEF SetPolicy, Final, Posts, Awaiting, UpdateStatus
<1>32. ASSUME NEW S \in SUBSET Procs, Stop(S) PROVE OutcomeInv'
  <2>1. PostsKept
    BY <1>32 DEF Stop, PostsKept, Posts
  <2> QED BY <1>b, <1>f, <1>32, <2>1 DEF Stop
<1>33. ASSUME Inflow PROVE OutcomeInv'
  BY <1>b, <1>c, <1>d, <1>e, <1>f, <1>33, Members DEF Inflow, Final, Posts, Awaiting, UpdateStatus
<1>34. ASSUME NextMonth PROVE OutcomeInv'
  BY <1>b, <1>c, <1>d, <1>e, <1>f, <1>34, Members DEF NextMonth, Final, Posts, Awaiting, UpdateStatus
<1>35. ASSUME NEW S, NEW H, SetPanel(S, H) PROVE OutcomeInv'
  BY <1>b, <1>c, <1>d, <1>f, <1>35 DEF SetPanel
<1>36. ASSUME NEW s \in Signatories, Deactivate(s) \/ UpdateSignatory(s) PROVE OutcomeInv'
  BY <1>35, <1>36 DEF Deactivate, UpdateSignatory
<1>37. ASSUME NEW r \in Requests, NEW a \in Amounts, Initiate(r, a) PROVE OutcomeInv'
  BY <1>b, <1>d, <1>f, <1>37, Members DEF Initiate, Posts
<1>38. ASSUME NEW r \in Requests, RefuseLock(r) PROVE OutcomeInv'
  BY <1>b, <1>d, <1>f, <1>38, Members DEF RefuseLock, Posts
<1>39. ASSUME NEW p \in PayoutIds, NEW s \in Signatories, LapseLink(p, s) PROVE OutcomeInv'
  BY <1>b, <1>d, <1>f, <1>39, Members DEF LapseLink, Posts
<1> HIDE DEF rowVars, voteVars, policyVars, moneyVars, nombaVars, procVars, localVars
<1> QED
  BY <1>1, <1>2, <1>3, <1>4, <1>5, <1>6, <1>7, <1>8, <1>9, <1>10, <1>11, <1>12, <1>13,
      <1>14, <1>15, <1>16, <1>17, <1>18, <1>19, <1>20, <1>21, <1>22, <1>23, <1>24,
      <1>25, <1>26, <1>27, <1>28, <1>29, <1>30, <1>31, <1>32, <1>33, <1>34,
      <1>36, <1>37, <1>38, <1>39, Members
  DEF Next, UserRequest, RequestStep, SweepStep, ExpiryStep, WorkerStep, Environment,
      Abort, Restart

\* A payout is TRANSFERRED only if the bank paid it and FAILED only if it did
\* not, as long as every answer of the bank arrives: whatever order webhooks
\* come in, however often, and whoever stops half-way
\* (nomba-transfer.service.ts, manual-payout.service.ts execute).
THEOREM OutcomesAgree ==
  ASSUME OneWorker, SweepsUndisturbed, ~LostAnswers
  PROVE  Spec => []OutcomeAgrees
<1>1. Init => OutcomeInv
  BY PayoutsAssumption DEF Init, OutcomeInv, OutcomeAgrees
<1>2. FiringInv /\ BooksTypeOK /\ OutcomeInv /\ [Next]_vars => OutcomeInv'
  <2>1. CASE Next
    BY <2>1, OutcomeNext
  <2>2. CASE UNCHANGED vars
    BY <2>2 DEF vars, OutcomeInv, OutcomeAgrees
  <2> QED BY <2>1, <2>2
<1>3. OutcomeInv => OutcomeAgrees
  BY DEF OutcomeInv
<1> QED
  BY FiringInvariant, BooksAreTyped, <1>1, <1>2, <1>3, PTL DEF Spec

-----------------------------------------------------------------------------
(* Reservations: who holds one, and that the ledger's soft locks are theirs. *)

Dead == {"DECLINED", "CANCELLED", "EXPIRED", "FAILED"}

\* Nothing cancels a payout its creator is still at work on, and no sweep runs:
\* the two cases in which the code may release a reservation twice, or on
\* another row than it was taken from.
LocksUndisturbed == ~CancelInFlight /\ Sweepers = {}

\* Who gives a reservation back is alone in doing so, of a payout that is dead;
\* and nobody else has got hold of a payout that its creator is about to advance.
Custody ==
    \A r \in Procs :
        /\ pc[r] = "release" =>
              /\ status[at[r]] \in Dead
              /\ \A q \in Procs : pc[q] = "release" /\ at[q] = at[r] => q = r
        /\ pc[r] = "advance" =>
              /\ r \in Requests /\ status[at[r]] = "PENDING" /\ Untouched(at[r])
              /\ \A q \in Procs : at[q] = at[r] => q = r

\* Someone who has just made a payout dead, and has no creator of it to fear,
\* takes its reservation into custody.
LEMMA TakesCustody ==
  ASSUME FiringInv, Custody, NEW r \in Procs, NEW p \in PayoutIds, NEW x \in Dead,
         Enter(r, "release", p), status' = [status EXCEPT ![p] = x], status[p] \in Live,
         \A q \in Procs : pc[q] = "advance" => at[q] # p,
         pc[r] # "advance", vote' = vote, \A e \in Expirers : todo'[e] \subseteq todo[e]
  PROVE  Custody'
<1>1. /\ pc'[r] = "release" /\ at'[r] = p
      /\ \A q \in Procs : q # r => pc'[q] = pc[q] /\ at'[q] = at[q]
  BY DEF Enter, FiringInv, LifecycleTypeOK
<1>2. status'[p] \in Dead /\ \A o \in PayoutIds : o # p => status'[o] = status[o]
  BY DEF FiringInv, LifecycleTypeOK
<1>3. \A q \in Procs : pc[q] \in {"release", "advance"} => at[q] \in PayoutIds
  BY Attached DEF FiringInv, Unattached
<1>4. \A q \in Procs : pc[q] = "release" => at[q] # p
  BY DEF Custody, Dead, Live
<1>5. ASSUME NEW q \in Procs, pc'[q] = "release"
      PROVE  /\ status'[at'[q]] \in Dead
             /\ \A o \in Procs : pc'[o] = "release" /\ at'[o] = at'[q] => o = q
  BY <1>1, <1>2, <1>3, <1>4, <1>5 DEF Custody
<1>6. ASSUME NEW q \in Procs, pc'[q] = "advance"
      PROVE  /\ q \in Requests /\ status'[at'[q]] = "PENDING" /\ Untouched(at[q])'
             /\ \A o \in Procs : at'[o] = at'[q] => o = q
  BY <1>1, <1>2, <1>3, <1>6 DEF Custody, Untouched
<1> QED BY <1>5, <1>6 DEF Custody

\* Someone who joins a payout that no creator is about to advance leaves
\* custody as it is.
LEMMA KeepsCustody ==
  ASSUME FiringInv, Custody, NEW r \in Procs, NEW p, NEW step, step \notin {"release", "advance"},
         Enter(r, step, p), UNCHANGED <<status, vote>>,
         \A q \in Procs : q # r /\ pc[q] = "advance" =>
             at[q] # p /\ \A e \in Expirers : at[q] \notin todo'[e]
  PROVE  Custody'
<1>1. /\ pc'[r] = step /\ at'[r] = p
      /\ \A q \in Procs : q # r => pc'[q] = pc[q] /\ at'[q] = at[q]
  BY DEF Enter, FiringInv, LifecycleTypeOK
<1>2. \A q \in Procs : pc'[q] \in {"release", "advance"} => q # r
  BY <1>1
<1> QED BY <1>1, <1>2 DEF Custody, Untouched

\* Every step keeps custody.
LEMMA CustodyNext ==
  ASSUME ~CancelInFlight, FiringInv, Custody, Next PROVE Custody'
<1> USE PayoutsAssumption
    DEF FiringInv, LifecycleTypeOK, FiringDiscipline, Placement, Stages, Untouched,
        Unattached, Custody, Driving, Dead,
        Enter, Goto, Finish, UpdateStatus, TransitionStatus, Awaiting,
        rowVars, voteVars, policyVars, moneyVars, nombaVars, procVars, localVars
<1>b. \A r \in Procs : pc[r] \notin Unattached => at[r] \in PayoutIds
  BY Attached
<1>c. \A r \in Procs : \A p \in PayoutIds : at[r] = p /\ Goto(r, "release") => Enter(r, "release", p)
  OBVIOUS
<1>1. ASSUME NEW r \in Requests, NEW p \in PayoutIds, CheckAndLock(r, p)
      PROVE  Custody'
  <2>1. /\ r \in Procs /\ pc[r] = "lock" /\ status[p] = "NONE"
        /\ status' = [status EXCEPT ![p] = "PENDING"] /\ UNCHANGED todo
    BY <1>1, Members DEF CheckAndLock
  <2>2. \A q \in Procs : pc[q] \in {"release", "advance"} =>
            at[q] \in PayoutIds /\ at[q] # p /\ q # r
    BY <1>b, <2>1
  <2>3. /\ \A o \in PayoutIds : o # p => status'[o] = status[o] /\ vote'[o] = vote[o]
        /\ status'[p] = "PENDING"
    BY <2>1, <1>1 DEF CheckAndLock
  <2>4. /\ at'[r] = p /\ pc'[r] \in {"advance", "emails"}
        /\ \A q \in Procs : q # r => at'[q] = at[q] /\ pc'[q] = pc[q]
    BY <2>1, <1>1 DEF CheckAndLock
  <2>5. \A q \in Procs : at[q] # p
    BY <2>1
  <2>6. pc'[r] = "advance" => Untouched(p)'
    <3>1. pc'[r] = "advance" => ask[r].amount < Threshold
      BY <2>1, <1>1 DEF CheckAndLock
    <3>2. pc'[r] = "advance" => ask[r].list = {}
      BY <2>1, <3>1 DEF Clicks
    <3>3. vote'[p] = [s \in Signatories |-> IF s \in ask[r].list THEN "due" ELSE "none"]
      BY <1>1 DEF CheckAndLock
    <3>4. \A e \in Expirers : p \notin todo'[e]
      BY <2>1
    <3> QED BY <3>2, <3>3, <3>4
  <2> HIDE DEF FiringInv, LifecycleTypeOK, FiringDiscipline, Placement, Stages, Enter, Untouched
  <2>7. ASSUME NEW q \in Procs, pc'[q] = "release"
        PROVE  /\ status'[at'[q]] \in Dead
               /\ \A o \in Procs : pc'[o] = "release" /\ at'[o] = at'[q] => o = q
    BY <2>2, <2>3, <2>4, <2>7
  <2>8. ASSUME NEW q \in Procs, pc'[q] = "advance"
        PROVE  /\ q \in Requests /\ status'[at'[q]] = "PENDING" /\ Untouched(at[q])'
               /\ \A o \in Procs : at'[o] = at'[q] => o = q
    <3>1. CASE q = r
      BY <2>3, <2>4, <2>5, <2>6, <2>8, <3>1 DEF Untouched
    <3>2. CASE q # r
      BY <2>1, <2>2, <2>3, <2>4, <2>8, <3>2 DEF Untouched
    <3> QED BY <3>1, <3>2
  <2> QED BY <2>7, <2>8
<1>2. ASSUME NEW r \in Requests, NEW s \in Signatories, SendEmail(r, s) PROVE Custody'
  <2>1. at[r] \in PayoutIds /\ r \in Procs
    BY <1>b, <1>2, Members DEF SendEmail
  <2>2. \A q \in Procs : pc[q] = "advance" => at[q] # at[r]
    BY <2>1, <1>2 DEF SendEmail
  <2>3. UNCHANGED <<status, todo>> /\ \A o \in PayoutIds : o # at[r] => vote'[o] = vote[o]
    BY <2>1, <1>2 DEF SendEmail
  <2>4. \A q \in Procs : /\ pc'[q] \in {"release", "advance"} => pc'[q] = pc[q] /\ at'[q] = at[q]
                         /\ at'[q] \in PayoutIds => at'[q] = at[q]
    BY <2>1, <1>2 DEF SendEmail
  <2> QED BY <1>b, <2>2, <2>3, <2>4
<1>3. ASSUME NEW r \in Requests, Advance(r) PROVE Custody'
  BY <1>b, <1>3, Members DEF Advance
<1>4. ASSUME NEW r \in Requests, NEW p \in PayoutIds, NEW s \in Signatories,
             NEW act \in {"APPROVED", "DECLINED"}, ClickLink(r, p, s, act)
      PROVE  Custody'
  BY <1>b, <1>4, Members DEF ClickLink
<1>5. ASSUME NEW r \in Requests, LoadPayout(r) PROVE Custody'
  BY <1>b, <1>5, Members DEF LoadPayout
<1>6. ASSUME NEW r \in Requests, RecordAction(r) PROVE Custody'
  BY <1>b, <1>6, Members DEF RecordAction
<1>7. ASSUME NEW r \in Requests, Decline(r) PROVE Custody'
  <2>1. r \in Procs /\ at[r] \in PayoutIds /\ pc[r] = "decline" /\ UNCHANGED <<vote, todo>>
    BY <1>b, <1>7, Members DEF Decline
  <2>2. CASE status[at[r]] \in Awaiting
    <3>1. Enter(r, "release", at[r]) /\ status' = [status EXCEPT ![at[r]] = "DECLINED"]
      BY <1>c, <2>1, <2>2, <1>7 DEF Decline
    <3>2. \A q \in Procs : pc[q] = "advance" => at[q] # at[r]
      BY <2>1
    <3>3. "DECLINED" \in Dead /\ status[at[r]] \in Live
      BY <2>2 DEF Live
    <3> HIDE DEF FiringInv, Custody, Dead
    <3> QED BY <2>1, <3>1, <3>2, <3>3, TakesCustody
  <2>3. CASE status[at[r]] \notin Awaiting
    <3>1. Enter(r, "idle", NoPayout) /\ UNCHANGED status
      BY <2>1, <2>3, <1>7 DEF Decline
    <3>2. \A q \in Procs : q # r /\ pc[q] = "advance" =>
              at[q] # NoPayout /\ \A e \in Expirers : at[q] \notin todo'[e]
      BY <1>b, <2>1
    <3>3. "idle" \notin {"release", "advance"}
      OBVIOUS
    <3> HIDE DEF FiringInv, Custody, Enter
    <3> QED BY <2>1, <3>1, <3>2, <3>3, KeepsCustody
  <2> QED BY <2>2, <2>3
<1>8. ASSUME NEW r \in Requests, ReadPolicy(r) PROVE Custody'
  BY <1>b, <1>8, Members DEF ReadPolicy
<1>9. ASSUME NEW r \in Requests, CheckQuorum(r) PROVE Custody'
  BY <1>b, <1>9, Members DEF CheckQuorum
<1>10. ASSUME NEW r \in Requests, MarkPartial(r) PROVE Custody'
  BY <1>b, <1>10, Members DEF MarkPartial
<1>11. ASSUME NEW r \in Requests, AnswerInvalid(r) PROVE Custody'
  BY <1>b, <1>11, Members DEF AnswerInvalid
<1>12. ASSUME NEW r \in Requests, Approve(r) PROVE Custody'
  <2>1. r \in Procs /\ at[r] \in PayoutIds /\ pc[r] = "approve" /\ UNCHANGED <<vote, todo>>
    BY <1>b, <1>12, Members DEF Approve
  <2>2. CASE status[at[r]] \in Awaiting
    <3>1. /\ pc'[r] = "start" /\ at' = at /\ \A q \in Procs : q # r => pc'[q] = pc[q]
          /\ \A o \in PayoutIds : o # at[r] => status'[o] = status[o]
      BY <2>1, <2>2, <1>12 DEF Approve
    <3>2. \A q \in Procs : pc[q] \in {"release", "advance"} => at[q] \in PayoutIds /\ at[q] # at[r]
      BY <1>b, <2>1, <2>2, SMTT(30)
    <3> HIDE DEF FiringInv
    <3> QED BY <2>1, <3>1, <3>2
  <2>3. CASE status[at[r]] \notin Awaiting
    <3>1. Enter(r, "idle", NoPayout) /\ UNCHANGED status
      BY <2>1, <2>3, <1>12 DEF Approve
    <3>2. \A q \in Procs : q # r /\ pc[q] = "advance" =>
              at[q] # NoPayout /\ \A e \in Expirers : at[q] \notin todo'[e]
      BY <1>b, <2>1
    <3>3. "idle" \notin {"release", "advance"}
      OBVIOUS
    <3> HIDE DEF FiringInv, Custody, Enter
    <3> QED BY <2>1, <3>1, <3>2, <3>3, KeepsCustody
  <2> QED BY <2>2, <2>3
<1>13. ASSUME NEW r \in Requests, StartTransfer(r) PROVE Custody'
  BY <1>b, <1>13, Members DEF StartTransfer
<1>14. ASSUME NEW r \in Procs, CallNomba(r) PROVE Custody'
  BY <1>b, <1>14, Members DEF CallNomba
<1>15. ASSUME NEW r \in Procs, StoreRef(r) PROVE Custody'
  <2>1. Enter(r, "idle", NoPayout) /\ UNCHANGED <<status, vote, todo>>
    BY <1>b, <1>15 DEF StoreRef
  <2>2. \A q \in Procs : q # r /\ pc[q] = "advance" =>
            at[q] # NoPayout /\ \A e \in Expirers : at[q] \notin todo'[e]
    BY <1>b, <2>1
  <2>3. "idle" \notin {"release", "advance"}
    OBVIOUS
  <2> HIDE DEF FiringInv, Custody, Enter
  <2> QED BY <2>1, <2>2, <2>3, KeepsCustody
<1>16. ASSUME NEW r \in Procs, FailTransfer(r) PROVE Custody'
  <2>1. /\ at[r] \in PayoutIds /\ status[at[r]] = "TRANSFERRING"
        /\ status' = [status EXCEPT ![at[r]] = "FAILED"]
    BY <1>b, <1>16 DEF FailTransfer
  <2>2. Enter(r, "release", at[r]) /\ UNCHANGED <<vote, todo>> /\ pc[r] = "failed"
    BY <1>c, <2>1, <1>16 DEF FailTransfer
  <2>3. \A q \in Procs : pc[q] = "advance" => at[q] # at[r]
    BY <2>1
  <2>4. "FAILED" \in Dead /\ status[at[r]] \in Live
    BY <2>1 DEF Live
  <2> HIDE DEF FiringInv, Custody, Dead
  <2> QED BY <2>1, <2>2, <2>3, <2>4, TakesCustody
<1>17. ASSUME NEW r \in Procs, Release(r) PROVE Custody'
  <2>1. PICK step \in {"idle", "expire"} : Enter(r, step, NoPayout)
    BY <1>17 DEF Release
  <2>2. UNCHANGED <<status, vote, todo>> /\ step \notin {"release", "advance"}
    BY <1>17 DEF Release
  <2>3. \A q \in Procs : q # r /\ pc[q] = "advance" =>
            at[q] # NoPayout /\ \A e \in Expirers : at[q] \notin todo'[e]
    BY <1>b, <2>2
  <2> HIDE DEF FiringInv, Custody, Enter
  <2> QED BY <2>1, <2>2, <2>3, KeepsCustody
<1>18. ASSUME NEW r \in Requests, NEW p \in PayoutIds, LoadCancel(r, p) PROVE Custody'
  <2>1. r \in Procs /\ Enter(r, "cancel", p) /\ UNCHANGED <<status, vote, todo>>
    BY <1>18, Members DEF LoadCancel
  <2>2. \A q \in Procs : pc[q] = "advance" => at[q] # p
    BY <1>18 DEF LoadCancel, BeingCreated
  <2>3. "cancel" \notin {"release", "advance"}
    OBVIOUS
  <2>4. \A q \in Procs : q # r /\ pc[q] = "advance" =>
             at[q] # p /\ \A e \in Expirers : at[q] \notin todo'[e]
    BY <2>1, <2>2
  <2> HIDE DEF FiringInv, Custody, Enter
  <2> QED BY <2>1, <2>3, <2>4, KeepsCustody
<1>19. ASSUME NEW r \in Requests, Cancel(r) PROVE Custody'
  <2>1. r \in Procs /\ at[r] \in PayoutIds /\ pc[r] = "cancel" /\ UNCHANGED <<vote, todo>>
    BY <1>b, <1>19, Members DEF Cancel
  <2>2. CASE status[at[r]] = "PENDING"
    <3>1. Enter(r, "release", at[r]) /\ status' = [status EXCEPT ![at[r]] = "CANCELLED"]
      BY <1>c, <2>1, <2>2, <1>19 DEF Cancel
    <3>2. \A q \in Procs : pc[q] = "advance" => at[q] # at[r]
      BY <2>1
    <3>3. "CANCELLED" \in Dead /\ status[at[r]] \in Live
      BY <2>2 DEF Live
    <3> HIDE DEF FiringInv, Custody, Dead
    <3> QED BY <2>1, <3>1, <3>2, <3>3, TakesCustody
  <2>3. CASE status[at[r]] # "PENDING"
    <3>1. Enter(r, "idle", NoPayout) /\ UNCHANGED status
      BY <2>1, <2>3, <1>19 DEF Cancel
    <3>2. \A q \in Procs : q # r /\ pc[q] = "advance" =>
              at[q] # NoPayout /\ \A e \in Expirers : at[q] \notin todo'[e]
      BY <1>b, <2>1
    <3>3. "idle" \notin {"release", "advance"}
      OBVIOUS
    <3> HIDE DEF FiringInv, Custody, Enter
    <3> QED BY <2>1, <3>1, <3>2, <3>3, KeepsCustody
  <2> QED BY <2>2, <2>3
<1>20. ASSUME NEW r \in Expirers, SelectExpired(r) PROVE Custody'
  <2>1. r \in Procs /\ Enter(r, "expire", NoPayout) /\ UNCHANGED <<status, vote>>
    BY <1>20, Members DEF SelectExpired
  <2>2. \A q \in Procs : pc[q] = "advance" => at[q] # NoPayout /\ \A e \in Expirers : at[q] \notin todo'[e]
    <3>1. \A e \in Expirers : \A o \in todo'[e] : o \in todo[e] \/ ~BeingCreated(o)
      BY <1>20 DEF SelectExpired, MayBeOverdue
    <3>2. \A q \in Procs : pc[q] = "advance" => BeingCreated(at[q])
      BY DEF BeingCreated
    <3> QED BY <1>b, <3>1, <3>2
  <2>3. "expire" \notin {"release", "advance"}
    OBVIOUS
  <2> HIDE DEF FiringInv, Custody, Enter
  <2> QED BY <2>1, <2>2, <2>3, KeepsCustody
<1>21. ASSUME NEW r \in Expirers, Expire(r) PROVE Custody'
  <2>a. r \in Procs /\ pc[r] = "expire" /\ vote' = vote
    BY <1>21, Members DEF Expire
  <2>1. CASE todo[r] = {} /\ Finish(r) /\ UNCHANGED <<status, todo>>
    BY <2>a, <2>1
  <2>2. ASSUME NEW p \in todo[r], todo' = [todo EXCEPT ![r] = @ \ {p}],
               TransitionStatus(p, Awaiting, "EXPIRED"),
               IF status[p] \in Awaiting THEN Enter(r, "release", p) ELSE UNCHANGED procVars
        PROVE  Custody'
    <3>1. p \in PayoutIds /\ \A e \in Expirers : todo'[e] \subseteq todo[e]
      BY <2>2
    <3>2. CASE status[p] \in Awaiting
      <4>1. Enter(r, "release", p) /\ status' = [status EXCEPT ![p] = "EXPIRED"]
        BY <2>2, <3>2
      <4>2. \A q \in Procs : pc[q] = "advance" => at[q] # p
        OBVIOUS
      <4>3. "EXPIRED" \in Dead /\ status[p] \in Live
        BY <3>2 DEF Live
      <4> HIDE DEF FiringInv, Custody, Dead, Enter
      <4> QED BY <2>a, <3>1, <4>1, <4>2, <4>3, TakesCustody
    <3>3. CASE status[p] \notin Awaiting
      BY <2>a, <2>2, <3>1, <3>3
    <3> QED BY <3>2, <3>3
  <2> QED BY <1>21, <2>1, <2>2 DEF Expire
<1>22. ASSUME NEW r \in Sweepers, SweepRead(r) PROVE Custody'
  BY <1>b, <1>22, Members DEF SweepRead
<1>23. ASSUME NEW r \in Sweepers, NEW p \in PayoutIds, SweepCreate(r, p) PROVE Custody'
  BY <1>b, <1>23, Members DEF SweepCreate
<1>24. ASSUME NEW r \in Sweepers, SweepApprove(r) PROVE Custody'
  BY <1>b, <1>24, Members DEF SweepApprove
<1>25. ASSUME NEW r \in Sweepers, SweepLock(r) PROVE Custody'
  BY <1>b, <1>25, Members DEF SweepLock
<1>26. ASSUME NEW r \in Sweepers, SweepFire(r) PROVE Custody'
  BY <1>b, <1>26, Members DEF SweepFire
<1>27. ASSUME NEW p \in PayoutIds, NombaConcludes(p) PROVE Custody'
  BY <1>b, <1>27, Members DEF NombaConcludes
<1>28. ASSUME NEW w \in Workers, NEW e \in Event, TakeEvent(w, e) PROVE Custody'
  <2>1. w \in Procs /\ UNCHANGED <<status, vote, todo>>
    BY <1>28, Members DEF TakeEvent
  <2>2. CASE UNCHANGED procVars
    BY <2>1, <2>2
  <2>3. ASSUME NEW step \in {"settle", "refund"}, Enter(w, step, e.p), status[e.p] = "TRANSFERRING"
        PROVE  Custody'
    <3>1. \A q \in Procs : q # w /\ pc[q] = "advance" =>
              at[q] # e.p /\ \A x \in Expirers : at[q] \notin todo'[x]
      BY <2>1, <2>3
    <3>2. step \notin {"release", "advance"}
      OBVIOUS
    <3> HIDE DEF FiringInv, Custody, Enter
    <3> QED BY <2>1, <2>3, <3>1, <3>2, KeepsCustody
  <2> QED BY <1>28, <2>2, <2>3 DEF TakeEvent
<1>29. ASSUME NEW w \in Workers, Settle(w) PROVE Custody'
  <2>1. /\ at[w] \in PayoutIds /\ status[at[w]] = "TRANSFERRING" /\ w \in Procs
        /\ status' = [status EXCEPT ![at[w]] = "TRANSFERRED"] /\ UNCHANGED <<vote, todo>>
    BY <1>b, <1>29, Members DEF Settle
  <2>2. \A q \in Procs : pc[q] \in {"release", "advance"} =>
            at[q] \in PayoutIds /\ at[q] # at[w]
    BY <1>b, <2>1
  <2>3. /\ \A q \in Procs : pc'[q] \in {"release", "advance"} => pc'[q] = pc[q] /\ q # w
        /\ \A q \in Procs : q # w => at'[q] = at[q]
        /\ at'[w] = NoPayout
    BY <2>1, <1>29 DEF Settle
  <2>4. \A o \in PayoutIds : o # at[w] => status'[o] = status[o]
    BY <2>1
  <2> HIDE DEF FiringInv, LifecycleTypeOK, FiringDiscipline, Placement, Stages, Enter
  <2> QED BY <2>1, <2>2, <2>3, <2>4
<1>30. ASSUME NEW w \in Workers, Refund(w) PROVE Custody'
  <2>1. /\ at[w] \in PayoutIds /\ status[at[w]] = "TRANSFERRING" /\ w \in Procs
        /\ status' = [status EXCEPT ![at[w]] = "FAILED"]
    BY <1>b, <1>30, Members DEF Refund
  <2>2. Enter(w, "release", at[w]) /\ UNCHANGED <<vote, todo>> /\ pc[w] = "refund"
    BY <1>c, <2>1, <1>30 DEF Refund
  <2>3. \A q \in Procs : pc[q] = "advance" => at[q] # at[w]
    BY <2>1
  <2>4. "FAILED" \in Dead /\ status[at[w]] \in Live
    BY <2>1 DEF Live
  <2> HIDE DEF FiringInv, Custody, Dead
  <2> QED BY <2>1, <2>2, <2>3, <2>4, TakesCustody
<1>31. ASSUME NEW n \in Policies, SetPolicy(n) PROVE Custody'
  BY <1>b, <1>31, Members DEF SetPolicy
<1>32. ASSUME NEW S \in SUBSET Procs, Stop(S) PROVE Custody'
  BY <1>b, <1>32, Members DEF Stop
<1>33. ASSUME Inflow PROVE Custody'
  BY <1>b, <1>33, Members DEF Inflow
<1>34. ASSUME NextMonth PROVE Custody'
  BY <1>b, <1>34, Members DEF NextMonth
<1>35. ASSUME NEW S, NEW H, SetPanel(S, H) PROVE Custody'
  BY <1>b, <1>35, Members DEF SetPanel
<1>36. ASSUME NEW s \in Signatories, Deactivate(s) \/ UpdateSignatory(s) PROVE Custody'
  BY <1>35, <1>36 DEF Deactivate, UpdateSignatory
<1>37. ASSUME NEW r \in Requests, NEW a \in Amounts, Initiate(r, a) PROVE Custody'
  BY <1>b, <1>37, Members DEF Initiate
<1>38. ASSUME NEW r \in Requests, RefuseLock(r) PROVE Custody'
  BY <1>b, <1>38, Members DEF RefuseLock
<1>39. ASSUME NEW p \in PayoutIds, NEW s \in Signatories, LapseLink(p, s) PROVE Custody'
  BY <1>b, <1>39, Members DEF LapseLink
<1> HIDE DEF FiringInv, LifecycleTypeOK, FiringDiscipline, Placement, Stages, Untouched,
        Unattached, Custody, Driving, Dead,
        Enter, Goto, Finish, UpdateStatus, TransitionStatus, Awaiting,
        rowVars, voteVars, policyVars, moneyVars, nombaVars, procVars, localVars
<1> QED
  BY <1>1, <1>2, <1>3, <1>4, <1>5, <1>6, <1>7, <1>8, <1>9, <1>10, <1>11, <1>12, <1>13,
      <1>14, <1>15, <1>16, <1>17, <1>18, <1>19, <1>20, <1>21, <1>22, <1>23, <1>24,
      <1>25, <1>26, <1>27, <1>28, <1>29, <1>30, <1>31, <1>32, <1>33, <1>34,
      <1>36, <1>37, <1>38, <1>39, Members,
      ZenonT(60)
  DEF Next, UserRequest, RequestStep, SweepStep, ExpiryStep, WorkerStep, Environment,
      Abort, Restart

LEMMA CustodyStep ==
  ASSUME ~CancelInFlight PROVE FiringInv /\ Custody /\ [Next]_vars => Custody'
<1>1. CASE UNCHANGED vars
  BY <1>1 DEF vars, Custody, Untouched
<1> QED BY <1>1, CustodyNext

\* Someone is about to give the reservation of p back.
Releasing(p) == \E r \in Procs : pc[r] = "release" /\ at[r] = p

\* A reservation of p is due on the ledger.
Owed(p) == status[p] \in Live \/ Releasing(p)

\* The steps that take a reservation, use it, give it back or leave it stranded.
Turns ==
    \/ \E r \in Requests, p \in PayoutIds : CheckAndLock(r, p)
    \/ \E w \in Workers : Settle(w)
    \/ \E r \in Procs : Release(r)
    \/ \E r \in Sweepers : SweepLock(r) \/ \E p \in PayoutIds : SweepCreate(r, p)
    \/ \E S \in SUBSET Procs : Stop(S)

\* All others leave it where it is, if with somebody else.
Steady ==
    \A p \in PayoutIds : /\ Owed(p)' <=> Owed(p)
                         /\ status'[p] = "NONE" <=> status[p] = "NONE"

\* A payout that becomes dead leaves its reservation with who has made it dead.
LEMMA HandsOver ==
  ASSUME FiringInv, NEW r \in Procs, NEW p \in PayoutIds, NEW x \in Dead, status[p] \in Live,
         status' = [status EXCEPT ![p] = x], pc[r] # "release", Enter(r, "release", p)
  PROVE  Steady
<1>1. /\ pc'[r] = "release" /\ at'[r] = p
      /\ \A q \in Procs : q # r => pc'[q] = pc[q] /\ at'[q] = at[q]
  BY DEF Enter, FiringInv, LifecycleTypeOK
<1>2. status'[p] \in Dead /\ \A o \in PayoutIds : o # p => status'[o] = status[o]
  BY DEF FiringInv, LifecycleTypeOK
<1>3. Owed(p) /\ Owed(p)' /\ status[p] # "NONE" /\ status'[p] # "NONE"
  BY <1>1, <1>2 DEF Owed, Releasing, Live, Dead
<1>4. \A o \in PayoutIds : o # p => (Releasing(o)' <=> Releasing(o))
  BY <1>1 DEF Releasing
<1> QED BY <1>2, <1>3, <1>4 DEF Steady, Owed

\* Every step is of one of the two kinds.
LEMMA SteadyOrTurn ==
  ASSUME ~CancelInFlight, FiringInv, Custody, Next PROVE Steady \/ Turns
<1> DEFINE PostsKept == \A q \in Procs : /\ pc'[q] = "release" <=> pc[q] = "release"
                                         /\ pc[q] = "release" => at'[q] = at[q]
<1>a. /\ status \in [PayoutIds -> Lifecycle!Status] /\ pc \in [Procs -> Pcs]
      /\ at \in [Procs -> PayoutIds \cup {NoPayout}]
  BY DEF FiringInv, LifecycleTypeOK
<1>b. \A r \in Procs : pc[r] \notin Unattached => at[r] \in PayoutIds
  BY Attached DEF FiringInv
<1>c. PostsKept => \A p \in PayoutIds : Releasing(p)' <=> Releasing(p)
  BY DEF Releasing
<1>d. PostsKept /\ UNCHANGED status => Steady
  BY <1>c DEF Steady, Owed
<1>e. \A p \in PayoutIds : \A x \in Live :
          PostsKept /\ status[p] \in Live /\ status' = [status EXCEPT ![p] = x] => Steady
  BY <1>a, <1>c DEF Steady, Owed, Live
<1>f. \A p \in PayoutIds : \A from \in SUBSET Live : \A x \in Live :
          PostsKept /\ TransitionStatus(p, from, x) => Steady
  BY <1>d, <1>e DEF TransitionStatus
<1>g. /\ UNCHANGED procVars => PostsKept
      /\ \A step : \A r \in Procs :
             pc[r] # "release" /\ step # "release" /\ Goto(r, step) => PostsKept
      /\ \A step, o : \A r \in Procs :
             pc[r] # "release" /\ step # "release" /\ Enter(r, step, o) => PostsKept
      /\ \A r \in Procs : pc[r] # "release" /\ Finish(r) => PostsKept
  BY <1>a DEF procVars, Goto, Enter, Finish
<1>h. \A p : \A x \in Dead : \A r \in Procs :
             /\ p \in PayoutIds /\ status[p] \in Live /\ status' = [status EXCEPT ![p] = x]
             /\ pc[r] # "release" /\ Enter(r, "release", p)
             => Steady
  <2> HIDE DEF Steady
  <2> QED BY HandsOver
<1>j. \A r \in Procs : Goto(r, "release") => Enter(r, "release", at[r])
  BY <1>a DEF Goto, Enter
<1>i. \A r \in Procs : pc[r] \in Driving \cup {"settle", "refund"} => status[at[r]] \in Live
  BY DEF FiringInv, FiringDiscipline, Driving, Live
<1> USE DEF rowVars, voteVars, policyVars, moneyVars, nombaVars, localVars, Unattached
<1> HIDE DEF PostsKept
<1>1. ASSUME NEW r \in Requests, NEW p \in PayoutIds, CheckAndLock(r, p)
      PROVE  Steady \/ Turns
  BY <1>1 DEF Turns
<1>2. ASSUME NEW r \in Requests, NEW s \in Signatories, SendEmail(r, s) PROVE Steady \/ Turns
  BY <1>d, <1>g, <1>2, Members DEF SendEmail
<1>3. ASSUME NEW r \in Requests, Advance(r) PROVE Steady \/ Turns
  <2>1. /\ r \in Procs /\ at[r] \in PayoutIds /\ status[at[r]] = "PENDING" /\ pc[r] = "advance"
        /\ TransitionStatus(at[r], {"PENDING"}, "TRANSFERRING") /\ Goto(r, "call")
    BY <1>b, <1>3, Members DEF Advance, Custody
  <2>2. {"PENDING"} \in SUBSET Live /\ "TRANSFERRING" \in Live
    BY DEF Live
  <2> QED BY <1>f, <1>g, <2>1, <2>2
<1>4. ASSUME NEW r \in Requests, NEW p \in PayoutIds, NEW s \in Signatories,
             NEW act \in {"APPROVED", "DECLINED"}, ClickLink(r, p, s, act)
      PROVE  Steady \/ Turns
  BY <1>d, <1>g, <1>4, Members DEF ClickLink
<1>5. ASSUME NEW r \in Requests, LoadPayout(r) PROVE Steady \/ Turns
  BY <1>d, <1>g, <1>5, Members DEF LoadPayout
<1>6. ASSUME NEW r \in Requests, RecordAction(r) PROVE Steady \/ Turns
  BY <1>d, <1>g, <1>6, Members DEF RecordAction
<1>7. ASSUME NEW r \in Requests, Decline(r) PROVE Steady \/ Turns
  <2>1. r \in Procs /\ at[r] \in PayoutIds /\ pc[r] = "decline"
    BY <1>b, <1>7, Members DEF Decline
  <2>2. CASE status[at[r]] \in Awaiting
    <3>1. status[at[r]] \in Live /\ "DECLINED" \in Dead
      BY <2>2 DEF Awaiting, Live, Dead
    <3>2. status' = [status EXCEPT ![at[r]] = "DECLINED"] /\ Goto(r, "release")
      BY <2>2, <1>7 DEF Decline, TransitionStatus
    <3> QED BY <1>h, <1>j, <2>1, <3>1, <3>2
  <2>3. CASE status[at[r]] \notin Awaiting
    BY <1>d, <1>g, <2>1, <2>3, <1>7 DEF Decline, TransitionStatus
  <2> QED BY <2>2, <2>3
<1>8. ASSUME NEW r \in Requests, ReadPolicy(r) PROVE Steady \/ Turns
  BY <1>d, <1>g, <1>8, Members DEF ReadPolicy
<1>9. ASSUME NEW r \in Requests, CheckQuorum(r) PROVE Steady \/ Turns
  BY <1>d, <1>g, <1>9, Members DEF CheckQuorum
<1>10. ASSUME NEW r \in Requests, MarkPartial(r) PROVE Steady \/ Turns
  BY <1>b, <1>f, <1>g, <1>10, Members DEF MarkPartial, Awaiting, Live
<1>11. ASSUME NEW r \in Requests, AnswerInvalid(r) PROVE Steady \/ Turns
  BY <1>d, <1>g, <1>11, Members DEF AnswerInvalid
<1>12. ASSUME NEW r \in Requests, Approve(r) PROVE Steady \/ Turns
  <2>1. r \in Procs /\ at[r] \in PayoutIds /\ pc[r] = "approve"
    BY <1>b, <1>12, Members DEF Approve
  <2>2. CASE status[at[r]] \in Awaiting
    <3>1. status[at[r]] \in Live /\ "APPROVED" \in Live
      BY <2>2 DEF Awaiting, Live, Dead
    <3>2. status' = [status EXCEPT ![at[r]] = "APPROVED"] /\ Goto(r, "start")
      BY <2>2, <1>12 DEF Approve, TransitionStatus
    <3> QED BY <1>e, <1>g, <2>1, <3>1, <3>2
  <2>3. CASE status[at[r]] \notin Awaiting
    BY <1>d, <1>g, <2>1, <2>3, <1>12 DEF Approve, TransitionStatus
  <2> QED BY <2>2, <2>3
<1>13. ASSUME NEW r \in Requests, StartTransfer(r) PROVE Steady \/ Turns
  BY <1>b, <1>f, <1>g, <1>13, Members DEF StartTransfer, Awaiting, Live
<1>14. ASSUME NEW r \in Procs, CallNomba(r) PROVE Steady \/ Turns
  BY <1>d, <1>g, <1>14, Members DEF CallNomba
<1>15. ASSUME NEW r \in Procs, StoreRef(r) PROVE Steady \/ Turns
  BY <1>b, <1>e, <1>g, <1>i, <1>15 DEF StoreRef, UpdateStatus, Driving, Live
<1>16. ASSUME NEW r \in Procs, FailTransfer(r) PROVE Steady \/ Turns
  <2>1. /\ r \in Procs /\ at[r] \in PayoutIds /\ pc[r] = "failed" /\ status[at[r]] = "TRANSFERRING"
    BY <1>b, <1>16, Members DEF FailTransfer, FiringInv, FiringDiscipline
  <2>2. status' = [status EXCEPT ![at[r]] = "FAILED"] /\ Goto(r, "release")
    BY <2>1, <1>16 DEF FailTransfer, TransitionStatus, UpdateStatus
  <2>3. status[at[r]] \in Live /\ "FAILED" \in Dead
    BY <2>1 DEF Live, Dead
  <2> QED BY <1>h, <1>j, <2>1, <2>2, <2>3
<1>17. ASSUME NEW r \in Procs, Release(r) PROVE Steady \/ Turns
  BY <1>17 DEF Turns
<1>18. ASSUME NEW r \in Requests, NEW p \in PayoutIds, LoadCancel(r, p) PROVE Steady \/ Turns
  BY <1>d, <1>g, <1>18, Members DEF LoadCancel
<1>19. ASSUME NEW r \in Requests, Cancel(r) PROVE Steady \/ Turns
  <2>1. r \in Procs /\ at[r] \in PayoutIds /\ pc[r] = "cancel"
    BY <1>b, <1>19, Members DEF Cancel
  <2>2. CASE status[at[r]] \in {"PENDING"}
    <3>1. status[at[r]] \in Live /\ "CANCELLED" \in Dead
      BY <2>2 DEF Awaiting, Live, Dead
    <3>2. status' = [status EXCEPT ![at[r]] = "CANCELLED"] /\ Goto(r, "release")
      BY <2>2, <1>19 DEF Cancel, TransitionStatus
    <3> QED BY <1>h, <1>j, <2>1, <3>1, <3>2
  <2>3. CASE status[at[r]] \notin {"PENDING"}
    BY <1>d, <1>g, <2>1, <2>3, <1>19 DEF Cancel, TransitionStatus
  <2> QED BY <2>2, <2>3
<1>20. ASSUME NEW r \in Expirers, SelectExpired(r) PROVE Steady \/ Turns
  BY <1>d, <1>g, <1>20, Members DEF SelectExpired
<1>21. ASSUME NEW r \in Expirers, Expire(r) PROVE Steady \/ Turns
  <2>1. todo[r] \subseteq PayoutIds /\ r \in Procs /\ pc[r] = "expire"
    BY <1>21, Members DEF Expire, FiringInv, LifecycleTypeOK
  <2>2. CASE UNCHANGED status /\ (Finish(r) \/ UNCHANGED procVars)
    BY <1>d, <1>g, <2>1, <2>2
  <2>3. ASSUME NEW p \in todo[r], status[p] \in Awaiting, Enter(r, "release", p),
               TransitionStatus(p, Awaiting, "EXPIRED")
        PROVE  Steady
    <3>1. status[p] \in Live /\ "EXPIRED" \in Dead /\ p \in PayoutIds
      BY <2>1, <2>3 DEF Awaiting, Live, Dead
    <3>2. status' = [status EXCEPT ![p] = "EXPIRED"]
      BY <2>3 DEF TransitionStatus
    <3> QED BY <1>h, <2>1, <2>3, <3>1, <3>2
  <2> QED BY <1>21, <2>2, <2>3 DEF Expire, TransitionStatus
<1>22. ASSUME NEW r \in Sweepers, SweepRead(r) PROVE Steady \/ Turns
  BY <1>d, <1>g, <1>22, Members DEF SweepRead
<1>23. ASSUME NEW r \in Sweepers, NEW p \in PayoutIds, SweepCreate(r, p) PROVE Steady \/ Turns
  BY <1>23 DEF Turns
<1>24. ASSUME NEW r \in Sweepers, SweepApprove(r) PROVE Steady \/ Turns
  <2>1. /\ r \in Procs /\ at[r] \in PayoutIds /\ pc[r] = "sweepApprove" /\ status[at[r]] \in Live
        /\ status' = [status EXCEPT ![at[r]] = "APPROVED"] /\ Goto(r, "sweepLock")
    BY <1>b, <1>i, <1>24, Members DEF SweepApprove, UpdateStatus, Driving
  <2>2. "APPROVED" \in Live
    BY DEF Live
  <2> QED BY <1>e, <1>g, <2>1, <2>2
<1>25. ASSUME NEW r \in Sweepers, SweepLock(r) PROVE Steady \/ Turns
  BY <1>25 DEF Turns
<1>26. ASSUME NEW r \in Sweepers, SweepFire(r) PROVE Steady \/ Turns
  <2>1. /\ r \in Procs /\ at[r] \in PayoutIds /\ pc[r] = "sweepFire" /\ status[at[r]] \in Live
        /\ status' = [status EXCEPT ![at[r]] = "TRANSFERRING"] /\ Goto(r, "call")
    BY <1>b, <1>i, <1>26, Members DEF SweepFire, UpdateStatus, Driving
  <2>2. "TRANSFERRING" \in Live
    BY DEF Live
  <2> QED BY <1>e, <1>g, <2>1, <2>2
<1>27. ASSUME NEW p \in PayoutIds, NombaConcludes(p) PROVE Steady \/ Turns
  BY <1>d, <1>g, <1>27 DEF NombaConcludes
<1>28. ASSUME NEW w \in Workers, NEW e \in Event, TakeEvent(w, e) PROVE Steady \/ Turns
  <2>1. w \in Procs /\ pc[w] = "idle" /\ UNCHANGED status
    BY <1>28, Members DEF TakeEvent
  <2>2. CASE UNCHANGED procVars
    BY <1>d, <1>g, <2>1, <2>2
  <2>3. CASE \E step \in {"settle", "refund"} : Enter(w, step, e.p)
    BY <1>d, <1>g, <2>1, <2>3
  <2> QED BY <1>28, <2>2, <2>3 DEF TakeEvent
<1>29. ASSUME NEW w \in Workers, Settle(w) PROVE Steady \/ Turns
  BY <1>29 DEF Turns
<1>30. ASSUME NEW w \in Workers, Refund(w) PROVE Steady \/ Turns
  <2>1. /\ w \in Procs /\ at[w] \in PayoutIds /\ pc[w] = "refund" /\ status[at[w]] = "TRANSFERRING"
    BY <1>b, <1>30, Members DEF Refund, FiringInv, FiringDiscipline
  <2>2. status' = [status EXCEPT ![at[w]] = "FAILED"] /\ Goto(w, "release")
    BY <2>1, <1>30 DEF Refund, TransitionStatus, UpdateStatus
  <2>3. status[at[w]] \in Live /\ "FAILED" \in Dead
    BY <2>1 DEF Live, Dead
  <2> QED BY <1>h, <1>j, <2>1, <2>2, <2>3
<1>31. ASSUME NEW n \in Policies, SetPolicy(n) PROVE Steady \/ Turns
  BY <1>d, <1>g, <1>31 DEF SetPolicy
<1>32. ASSUME NEW S \in SUBSET Procs, Stop(S) PROVE Steady \/ Turns
  BY <1>32 DEF Turns
<1>33. ASSUME Inflow PROVE Steady \/ Turns
  BY <1>d, <1>g, <1>33 DEF Inflow
<1>34. ASSUME NextMonth PROVE Steady \/ Turns
  BY <1>d, <1>g, <1>34 DEF NextMonth
<1>35. ASSUME NEW S, NEW H, SetPanel(S, H) PROVE Steady \/ Turns
  BY <1>d, <1>g, <1>35 DEF SetPanel
<1>36. ASSUME NEW s \in Signatories, Deactivate(s) \/ UpdateSignatory(s) PROVE Steady \/ Turns
  BY <1>35, <1>36 DEF Deactivate, UpdateSignatory
<1>37. ASSUME NEW r \in Requests, NEW a \in Amounts, Initiate(r, a) PROVE Steady \/ Turns
  BY <1>d, <1>g, <1>37, Members DEF Initiate
<1>38. ASSUME NEW r \in Requests, RefuseLock(r) PROVE Steady \/ Turns
  BY <1>d, <1>g, <1>38, Members DEF RefuseLock
<1>39. ASSUME NEW p \in PayoutIds, NEW s \in Signatories, LapseLink(p, s) PROVE Steady \/ Turns
  BY <1>d, <1>g, <1>39 DEF LapseLink
<1> HIDE DEF rowVars, voteVars, policyVars, moneyVars, nombaVars, localVars, Unattached
<1> QED
  BY <1>1, <1>2, <1>3, <1>4, <1>5, <1>6, <1>7, <1>8, <1>9, <1>10, <1>11, <1>12, <1>13,
      <1>14, <1>15, <1>16, <1>17, <1>18, <1>19, <1>20, <1>21, <1>22, <1>23, <1>24,
      <1>25, <1>26, <1>27, <1>28, <1>29, <1>30, <1>31, <1>32, <1>33, <1>34,
      <1>36, <1>37, <1>38, <1>39, Members
  DEF Next, UserRequest, RequestStep, SweepStep, ExpiryStep, WorkerStep, Environment,
      Abort, Restart

\* What the payouts of month q's row have reserved, and their sum.
Share(q) == [p \in PayoutIds |-> IF period[p] = q /\ Owed(p) THEN amount[p] ELSE 0]

OwedOn(q) == SumFunctionOnSet(Share(q), PayoutIds)

\* Each row has at least what is owed on it, and exactly that while nobody was
\* stopped half-way; so the fund never promises what it has not got.
LocksInv ==
    /\ \A p \in PayoutIds : status[p] # "NONE" => period[p] \in DOMAIN ledger
    /\ \A q \in DOMAIN ledger : /\ ledger[q].softLock >= OwedOn(q)
                                /\ used.faults = 0 => ledger[q].softLock = OwedOn(q)
    /\ NotOvercommitted

\* A sum of zeros.
LEMMA SumZero ==
  ASSUME NEW f, NEW S, IsFiniteSet(S), \A x \in S : f[x] = 0
  PROVE  SumFunctionOnSet(f, S) = 0
<1>1. SumFunctionOnSet(f, S) = SumFunctionOnSet(f, {})
  BY SumSupport
<1> QED BY <1>1, SumEmpty

\* Only payouts that exist have a reservation due.
LEMMA OwedExists ==
  ASSUME Custody PROVE \A p \in PayoutIds : Owed(p) => status[p] # "NONE"
  BY DEF Custody, Owed, Releasing, Live, Dead

\* What a payout has reserved is covered by its row.
LEMMA Covered ==
  ASSUME IsFiniteSet(PayoutIds), BooksTypeOK, Custody, LocksInv, NEW p \in PayoutIds, Owed(p)
  PROVE  /\ period[p] \in DOMAIN ledger /\ amount[p] \in Nat
         /\ ledger[period[p]].softLock >= amount[p]
<1> DEFINE q == period[p]
           f == Share(q)
<1>1. q \in DOMAIN ledger
  BY OwedExists DEF LocksInv
<1>2. f[p] = amount[p] /\ amount[p] \in Nat /\ \A o \in PayoutIds : f[o] \in Nat
  BY DEF Share, BooksTypeOK
<1> HIDE DEF f
<1>3. SumFunctionOnSet(f, PayoutIds) >= f[p] /\ SumFunctionOnSet(f, PayoutIds) \in Nat
  BY <1>2, SumCovers, SumNat
<1>4. ledger[q].softLock >= SumFunctionOnSet(f, PayoutIds) /\ ledger[q].softLock \in Nat
  BY <1>1, BooksAreLedger, RowFields DEF LocksInv, OwedOn, f
<1> QED BY <1>1, <1>2, <1>3, <1>4

\* The steps that are no turn leave reservations and faults as they are.
LEMMA OthersKeepLocks ==
  ASSUME BooksTypeOK, Next, ~Turns
  PROVE  /\ DOMAIN ledger \subseteq DOMAIN ledger' /\ used'.faults = used.faults
         /\ overlooked' = overlooked
         /\ \A q \in DOMAIN ledger' : ledger'[q].softLock = OldRow(ledger, q).softLock
         /\ \/ UNCHANGED ledger
            \/ /\ IsLedger(ledger') /\ PaidOutKobo(ledger') = PaidOutKobo(ledger)
               /\ SoftLockKobo(ledger') = SoftLockKobo(ledger)
               /\ CollectedKobo(ledger') = CollectedKobo(ledger) + InflowAmount
<1>b. IsLedger(ledger) /\ month \in Months
  BY BooksAreLedger
<1>1. CASE UNCHANGED <<ledger, overlooked>> /\ used'.faults = used.faults
  BY <1>1 DEF OldRow
<1>2. CASE Inflow
  <2>1. ledger' = CreditLedger(ledger, month, InflowAmount, 0) /\ InflowAmount \in Nat
    BY <1>2, PayoutsAssumption DEF Inflow
  <2>2. Credited(ledger, ledger', month, InflowAmount) /\ SameLocks(ledger, ledger')
    BY <1>b, <2>1, CreditAdds
  <2>3. used'.faults = used.faults /\ overlooked' = overlooked
    BY <1>2 DEF Inflow, BooksTypeOK
  <2> QED BY <2>2, <2>3 DEF Credited, SameLocks
<1>3. CASE \/ Quiet
           \/ \E r \in Procs : CallNomba(r)
           \/ \E r \in Requests : RefuseLock(r) \/ \E a \in Amounts : Initiate(r, a)
           \/ \E r \in Sweepers : SweepRead(r)
           \/ \E p \in PayoutIds : NombaConcludes(p)
           \/ \E w \in Workers : \E e \in Event : TakeEvent(w, e)
           \/ NextMonth
           \/ \E n \in Policies : SetPolicy(n)
           \/ \E S, H : SetPanel(S, H)
  BY <1>1, <1>3 DEF Quiet, CallNomba, SweepRead, NombaConcludes, TakeEvent, NextMonth, SetPolicy,
                    SetPanel, Initiate, RefuseLock, moneyVars, BooksTypeOK
<1> QED BY <1>2, <1>3, QuietOrNot DEF Noise, Turns

\* The four totals and the reservations are natural numbers.
LEMMA BooksCount ==
  ASSUME BooksTypeOK
  PROVE  /\ IsLedger(ledger) /\ month \in Months
         /\ \A q \in DOMAIN ledger : ledger[q].softLock \in Nat
         /\ CollectedKobo(ledger) \in Nat /\ PaidOutKobo(ledger) \in Nat
         /\ FeesKobo(ledger) \in Nat /\ SoftLockKobo(ledger) \in Nat
         /\ \A p \in PayoutIds : amount[p] \in Nat
         /\ \A q : \A p \in PayoutIds : Share(q)[p] \in Nat
  BY BooksAreLedger, RowFields, TotalsAreNat DEF BooksTypeOK, Share

\* Every step keeps the reservations.
LEMMA LocksNext ==
  ASSUME IsFiniteSet(PayoutIds), LocksUndisturbed, FiringInv, BooksTypeOK, BooksTypeOK',
         Custody, Custody', LocksInv, Next
  PROVE  LocksInv'
<1>a. /\ IsLedger(ledger) /\ month \in Months
      /\ \A q \in DOMAIN ledger : ledger[q].softLock \in Nat
      /\ CollectedKobo(ledger) \in Nat /\ PaidOutKobo(ledger) \in Nat
      /\ FeesKobo(ledger) \in Nat /\ SoftLockKobo(ledger) \in Nat
      /\ \A p \in PayoutIds : amount[p] \in Nat
      /\ \A q : \A p \in PayoutIds : Share(q)[p] \in Nat
      /\ overlooked \in Nat
  BY BooksCount DEF BooksTypeOK
<1>b. \A q : \A p \in PayoutIds : Share(q)'[p] \in Nat
  BY DEF BooksTypeOK, Share
<1>c. \A p \in PayoutIds : Owed(p) => status[p] # "NONE"
  BY OwedExists
<1>d. \A p \in PayoutIds : status[p] # "NONE" =>
          /\ amount'[p] = amount[p] /\ period'[p] = period[p] /\ period[p] \in DOMAIN ledger
  BY RowsKept DEF LocksInv
<1>e. \A q : q \notin DOMAIN ledger => OwedOn(q) = 0
  <2> TAKE q
  <2> HAVE q \notin DOMAIN ledger
  <2> DEFINE f == Share(q)
  <2>1. \A p \in PayoutIds : f[p] = 0
    BY <1>c, <1>d DEF Share
  <2> HIDE DEF f
  <2>2. SumFunctionOnSet(f, PayoutIds) = 0
    BY <2>1, SumZero
  <2> QED BY <2>2 DEF OwedOn, f
\* One share changes, the others stay.
<1>f. \A q : \A p \in PayoutIds :
          (\A o \in PayoutIds : o # p => Share(q)'[o] = Share(q)[o])
          => OwedOn(q)' = OwedOn(q) + Share(q)'[p] - Share(q)[p]
  <2> TAKE q
  <2> DEFINE f == Share(q)
             g == Share(q)'
  <2>1. /\ \A p \in PayoutIds : f[p] \in Int /\ g[p] \in Int
        /\ OwedOn(q) = SumFunctionOnSet(f, PayoutIds)
        /\ OwedOn(q)' = SumFunctionOnSet(g, PayoutIds)
    BY <1>a, <1>b DEF OwedOn
  <2> HIDE DEF f, g
  <2>2. ASSUME NEW p \in PayoutIds, \A o \in PayoutIds : o # p => g[o] = f[o]
        PROVE  OwedOn(q)' = OwedOn(q) + g[p] - f[p]
    BY <2>1, <2>2, SumChange
  <2> QED BY <2>2 DEF f, g
<1>g. \A q : OwedOn(q) \in Nat
  <2> TAKE q
  <2> DEFINE f == Share(q)
  <2>1. \A p \in PayoutIds : f[p] \in Nat
    BY <1>a
  <2> HIDE DEF f
  <2>2. SumFunctionOnSet(f, PayoutIds) \in Nat
    BY <2>1, SumNat
  <2> QED BY <2>2 DEF OwedOn, f
<1>1. CASE Steady /\ ~Turns
  <2>1. \A q : OwedOn(q)' = OwedOn(q)
    <3> TAKE q
    <3> DEFINE f == Share(q)
               g == Share(q)'
    <3>1. \A p \in PayoutIds : f[p] \in Int /\ g[p] = f[p]
      BY <1>1, <1>a, <1>c, <1>d DEF Share, Steady
    <3>2. OwedOn(q) = SumFunctionOnSet(f, PayoutIds) /\ OwedOn(q)' = SumFunctionOnSet(g, PayoutIds)
      BY DEF OwedOn
    <3> HIDE DEF f, g
    <3> QED BY <3>1, <3>2, SumSame
  <2>2. /\ DOMAIN ledger \subseteq DOMAIN ledger' /\ used'.faults = used.faults
        /\ overlooked' = overlooked
        /\ \A q \in DOMAIN ledger' : ledger'[q].softLock = OldRow(ledger, q).softLock
        /\ \/ UNCHANGED ledger
           \/ /\ IsLedger(ledger') /\ PaidOutKobo(ledger') = PaidOutKobo(ledger)
              /\ SoftLockKobo(ledger') = SoftLockKobo(ledger)
              /\ CollectedKobo(ledger') = CollectedKobo(ledger) + InflowAmount
    BY <1>1, OthersKeepLocks
  <2>3. \A p \in PayoutIds : status'[p] # "NONE" => period'[p] \in DOMAIN ledger'
    BY <1>1, <1>d, <2>2 DEF Steady
  <2>4. \A q \in DOMAIN ledger' : q \notin DOMAIN ledger => ledger'[q].softLock = 0
    BY <2>2 DEF OldRow, EmptyRow
  <2>5. \A q \in DOMAIN ledger : ledger'[q].softLock = ledger[q].softLock
    BY <2>2 DEF OldRow
  <2>6. NotOvercommitted'
    BY <1>a, <2>2, PayoutsAssumption DEF LocksInv, NotOvercommitted
  <2> QED BY <1>e, <2>1, <2>2, <2>3, <2>4, <2>5, <2>6 DEF LocksInv
<1>2. ASSUME NEW r \in Requests, NEW p \in PayoutIds, CheckAndLock(r, p)
      PROVE  LocksInv'
  <2>0. PICK a, m : a = ask[r].amount /\ m = period'[p]
    OBVIOUS
  <2>a. a \in Nat /\ Fee \in Nat /\ m \in DOMAIN ledger
    BY <1>2, <2>0, Granted, PayoutsAssumption
  <2>b. \/ overlooked' = overlooked + a
        \/ overlooked' = overlooked /\ AvailableKobo(ledger) >= a + Fee
    BY <1>2, <2>0, Granted
  <2>1. /\ LocksOnly(ledger, ledger') /\ m \in DOMAIN ledger
        /\ ledger'[m].softLock = ledger[m].softLock + a
        /\ \A q \in DOMAIN ledger \ {m} : ledger'[q].softLock = ledger[q].softLock
        /\ SoftLockKobo(ledger') = SoftLockKobo(ledger) + a
    <3>1. ledger' = Reserve(ledger, m, a)
      BY <1>2, <2>0, Granted
    <3> QED BY <1>a, <2>a, <3>1, ReserveAdds
  <2>2. /\ amount' = [amount EXCEPT ![p] = a] /\ period' = [period EXCEPT ![p] = m]
        /\ status' = [status EXCEPT ![p] = "PENDING"] /\ used' = used /\ status[p] = "NONE"
    BY <1>2, <2>0, Granted DEF CheckAndLock, UpdateStatus
  <2>3. /\ ~Owed(p) /\ Owed(p)' /\ \A o \in PayoutIds : o # p => (Owed(o)' <=> Owed(o))
    <3>1. status'[p] = "PENDING" /\ \A o \in PayoutIds : o # p => status'[o] = status[o]
      BY <2>2 DEF FiringInv, LifecycleTypeOK
    <3>2. \A o \in PayoutIds : Releasing(o)' <=> Releasing(o)
      <4>1. /\ pc[r] = "lock" /\ pc'[r] # "release"
            /\ \A q \in Procs : q # r => pc'[q] = pc[q] /\ at'[q] = at[q]
        BY <1>2, Members DEF CheckAndLock, Enter, FiringInv, LifecycleTypeOK
      <4> QED BY <4>1 DEF Releasing
    <3> QED BY <1>c, <2>2, <3>1, <3>2 DEF Owed, Live
  <2>4. /\ \A q : \A o \in PayoutIds : o # p => Share(q)'[o] = Share(q)[o]
        /\ \A q : Share(q)[p] = 0
        /\ \A q : Share(q)'[p] = IF q = m THEN a ELSE 0
    BY <2>2, <2>3 DEF Share, BooksTypeOK
  <2>5. \A q : OwedOn(q)' = OwedOn(q) + (IF q = m THEN a ELSE 0)
    BY <1>f, <1>g, <2>a, <2>4
  <2>6. \A q \in DOMAIN ledger' : q \in DOMAIN ledger
    BY <2>1 DEF LocksOnly
  <2>7. \A o \in PayoutIds : status'[o] # "NONE" => period'[o] \in DOMAIN ledger'
    BY <1>d, <2>1, <2>2 DEF LocksOnly, FiringInv, LifecycleTypeOK, BooksTypeOK
  <2>8. \A q \in DOMAIN ledger' : /\ ledger'[q].softLock >= OwedOn(q)'
                                  /\ used'.faults = 0 => ledger'[q].softLock = OwedOn(q)'
    BY <1>a, <1>g, <2>a, <2>1, <2>2, <2>5, <2>6 DEF LocksInv
  <2>9. NotOvercommitted'
    <3>1. /\ CollectedKobo(ledger') = CollectedKobo(ledger) /\ PaidOutKobo(ledger') = PaidOutKobo(ledger)
          /\ NotOvercommitted
      BY <2>1, OtherTotals DEF LocksInv
    <3>2. CASE overlooked' = overlooked + a
      BY <1>a, <2>a, <2>1, <3>1, <3>2 DEF NotOvercommitted
    <3>3. CASE overlooked' = overlooked /\ AvailableKobo(ledger) >= a + Fee
      BY <1>a, <2>a, <2>1, <3>1, <3>3 DEF NotOvercommitted, AvailableKobo, FloorZero
    <3> QED BY <2>b, <3>2, <3>3
  <2> QED BY <2>7, <2>8, <2>9 DEF LocksInv
\* A reservation that is no longer due leaves the row it was due on.
<1>h. ASSUME NEW p \in PayoutIds, Owed(p), ~Owed(p)',
             \A o \in PayoutIds : o # p => (Owed(o)' <=> Owed(o)),
             UNCHANGED <<amount, period, used>>,
             \A o \in PayoutIds : status'[o] # "NONE" => status[o] # "NONE",
             DOMAIN ledger \subseteq DOMAIN ledger', LockTaken(ledger, ledger', period[p], amount[p]),
             NotOvercommitted'
      PROVE  LocksInv'
  <2> DEFINE t == period[p]
  <2>1. t \in DOMAIN ledger /\ amount[p] \in Nat
    BY <1>h, Covered
  <2>2. /\ \A q : \A o \in PayoutIds : o # p => Share(q)'[o] = Share(q)[o]
        /\ \A q : Share(q)[p] = IF q = t THEN amount[p] ELSE 0
        /\ \A q : Share(q)'[p] = 0
    BY <1>h DEF Share
  <2> HIDE DEF t
  <2>3. \A q : OwedOn(q)' = OwedOn(q) - (IF q = t THEN amount[p] ELSE 0)
    BY <1>f, <1>g, <2>1, <2>2
  <2>4. /\ ledger'[t].softLock = ledger[t].softLock - amount[p]
        /\ \A q \in DOMAIN ledger' \ {t} : ledger'[q].softLock = OldRow(ledger, q).softLock
    BY <1>h DEF LockTaken, t
  <2>5. \A q \in DOMAIN ledger' : q \notin DOMAIN ledger =>
            ledger'[q].softLock = 0 /\ OwedOn(q)' = 0
    BY <1>e, <2>1, <2>3, <2>4 DEF OldRow, EmptyRow
  <2>6. \A q \in DOMAIN ledger : q # t => ledger'[q].softLock = ledger[q].softLock
    BY <1>h, <2>4 DEF OldRow
  <2>7. \A q \in DOMAIN ledger' : /\ ledger'[q].softLock >= OwedOn(q)'
                                  /\ used'.faults = 0 => ledger'[q].softLock = OwedOn(q)'
    <3> TAKE q \in DOMAIN ledger'
    <3>1. CASE q \notin DOMAIN ledger
      BY <2>5, <3>1
    <3>2. CASE q = t
      BY <1>a, <1>g, <1>h, <2>1, <2>3, <2>4, <3>2 DEF LocksInv
    <3>3. CASE q \in DOMAIN ledger /\ q # t
      BY <1>g, <1>h, <2>3, <2>6, <3>3 DEF LocksInv
    <3> QED BY <3>1, <3>2, <3>3
  <2>8. \A o \in PayoutIds : status'[o] # "NONE" => period'[o] \in DOMAIN ledger'
    BY <1>d, <1>h
  <2> QED BY <1>h, <2>7, <2>8 DEF LocksInv
<1>3. ASSUME NEW w \in Workers, Settle(w) PROVE LocksInv'
  <2>0. PICK p : p = at[w]
    OBVIOUS
  <2>1. /\ p \in PayoutIds /\ status[p] = "TRANSFERRING" /\ pc[w] = "settle" /\ w \in Procs
        /\ UNCHANGED <<amount, period, used, overlooked>>
        /\ status' = [status EXCEPT ![p] = "TRANSFERRED"] /\ Finish(w)
        /\ ledger' = DebitLedger(ledger, month, amount[p], Fee, period[p])
    BY <1>3, <2>0, Attached, Members
    DEF Settle, Unattached, UpdateStatus, FiringInv, FiringDiscipline
  <2>2. status'[p] = "TRANSFERRED" /\ \A o \in PayoutIds : o # p => status'[o] = status[o]
    BY <2>1 DEF FiringInv, LifecycleTypeOK
  <2>3. \A o \in PayoutIds : Releasing(o)' <=> Releasing(o)
    BY <2>1 DEF Releasing, Finish, Enter, FiringInv, LifecycleTypeOK
  <2>4. Owed(p) /\ ~Owed(p)' /\ \A o \in PayoutIds : o # p => (Owed(o)' <=> Owed(o))
    BY <2>1, <2>2, <2>3 DEF Owed, Live, Releasing, Custody, Dead
  <2>5. period[p] \in DOMAIN ledger /\ amount[p] \in Nat /\ ledger[period[p]].softLock >= amount[p]
    BY <2>1, <2>4, Covered
  <2>6. Fee \in Nat
    BY PayoutsAssumption
  <2>7. LockTaken(ledger, ledger', period[p], amount[p])
    BY <1>a, <2>1, <2>5, <2>6, DebitReleases
  <2>8. PaidOut(ledger, ledger', month, amount[p])
    BY <1>a, <2>1, <2>5, <2>6, DebitTotals
  <2>9. NotOvercommitted'
    BY <1>a, <2>1, <2>5, <2>7, <2>8 DEF LocksInv, NotOvercommitted, LockTaken, PaidOut
  <2>10. DOMAIN ledger \subseteq DOMAIN ledger'
    BY <2>8 DEF PaidOut
  <2> QED BY <1>h, <2>1, <2>2, <2>4, <2>7, <2>9, <2>10
<1>4. ASSUME NEW r \in Procs, Release(r) PROVE LocksInv'
  <2>0. PICK p : p = at[r]
    OBVIOUS
  <2>1. /\ p \in PayoutIds /\ pc[r] = "release" /\ status[p] \in Dead
        /\ UNCHANGED <<amount, period, used, status, overlooked>>
        /\ (Finish(r) \/ Enter(r, "expire", NoPayout))
        /\ ledger' = ReleaseLock(ledger, amount[p], period[p])
    BY <1>4, <2>0, Attached DEF Release, Unattached, FiringInv, Custody, rowVars
  <2>2. /\ pc'[r] # "release" /\ \A q \in Procs : q # r => pc'[q] = pc[q] /\ at'[q] = at[q]
        /\ \A q \in Procs : pc[q] = "release" /\ at[q] = p => q = r
    <3>1. pc'[r] # "release" /\ \A q \in Procs : q # r => pc'[q] = pc[q] /\ at'[q] = at[q]
      BY <2>1 DEF Finish, Enter, FiringInv, LifecycleTypeOK
    <3>2. \A q \in Procs : pc[q] = "release" /\ at[q] = p => q = r
      BY <2>0, <2>1 DEF Custody
    <3> QED BY <3>1, <3>2
  <2>4. Owed(p) /\ ~Owed(p)' /\ \A o \in PayoutIds : o # p => (Owed(o)' <=> Owed(o))
    BY <2>0, <2>1, <2>2 DEF Owed, Live, Releasing, Dead
  <2>5. period[p] \in DOMAIN ledger /\ amount[p] \in Nat /\ ledger[period[p]].softLock >= amount[p]
    BY <2>1, <2>4, Covered
  <2>6. /\ LocksOnly(ledger, ledger')
        /\ ledger'[period[p]].softLock = ledger[period[p]].softLock - amount[p]
        /\ \A q \in DOMAIN ledger \ {period[p]} : ledger'[q].softLock = ledger[q].softLock
        /\ SoftLockKobo(ledger') = SoftLockKobo(ledger) - amount[p]
    BY <1>a, <2>1, <2>5, ReleaseSubtracts
  <2>7. LockTaken(ledger, ledger', period[p], amount[p]) /\ DOMAIN ledger \subseteq DOMAIN ledger'
    BY <2>6 DEF LockTaken, LocksOnly, OldRow
  <2>8. NotOvercommitted'
    BY <1>a, <2>1, <2>5, <2>6, OtherTotals DEF LocksInv, NotOvercommitted
  <2> QED BY <1>h, <2>1, <2>4, <2>7, <2>8
<1>5. ASSUME NEW S \in SUBSET Procs, Stop(S) PROVE LocksInv'
  <2>1. UNCHANGED <<amount, period, ledger, status, overlooked>> /\ used'.faults # 0
    BY <1>5, PayoutsAssumption DEF Stop, rowVars, moneyVars, BooksTypeOK
  <2>2. \A r \in Procs : pc'[r] = "release" => pc[r] = "release" /\ at'[r] = at[r]
    BY <1>5 DEF Stop
  <2>3. \A p \in PayoutIds : Owed(p)' => Owed(p)
    BY <2>1, <2>2 DEF Owed, Releasing
  <2>4. \A q : OwedOn(q)' <= OwedOn(q)
    <3> TAKE q
    <3> DEFINE f == Share(q)
               g == Share(q)'
    <3>1. \A p \in PayoutIds : f[p] \in Int /\ g[p] \in Int /\ g[p] <= f[p]
      BY <1>a, <2>1, <2>3 DEF Share
    <3>2. OwedOn(q) = SumFunctionOnSet(f, PayoutIds) /\ OwedOn(q)' = SumFunctionOnSet(g, PayoutIds)
      BY DEF OwedOn
    <3> HIDE DEF f, g
    <3> QED BY <3>1, <3>2, SumMonotone
  <2>5. \A q : OwedOn(q)' \in Int
    <3> TAKE q
    <3> DEFINE g == Share(q)'
    <3>1. \A p \in PayoutIds : g[p] \in Int
      BY <1>b
    <3>2. OwedOn(q)' = SumFunctionOnSet(g, PayoutIds)
      BY DEF OwedOn
    <3> HIDE DEF g
    <3> QED BY <3>1, <3>2, SumInt
  <2> QED BY <1>a, <1>g, <2>1, <2>4, <2>5 DEF LocksInv, NotOvercommitted
<1> QED BY <1>1, <1>2, <1>3, <1>4, <1>5, SteadyOrTurn DEF Turns, LocksUndisturbed

\* Nothing is owed and nothing reserved when the behaviour starts.
LEMMA LocksInit == ASSUME IsFiniteSet(PayoutIds), Init PROVE Custody /\ LocksInv
<1>1. \A p \in PayoutIds : status[p] = "NONE" /\ ~Owed(p)
  BY DEF Init, Owed, Releasing, Live
<1>2. Custody
  BY DEF Init, Custody
<1>3. /\ DOMAIN ledger = {1} /\ ledger[1].softLock = 0 /\ ledger[1].paidOut = 0
      /\ ledger[1].collected = InitialBalance /\ InitialBalance \in Nat /\ overlooked = 0
  BY PayoutsAssumption DEF Init, EmptyRow
<1>4. OwedOn(1) = 0
  <2> DEFINE f == Share(1)
  <2>1. \A p \in PayoutIds : f[p] = 0
    BY <1>1 DEF Share
  <2> HIDE DEF f
  <2>2. SumFunctionOnSet(f, PayoutIds) = 0
    BY <2>1, SumZero
  <2> QED BY <2>2 DEF OwedOn, f
<1>5. \A f : DOMAIN f = {1} /\ f[1] \in Int => SumFunction(f) = f[1]
  BY SumSingle DEF SumFunction
<1>6. NotOvercommitted
  <2> DEFINE f == [q \in DOMAIN ledger |-> ledger[q].softLock]
             g == [q \in DOMAIN ledger |-> ledger[q].paidOut]
             h == [q \in DOMAIN ledger |-> ledger[q].collected]
  <2>1. /\ DOMAIN f = {1} /\ DOMAIN g = {1} /\ DOMAIN h = {1}
        /\ f[1] = 0 /\ g[1] = 0 /\ h[1] = InitialBalance
    BY <1>3
  <2>2. /\ SoftLockKobo(ledger) = SumFunction(f) /\ PaidOutKobo(ledger) = SumFunction(g)
        /\ CollectedKobo(ledger) = SumFunction(h)
    BY DEF SoftLockKobo, PaidOutKobo, CollectedKobo
  <2> HIDE DEF f, g, h
  <2> QED BY <1>3, <1>5, <2>1, <2>2 DEF NotOvercommitted
<1> QED BY <1>1, <1>2, <1>3, <1>4, <1>6 DEF LocksInv

\* Who holds what, in every reachable state.
LEMMA LocksInvariant ==
  ASSUME OneWorker, LocksUndisturbed, IsFiniteSet(PayoutIds)
  PROVE  Spec => [](FiringInv /\ BooksTypeOK /\ Custody /\ LocksInv)
<1>a. SweepsUndisturbed
  BY DEF LocksUndisturbed, SweepsUndisturbed
<1>1. FiringInv /\ Custody /\ [Next]_vars => Custody'
  BY CustodyStep DEF LocksUndisturbed
<1>2. FiringInv /\ BooksTypeOK /\ BooksTypeOK' /\ Custody /\ Custody' /\ LocksInv /\ [Next]_vars
        => LocksInv'
  <2>1. CASE Next
    BY <2>1, LocksNext
  <2>2. CASE UNCHANGED vars
    BY <2>2 DEF vars, LocksInv, OwedOn, Share, Owed, Releasing, NotOvercommitted
  <2> QED BY <2>1, <2>2
<1>3. Init => Custody /\ LocksInv
  BY LocksInit
<1>4. Spec => []FiringInv
  BY <1>a, FiringInvariant
<1>5. Spec => []BooksTypeOK
  BY <1>a, BooksAreTyped
<1> QED
  BY <1>1, <1>2, <1>3, <1>4, <1>5, PTL DEF Spec

\* The fund promises or pays more than members put in only by what was granted
\* while a row of the fund was missing from what the check had found: in every
\* other overlap an administrator whose check passes takes only what no other
\* payout has reserved, whatever settles, fails or is given back meanwhile
\* (ledger.service.ts checkAndLock; the exception is its line 159, where a debit
\* inserts the row of a new month after the SELECT has started).
THEOREM FundNotOvercommitted ==
  ASSUME OneWorker, LocksUndisturbed, IsFiniteSet(PayoutIds)
  PROVE  Spec => []NotOvercommitted
<1>1. LocksInv => NotOvercommitted
  BY DEF LocksInv
<1> QED BY <1>1, LocksInvariant, PTL

\* While nobody is stopped half-way each row's soft lock is exactly what the
\* payouts reserved on it hold: nothing is given back twice, on another month's
\* row or not at all (ledger.service.ts releaseLock).
THEOREM LocksConserved ==
  ASSUME OneWorker, LocksUndisturbed, IsFiniteSet(PayoutIds)
  PROVE  Spec => []LockConservation
<1>1. BooksTypeOK /\ Custody /\ LocksInv => LockConservation
  <2> SUFFICES ASSUME BooksTypeOK, Custody, LocksInv, used.faults = 0, NEW q \in DOMAIN ledger
               PROVE  ledger[q].softLock =
                        SumFunctionOnSet([p \in PayoutIds |-> Held(p)], {p \in PayoutIds : period[p] = q})
    BY DEF LockConservation
  <2> DEFINE f == Share(q)
             g == [p \in PayoutIds |-> Held(p)]
             T == {p \in PayoutIds : period[p] = q}
  <2>1. \A p \in PayoutIds : Held(p) = IF Owed(p) THEN amount[p] ELSE 0
    <3> TAKE p \in PayoutIds
    <3> DEFINE R == {r \in Procs : pc[r] = "release" /\ at[r] = p}
               n == Cardinality(R)
               live == IF status[p] \in Live THEN 1 ELSE 0
    <3>1. amount[p] \in Nat /\ Held(p) = amount[p] * (n + live)
      BY DEF BooksTypeOK, Held
    <3>2. CASE Releasing(p)
      <4>1. PICK r \in Procs : R = {r}
        BY <3>2 DEF Releasing, Custody
      <4>2. n = 1 /\ live = 0
        <5>1. n = 1
          BY <4>1, FS_Singleton
        <5>2. status[p] \in Dead
          BY <3>2 DEF Releasing, Custody
        <5> QED BY <5>1, <5>2 DEF Live, Dead
      <4>3. Owed(p)
        BY <3>2 DEF Owed
      <4> HIDE DEF n, live
      <4>4. n + live = 1
        BY <4>2
      <4> QED BY <3>1, <4>3, <4>4
    <3>3. CASE ~Releasing(p)
      <4>1. R = {}
        BY <3>3 DEF Releasing
      <4>2. n = 0
        BY <4>1, FS_EmptySet
      <4>3. live = IF Owed(p) THEN 1 ELSE 0
        BY <3>3 DEF Owed
      <4> HIDE DEF n, live
      <4>4. n + live = IF Owed(p) THEN 1 ELSE 0
        BY <4>2, <4>3
      <4> QED BY <3>1, <4>4
    <3> QED BY <3>2, <3>3
  <2>2. /\ \A p \in PayoutIds : f[p] \in Int
        /\ \A p \in T : f[p] = g[p]
        /\ \A p \in PayoutIds \ T : f[p] = 0
        /\ T \in SUBSET PayoutIds
    BY <2>1 DEF Share, BooksTypeOK
  <2>3. ledger[q].softLock = SumFunctionOnSet(f, PayoutIds)
    BY DEF LocksInv, OwedOn
  <2>4. IsFiniteSet(T)
    BY FS_Subset
  <2> HIDE DEF f, g, T
  <2>5. SumFunctionOnSet(f, PayoutIds) = SumFunctionOnSet(f, T)
    BY <2>2, SumSupport
  <2>6. SumFunctionOnSet(f, T) = SumFunctionOnSet(g, T)
    BY <2>2, <2>4, SumSame
  <2> QED BY <2>3, <2>5, <2>6 DEF g, T
<1> QED BY <1>1, LocksInvariant, PTL

\* Whoever stops wherever: a payout that is still live is never without its
\* reservation (ledger.service.ts releaseLock, debitLedger).
THEOREM LivePayoutsCovered ==
  ASSUME OneWorker, LocksUndisturbed, IsFiniteSet(PayoutIds)
  PROVE  Spec => []LocksCoverLive
<1>1. BooksTypeOK /\ LocksInv => LocksCoverLive
  <2> SUFFICES ASSUME BooksTypeOK, LocksInv, NEW q \in DOMAIN ledger
               PROVE  ledger[q].softLock >=
                        SumFunctionOnSet(amount, {p \in PayoutIds : period[p] = q /\ status[p] \in Live})
    BY DEF LocksCoverLive
  <2> DEFINE f == Share(q)
             T == {p \in PayoutIds : period[p] = q /\ status[p] \in Live}
             g == [p \in PayoutIds |-> IF p \in T THEN amount[p] ELSE 0]
  <2>1. /\ \A p \in PayoutIds : f[p] \in Int /\ g[p] \in Int /\ g[p] <= f[p]
        /\ \A p \in T : g[p] = amount[p]
        /\ \A p \in PayoutIds \ T : g[p] = 0
        /\ T \in SUBSET PayoutIds
    BY DEF Share, Owed, BooksTypeOK
  <2>2. ledger[q].softLock >= SumFunctionOnSet(f, PayoutIds) /\ ledger[q].softLock \in Nat
    BY BooksCount DEF LocksInv, OwedOn
  <2>3. IsFiniteSet(T)
    BY FS_Subset
  <2> HIDE DEF f, g, T
  <2>4. SumFunctionOnSet(g, PayoutIds) <= SumFunctionOnSet(f, PayoutIds)
    BY <2>1, SumMonotone
  <2>5. SumFunctionOnSet(g, PayoutIds) = SumFunctionOnSet(g, T)
    BY <2>1, SumSupport
  <2>6. SumFunctionOnSet(g, T) = SumFunctionOnSet(amount, T)
    BY <2>1, <2>3, SumSame
  <2>7. /\ SumFunctionOnSet(f, PayoutIds) \in Int /\ SumFunctionOnSet(g, PayoutIds) \in Int
    BY <2>1, SumInt
  <2> QED BY <2>2, <2>4, <2>5, <2>6, <2>7 DEF T
<1> QED BY <1>1, LocksInvariant, PTL

\* A sweep whose payout has no reservation yet: it is taken after the row is
\* created and approved, by a statement of its own.
Unlocked(p) == \E r \in Sweepers : pc[r] \in {"sweepApprove", "sweepLock"} /\ at[r] = p

\* What each payout has on the fund's rows, and all of them together.
Claim == [p \in PayoutIds |-> IF Owed(p) /\ ~Unlocked(p) THEN amount[p] ELSE 0]

Claimed == SumFunctionOnSet(Claim, PayoutIds)

\* While nobody was stopped half-way the fund's rows together hold what is owed
\* on them.  Each row need not: a sweep's payout does not name the row it was
\* reserved on, and its release may go to another.
FundCovers == used.faults = 0 => SoftLockKobo(ledger) >= Claimed

\* With a single month's row it cannot, and nothing is left over.
FundExact == used.faults = 0 /\ MaxMonth = 1 => SoftLockKobo(ledger) = Claimed

FundInv == DOMAIN ledger # {} /\ FundCovers /\ FundExact

\* Only one executor moves at a time, unless some are stopped.
LEMMA OneMoves ==
  ASSUME FiringInv, Next, ~\E S \in SUBSET Procs : Stop(S)
  PROVE  \/ UNCHANGED procVars
         \/ \E r \in (Requests \cup Expirers \cup Workers) :
                \A q \in Procs : q # r => pc'[q] = pc[q] /\ at'[q] = at[q]
         \/ \E r \in Sweepers :
                /\ \A q \in Procs : q # r => pc'[q] = pc[q] /\ at'[q] = at[q]
                /\ \/ SweepRead(r) \/ (\E p \in PayoutIds : SweepCreate(r, p))
                   \/ SweepApprove(r) \/ SweepLock(r) \/ SweepFire(r)
                   \/ CallNomba(r) \/ StoreRef(r) \/ FailTransfer(r) \/ Release(r)
<1> DEFINE Alone(r) == \A q \in Procs : q # r => pc'[q] = pc[q] /\ at'[q] = at[q]
<1>a. /\ \A r, step, p : Enter(r, step, p) => Alone(r)
      /\ \A r, step : Goto(r, step) => Alone(r)
      /\ \A r : Finish(r) => Alone(r)
      /\ \A r : UNCHANGED procVars => Alone(r)
  BY DEF Enter, Goto, Finish, procVars, FiringInv, LifecycleTypeOK
<1> HIDE DEF Alone
<1>1. ASSUME NEW r \in Requests, UserRequest(r) \/ RequestStep(r) PROVE Alone(r)
  <2>1. CASE UserRequest(r)
    BY <1>a, <2>1 DEF UserRequest, Initiate, ClickLink, LoadCancel
  <2>2. CASE \E s \in Signatories : SendEmail(r, s)
    BY <1>a, <2>2 DEF SendEmail
  <2>3. CASE \/ (\E p \in PayoutIds : CheckAndLock(r, p)) \/ RefuseLock(r)
             \/ Advance(r) \/ LoadPayout(r) \/ RecordAction(r) \/ Decline(r) \/ ReadPolicy(r)
             \/ CheckQuorum(r) \/ MarkPartial(r) \/ AnswerInvalid(r) \/ Approve(r)
    BY <1>a, <2>3 DEF CheckAndLock, RefuseLock, Advance, LoadPayout, RecordAction, Decline, ReadPolicy, CheckQuorum,
                      MarkPartial, AnswerInvalid, Approve
  <2>4. CASE \/ StartTransfer(r) \/ CallNomba(r) \/ StoreRef(r) \/ FailTransfer(r)
             \/ Release(r) \/ Cancel(r)
    BY <1>a, <2>4 DEF StartTransfer, CallNomba, StoreRef, FailTransfer, Release, Cancel
  <2> QED BY <1>1, <2>1, <2>2, <2>3, <2>4 DEF RequestStep
<1>2. ASSUME NEW r \in Expirers, SelectExpired(r) \/ ExpiryStep(r) PROVE Alone(r)
  BY <1>a, <1>2 DEF SelectExpired, ExpiryStep, Expire, Release
<1>3. ASSUME NEW w \in Workers, (\E e \in Event : TakeEvent(w, e)) \/ WorkerStep(w) PROVE Alone(w)
  BY <1>a, <1>3 DEF TakeEvent, WorkerStep, Settle, Refund, Release
<1>4. ASSUME NEW r \in Sweepers, SweepRead(r) \/ SweepStep(r)
      PROVE  /\ Alone(r)
             /\ \/ SweepRead(r) \/ (\E p \in PayoutIds : SweepCreate(r, p))
                \/ SweepApprove(r) \/ SweepLock(r) \/ SweepFire(r)
                \/ CallNomba(r) \/ StoreRef(r) \/ FailTransfer(r) \/ Release(r)
  <2>1. Alone(r)
    BY <1>a, <1>4 DEF SweepRead, SweepStep, SweepCreate, SweepApprove, SweepLock, SweepFire,
                      CallNomba, StoreRef, FailTransfer, Release
  <2> QED BY <1>4, <2>1 DEF SweepStep
<1>5. CASE (\E p \in PayoutIds : NombaConcludes(p)) \/ Environment
  BY <1>5 DEF NombaConcludes, Environment, Inflow, NextMonth, SetPolicy, Deactivate,
              UpdateSignatory, SetPanel, LapseLink, Abort, Restart
<1> QED BY <1>1, <1>2, <1>3, <1>4, <1>5 DEF Next, Alone

\* A sweep's payout gets its reservation in one step, and only there.
LEMMA LockedBySweep ==
  ASSUME FiringInv, Next, ~Turns
  PROVE  \A p \in PayoutIds : Unlocked(p)' <=> Unlocked(p)
<1> DEFINE Kept(q) == LET S == {"sweepApprove", "sweepLock"} IN
                      (pc'[q] \in S <=> pc[q] \in S) /\ (pc[q] \in S => at'[q] = at[q])
<1> SUFFICES \A q \in Sweepers : Kept(q)
  BY DEF Unlocked
<1>a. pc \in [Procs -> Pcs] /\ at \in [Procs -> PayoutIds \cup {NoPayout}]
  BY DEF FiringInv, LifecycleTypeOK
<1>b. (Requests \cup Expirers \cup Workers) \cap Sweepers = {}
  BY PayoutsAssumption
<1>c. ~\E S \in SUBSET Procs : Stop(S)
  BY DEF Turns
<1>1. CASE UNCHANGED procVars
  BY <1>1 DEF procVars
<1>2. CASE \E r \in (Requests \cup Expirers \cup Workers) :
               \A q \in Procs : q # r => pc'[q] = pc[q] /\ at'[q] = at[q]
  BY <1>b, <1>2, Members
<1>3. ASSUME NEW r \in Sweepers, \A q \in Procs : q # r => pc'[q] = pc[q] /\ at'[q] = at[q],
             \/ SweepRead(r) \/ (\E p \in PayoutIds : SweepCreate(r, p))
             \/ SweepApprove(r) \/ SweepLock(r) \/ SweepFire(r)
             \/ CallNomba(r) \/ StoreRef(r) \/ FailTransfer(r) \/ Release(r)
      PROVE  \A q \in Sweepers : Kept(q)
  <2>1. \/ SweepRead(r) \/ SweepApprove(r) \/ SweepFire(r)
        \/ CallNomba(r) \/ StoreRef(r) \/ FailTransfer(r)
    BY <1>3, Members DEF Turns
  <2>2. Kept(r)
    BY <1>a, <2>1, Members DEF SweepRead, SweepApprove, SweepFire, CallNomba, StoreRef, FailTransfer,
                               Goto, Finish, Enter
  <2> QED BY <1>3, <2>2, Members
<1> HIDE DEF Kept
<1> QED BY <1>c, <1>1, <1>2, <1>3, OneMoves

\* Every step keeps the fund's reservations together.
LEMMA FundNext ==
  ASSUME IsFiniteSet(PayoutIds), ~CancelInFlight, FiringInv, BooksTypeOK, BooksTypeOK', Custody,
         FundInv, Next
  PROVE  FundInv'
<1>a. /\ IsLedger(ledger) /\ month \in Months /\ SoftLockKobo(ledger) \in Nat
      /\ \A p \in PayoutIds : amount[p] \in Nat
  BY BooksCount
<1>b. /\ \A p \in PayoutIds : Claim[p] \in Nat /\ Claim'[p] \in Nat
      /\ Claimed \in Nat
  <2> DEFINE f == Claim
  <2>1. \A p \in PayoutIds : Claim[p] \in Nat /\ Claim'[p] \in Nat
    BY DEF BooksTypeOK, Claim
  <2>2. \A p \in PayoutIds : f[p] \in Nat
    BY <2>1
  <2> HIDE DEF f
  <2>3. SumFunctionOnSet(f, PayoutIds) \in Nat
    BY <2>2, SumNat
  <2> QED BY <2>1, <2>3 DEF Claimed, f
<1>c. \A p \in PayoutIds : Owed(p) => status[p] # "NONE"
  BY OwedExists
<1>d. \A p \in PayoutIds : status[p] # "NONE" => amount'[p] = amount[p]
  BY RowsKept
<1>e. \A p \in PayoutIds : Unlocked(p) => status[p] \in {"PENDING", "APPROVED"}
  BY Members DEF Unlocked, FiringInv, FiringDiscipline
<1>f. \A r \in Procs : pc[r] \notin Unattached => at[r] \in PayoutIds
  BY Attached DEF FiringInv
<1>g. \A p \in PayoutIds : Claimed >= Claim[p]
  <2> DEFINE f == Claim
  <2>1. \A p \in PayoutIds : f[p] \in Nat
    BY <1>b
  <2> HIDE DEF f
  <2>2. \A p \in PayoutIds : SumFunctionOnSet(f, PayoutIds) >= f[p]
    BY <2>1, SumCovers
  <2> QED BY <2>2 DEF Claimed, f
\* One claim changes, the others stay.
<1>h. ASSUME NEW p \in PayoutIds, \A o \in PayoutIds : o # p => Claim'[o] = Claim[o]
      PROVE  Claimed' = Claimed + Claim'[p] - Claim[p]
  <2> DEFINE f == Claim
             g == Claim'
  <2>1. /\ \A o \in PayoutIds : f[o] \in Int /\ g[o] \in Int
        /\ \A o \in PayoutIds \ {p} : g[o] = f[o]
        /\ Claimed = SumFunctionOnSet(f, PayoutIds) /\ Claimed' = SumFunctionOnSet(g, PayoutIds)
    BY <1>b, <1>h DEF Claimed
  <2> HIDE DEF f, g
  <2>2. Claimed' = Claimed + g[p] - f[p]
    BY <2>1, SumChange
  <2> QED BY <2>2 DEF f, g
\* Who has nothing to do with p moves no other claim.
<1>i. ASSUME NEW r \in Procs, NEW p \in PayoutIds,
             \A q \in Procs : q # r => pc'[q] = pc[q] /\ at'[q] = at[q],
             at[r] \in {p, NoPayout}, at'[r] \in {p, NoPayout},
             \A o \in PayoutIds : o # p => status'[o] = status[o]
      PROVE  \A o \in PayoutIds : o # p => Claim'[o] = Claim[o]
  <2> SUFFICES ASSUME NEW o \in PayoutIds, o # p PROVE Claim'[o] = Claim[o]
    OBVIOUS
  <2>1. at[r] # o /\ at'[r] # o
    BY <1>i, PayoutsAssumption
  <2>2. /\ Releasing(o)' <=> Releasing(o)
        /\ Unlocked(o)' <=> Unlocked(o)
    BY <1>i, <2>1, Members DEF Releasing, Unlocked
  <2>3. Owed(o)' <=> Owed(o)
    BY <1>i, <2>2 DEF Owed
  <2>4. Owed(o) => amount'[o] = amount[o]
    BY <1>c, <1>d
  <2> QED BY <2>2, <2>3, <2>4 DEF Claim
\* Books and claims that move together.
<1>j. ASSUME DOMAIN ledger' # {}, Claimed' \in Int, used'.faults = used.faults, NEW n \in Int,
             Claimed' = Claimed + n, SoftLockKobo(ledger') \in Int,
             FundCovers => SoftLockKobo(ledger') >= SoftLockKobo(ledger) + n,
             FundExact /\ used.faults = 0 /\ MaxMonth = 1 =>
                SoftLockKobo(ledger') = SoftLockKobo(ledger) + n
      PROVE  FundInv'
  BY <1>a, <1>b, <1>j DEF FundInv, FundCovers, FundExact
<1>k. SoftLockKobo(ledger') \in Nat
  <2> DEFINE k == ledger'
  <2>1. IsLedger(k)
    <3>0. IsFiniteSet(1 .. MaxMonth)
      BY FS_Interval, PayoutsAssumption
    <3>1. 1 .. MaxMonth \subseteq Months
      BY PayoutsAssumption DEF Months, NoPeriod
    <3>2. DOMAIN k \subseteq 1 .. MaxMonth /\ k \in [DOMAIN k -> Row]
      BY DEF BooksTypeOK
    <3> HIDE DEF k
    <3> QED BY <3>0, <3>1, <3>2, FS_Subset DEF IsLedger
  <2> HIDE DEF k
  <2>2. SoftLockKobo(k) \in Nat
    BY <2>1, TotalsAreNat
  <2> QED BY <2>2 DEF k
<1>1. CASE Steady /\ ~Turns
  <2>1. Claimed' = Claimed
    <3> DEFINE f == Claim
               g == Claim'
    <3>1. \A p \in PayoutIds : f[p] \in Int /\ g[p] = f[p]
      <4>1. \A p \in PayoutIds : Unlocked(p)' <=> Unlocked(p)
        BY <1>1, LockedBySweep
      <4>2. \A p \in PayoutIds : Owed(p)' <=> Owed(p)
        BY <1>1 DEF Steady
      <4> QED BY <1>b, <1>c, <1>d, <4>1, <4>2 DEF Claim
    <3>2. Claimed = SumFunctionOnSet(f, PayoutIds) /\ Claimed' = SumFunctionOnSet(g, PayoutIds)
      BY DEF Claimed
    <3> HIDE DEF f, g
    <3> QED BY <3>1, <3>2, SumSame
  <2>2. /\ DOMAIN ledger \subseteq DOMAIN ledger' /\ used'.faults = used.faults
        /\ SoftLockKobo(ledger') = SoftLockKobo(ledger)
    BY <1>1, OthersKeepLocks
  <2> QED BY <2>1, <2>2 DEF FundInv, FundCovers, FundExact
<1>2. ASSUME NEW r \in Requests, NEW p \in PayoutIds, CheckAndLock(r, p)
      PROVE  FundInv'
  <2>0. PICK a : a = ask[r].amount
    OBVIOUS
  <2>1. /\ DOMAIN ledger' # {} /\ a \in Nat
        /\ SoftLockKobo(ledger') = SoftLockKobo(ledger) + a
    <3>1. /\ a \in Nat /\ period'[p] \in DOMAIN ledger
          /\ ledger' = Reserve(ledger, period'[p], a)
      BY <1>2, <2>0, Granted
    <3> QED BY <1>a, <3>1, ReserveAdds DEF LocksOnly
  <2>2. /\ status[p] = "NONE" /\ status' = [status EXCEPT ![p] = "PENDING"]
        /\ amount' = [amount EXCEPT ![p] = a] /\ used' = used
        /\ pc[r] = "lock" /\ pc'[r] \in {"advance", "emails"} /\ at'[r] = p /\ r \in Procs
        /\ \A q \in Procs : q # r => pc'[q] = pc[q] /\ at'[q] = at[q]
    BY <1>2, <2>0, Members DEF CheckAndLock, UpdateStatus, Enter, FiringInv, LifecycleTypeOK
  <2>3. /\ at[r] = NoPayout /\ status'[p] = "PENDING" /\ amount'[p] = a
        /\ \A o \in PayoutIds : o # p => status'[o] = status[o]
    BY <2>2 DEF FiringInv, LifecycleTypeOK, Placement, Unattached, BooksTypeOK
  <2>4. \A o \in PayoutIds : o # p => Claim'[o] = Claim[o]
    BY <1>i, <2>2, <2>3
  <2>5. Claim[p] = 0
    BY <1>c, <2>2 DEF Claim
  <2>6. Claim'[p] = a
    <3>1. ~Unlocked(p)
      BY <1>e, <2>2
    <3>2. ~Unlocked(p)'
      BY <2>2, <3>1, Members DEF Unlocked
    <3>3. Owed(p)'
      BY <2>3 DEF Owed, Live
    <3> QED BY <2>3, <3>2, <3>3 DEF Claim
  <2>7. Claimed' = Claimed + a
    BY <1>b, <1>h, <2>1, <2>4, <2>5, <2>6
  <2> QED BY <1>b, <1>j, <1>k, <2>1, <2>2, <2>7
<1>3. ASSUME NEW r \in Sweepers, NEW p \in PayoutIds, SweepCreate(r, p) PROVE FundInv'
  <2>1. /\ status[p] = "NONE" /\ status' = [status EXCEPT ![p] = "PENDING"]
        /\ UNCHANGED <<ledger, used>>
        /\ pc[r] = "sweepCreate" /\ pc'[r] = "sweepApprove" /\ at'[r] = p /\ r \in Procs
        /\ \A q \in Procs : q # r => pc'[q] = pc[q] /\ at'[q] = at[q]
    BY <1>3, Members DEF SweepCreate, UpdateStatus, Enter, FiringInv, LifecycleTypeOK, moneyVars
  <2>2. /\ at[r] = NoPayout /\ \A o \in PayoutIds : o # p => status'[o] = status[o]
    BY <2>1 DEF FiringInv, LifecycleTypeOK, Placement, Unattached
  <2>3. \A o \in PayoutIds : o # p => Claim'[o] = Claim[o]
    BY <1>i, <2>1, <2>2
  <2>4. Claim[p] = 0
    BY <1>c, <2>1 DEF Claim
  <2>5. Claim'[p] = 0
    BY <2>1 DEF Claim, Unlocked
  <2>6. Claimed' = Claimed
    BY <1>b, <1>h, <2>3, <2>4, <2>5
  <2> QED BY <2>1, <2>6 DEF FundInv, FundCovers, FundExact
<1>4. ASSUME NEW r \in Sweepers, SweepLock(r) PROVE FundInv'
  <2>0. PICK p : p = at[r]
    OBVIOUS
  <2>1. /\ p \in PayoutIds /\ r \in Procs /\ pc[r] = "sweepLock" /\ status[p] = "APPROVED"
        /\ ledger' = SoftLock(ledger, amount[p])
        /\ UNCHANGED <<status, amount, used>> /\ Goto(r, "sweepFire")
    BY <1>4, <1>f, <2>0, Members DEF SweepLock, Unattached, FiringInv, FiringDiscipline, rowVars
  <2>2. /\ DOMAIN ledger' # {} /\ SoftLockKobo(ledger') = SoftLockKobo(ledger) + amount[p]
    <3>1. DOMAIN ledger # {} /\ amount[p] \in Nat
      BY <1>a, <2>1 DEF FundInv
    <3> QED BY <1>a, <2>1, <3>1, SoftLockAdds DEF LocksOnly
  <2>3. /\ pc'[r] = "sweepFire" /\ at' = at /\ \A q \in Procs : q # r => pc'[q] = pc[q]
    BY <2>1 DEF Goto, FiringInv, LifecycleTypeOK
  <2>4. \A o \in PayoutIds : o # p => Claim'[o] = Claim[o]
    BY <1>i, <2>0, <2>1, <2>3
  <2>5. Claim[p] = 0
    BY <1>4, <2>0, <2>1 DEF Claim, Unlocked
  <2>6. Claim'[p] = amount[p]
    <3>1. Owed(p)'
      BY <2>1 DEF Owed, Live
    <3>2. ASSUME NEW q \in Sweepers, pc'[q] \in {"sweepApprove", "sweepLock"}, at'[q] = p
          PROVE  FALSE
      <4>1. q # r /\ q \in Procs
        BY <2>3, <3>2, Members
      <4>2. pc[q] \in Driving /\ pc[r] \in Driving /\ at[q] = at[r]
        BY <2>0, <2>1, <2>3, <3>2, <4>1 DEF Driving
      <4> QED BY <2>1, <4>1, <4>2 DEF FiringInv, FiringDiscipline
    <3>3. ~Unlocked(p)'
      BY <3>2 DEF Unlocked
    <3> QED BY <2>1, <3>1, <3>3 DEF Claim
  <2>7. Claimed' = Claimed + amount[p]
    BY <1>a, <1>b, <1>h, <2>1, <2>4, <2>5, <2>6
  <2>8. amount[p] \in Nat /\ used'.faults = used.faults
    BY <1>a, <2>1
  <2> QED BY <1>b, <1>j, <1>k, <2>2, <2>7, <2>8
\* A claim that is met takes no more than itself off the rows together.
<1>l. ASSUME NEW r \in Procs, NEW p \in PayoutIds, at[r] = p, at'[r] = NoPayout,
             \A q \in Procs : q # r => pc'[q] = pc[q] /\ at'[q] = at[q],
             \A o \in PayoutIds : o # p => status'[o] = status[o],
             Owed(p), ~Owed(p)', status[p] \notin {"PENDING", "APPROVED"},
             used' = used, DOMAIN ledger' # {},
             SoftLockKobo(ledger') >= SoftLockKobo(ledger) - amount[p],
             MaxMonth = 1 /\ SoftLockKobo(ledger) >= amount[p] =>
                SoftLockKobo(ledger') = SoftLockKobo(ledger) - amount[p]
      PROVE  FundInv'
  <2>1. \A o \in PayoutIds : o # p => Claim'[o] = Claim[o]
    BY <1>i, <1>l
  <2>2. Claim[p] = amount[p] /\ Claim'[p] = 0 /\ amount[p] \in Nat
    BY <1>a, <1>e, <1>l DEF Claim
  <2>3. Claimed' = Claimed - amount[p]
    BY <1>b, <1>h, <2>1, <2>2
  <2>4. Claimed >= amount[p]
    BY <1>g, <2>2
  <2> QED BY <1>a, <1>b, <1>k, <1>l, <2>2, <2>3, <2>4 DEF FundInv, FundCovers, FundExact
<1>m. MaxMonth = 1 => /\ DOMAIN ledger = {1} /\ month = 1
                      /\ \A p \in PayoutIds : period[p] \in {NoPeriod, 1}
  <2> SUFFICES ASSUME MaxMonth = 1
               PROVE  /\ DOMAIN ledger = {1} /\ month = 1
                      /\ \A p \in PayoutIds : period[p] \in {NoPeriod, 1}
    OBVIOUS
  <2>1. 1 .. MaxMonth = {1} /\ NoPeriod .. MaxMonth = {NoPeriod, 1}
    BY DEF NoPeriod
  <2>2. DOMAIN ledger \subseteq {1} /\ DOMAIN ledger # {}
    BY <2>1 DEF FundInv, BooksTypeOK
  <2>3. month = 1 /\ period \in [PayoutIds -> {NoPeriod, 1}]
    BY <2>1 DEF BooksTypeOK
  <2> QED BY <2>2, <2>3
<1>5. ASSUME NEW w \in Workers, Settle(w) PROVE FundInv'
  <2>0. PICK p : p = at[w]
    OBVIOUS
  <2>1. /\ p \in PayoutIds /\ status[p] = "TRANSFERRING" /\ pc[w] = "settle" /\ w \in Procs
        /\ used' = used /\ status' = [status EXCEPT ![p] = "TRANSFERRED"] /\ Finish(w)
        /\ ledger' = DebitLedger(ledger, month, amount[p], Fee, period[p])
    BY <1>5, <1>f, <2>0, Members
    DEF Settle, Unattached, UpdateStatus, FiringInv, FiringDiscipline
  <2>2. /\ status'[p] = "TRANSFERRED" /\ \A o \in PayoutIds : o # p => status'[o] = status[o]
        /\ pc'[w] = "idle" /\ at'[w] = NoPayout
        /\ \A q \in Procs : q # w => pc'[q] = pc[q] /\ at'[q] = at[q]
    BY <2>1 DEF Finish, Enter, FiringInv, LifecycleTypeOK
  <2>3. Owed(p) /\ ~Owed(p)'
    <3>1. ~Releasing(p)
      BY <2>1 DEF Releasing, Custody, Dead
    <3>2. ~Releasing(p)'
      BY <2>2, <3>1 DEF Releasing
    <3> QED BY <2>1, <2>2, <3>2 DEF Owed, Live
  <2>4. TakenAtMost(ledger, ledger', month, amount[p], period[p])
    <3>1. amount[p] \in Nat /\ Fee \in Nat
      BY <1>a, <2>1, PayoutsAssumption
    <3> QED BY <1>a, <2>1, <3>1, DebitAtMost
  <2>5. /\ DOMAIN ledger' # {} /\ SoftLockKobo(ledger') >= SoftLockKobo(ledger) - amount[p]
        /\ MaxMonth = 1 /\ SoftLockKobo(ledger) >= amount[p] =>
             SoftLockKobo(ledger') = SoftLockKobo(ledger) - amount[p]
    BY <1>m, <2>1, <2>4 DEF TakenAtMost
  <2>6. status[p] \notin {"PENDING", "APPROVED"}
    BY <2>1
  <2> QED BY <1>l, <2>0, <2>1, <2>2, <2>3, <2>5, <2>6
<1>6. ASSUME NEW r \in Procs, Release(r) PROVE FundInv'
  <2>0. PICK p : p = at[r]
    OBVIOUS
  <2>1. /\ p \in PayoutIds /\ pc[r] = "release" /\ status[p] \in Dead
        /\ UNCHANGED <<used, status>> /\ (Finish(r) \/ Enter(r, "expire", NoPayout))
        /\ ledger' = ReleaseLock(ledger, amount[p], period[p])
    BY <1>6, <1>f, <2>0 DEF Release, Unattached, Custody, rowVars
  <2>2. /\ pc'[r] # "release" /\ at'[r] = NoPayout
        /\ \A q \in Procs : q # r => pc'[q] = pc[q] /\ at'[q] = at[q]
    BY <2>1 DEF Finish, Enter, FiringInv, LifecycleTypeOK
  <2>3. \A q \in Procs : pc[q] = "release" /\ at[q] = p => q = r
    BY <2>0, <2>1 DEF Custody
  <2>4. Owed(p) /\ ~Owed(p)'
    BY <2>0, <2>1, <2>2, <2>3 DEF Owed, Live, Releasing, Dead
  <2>5. /\ DOMAIN ledger' = DOMAIN ledger
        /\ SoftLockKobo(ledger') >= SoftLockKobo(ledger) - amount[p]
        /\ DOMAIN ledger = {1} /\ period[p] \in {NoPeriod, 1} /\ SoftLockKobo(ledger) >= amount[p] =>
             SoftLockKobo(ledger') = SoftLockKobo(ledger) - amount[p]
    <3>1. amount[p] \in Nat
      BY <1>a, <2>1
    <3> QED BY <1>a, <2>1, <3>1, ReleaseAtMost DEF LocksOnly
  <2>6. MaxMonth = 1 => DOMAIN ledger = {1} /\ period[p] \in {NoPeriod, 1}
    BY <1>m, <2>1
  <2>7. status[p] \notin {"PENDING", "APPROVED"} /\ DOMAIN ledger' # {}
    BY <2>1, <2>5 DEF Dead, FundInv
  <2> QED BY <1>l, <2>0, <2>1, <2>2, <2>4, <2>5, <2>6, <2>7
<1>7. ASSUME NEW S \in SUBSET Procs, Stop(S) PROVE FundInv'
  <2>1. ledger' = ledger /\ used'.faults # 0
    BY <1>7, PayoutsAssumption DEF Stop, moneyVars, BooksTypeOK
  <2> QED BY <2>1 DEF FundInv, FundCovers, FundExact
<1> QED BY <1>1, <1>2, <1>3, <1>4, <1>5, <1>6, <1>7, SteadyOrTurn DEF Turns

\* Nothing is claimed and nothing reserved when the behaviour starts.
LEMMA FundInit == ASSUME IsFiniteSet(PayoutIds), Init PROVE Custody /\ FundInv
<1>1. Custody /\ \A p \in PayoutIds : ~Owed(p)
  BY LocksInit DEF Init, Owed, Releasing, Live
<1>2. Claimed = 0
  <2> DEFINE f == Claim
  <2>1. \A p \in PayoutIds : f[p] = 0
    BY <1>1 DEF Claim
  <2> HIDE DEF f
  <2>2. SumFunctionOnSet(f, PayoutIds) = 0
    BY <2>1, SumZero
  <2> QED BY <2>2 DEF Claimed, f
<1>3. DOMAIN ledger = {1} /\ SoftLockKobo(ledger) = 0
  <2> DEFINE f == [q \in DOMAIN ledger |-> ledger[q].softLock]
  <2>1. DOMAIN ledger = {1} /\ ledger[1].softLock = 0
    BY DEF Init, EmptyRow
  <2>2. DOMAIN f = {1} /\ f[1] = 0 /\ SoftLockKobo(ledger) = SumFunction(f)
    BY <2>1 DEF SoftLockKobo
  <2> HIDE DEF f
  <2>3. SumFunction(f) = 0
    BY <2>2, SumSingle DEF SumFunction
  <2> QED BY <2>1, <2>2, <2>3
<1> QED BY <1>1, <1>2, <1>3 DEF FundInv, FundCovers, FundExact

\* With sweeps among the payouts, whose release may go to another month's row
\* than the reservation was taken from: each reservation is given back by one
\* executor alone, and while nobody is stopped half-way the fund's rows together
\* hold what all payouts, sweeps included, have reserved and not yet used or
\* given back; in a single month they hold just that
\* (sweep.service.ts processSweep, ledger.service.ts softLock, releaseLock).
THEOREM SweepsCovered ==
  ASSUME OneWorker, ~CancelInFlight, IsFiniteSet(PayoutIds)
  PROVE  Spec => [](Custody /\ FundCovers /\ FundExact)
<1>a. SweepsUndisturbed
  BY DEF SweepsUndisturbed
<1>1. FiringInv /\ Custody /\ [Next]_vars => Custody'
  BY CustodyStep
<1>2. FiringInv /\ BooksTypeOK /\ BooksTypeOK' /\ Custody /\ FundInv /\ [Next]_vars => FundInv'
  <2>1. CASE Next
    BY <2>1, FundNext
  <2>2. CASE UNCHANGED vars
    BY <2>2 DEF vars, FundInv, FundCovers, FundExact, Claimed, Claim, Owed, Releasing, Unlocked
  <2> QED BY <2>1, <2>2
<1>3. Init => Custody /\ FundInv
  BY FundInit
<1>4. Spec => []FiringInv
  BY <1>a, FiringInvariant
<1>5. Spec => []BooksTypeOK
  BY <1>a, BooksAreTyped
<1>6. FundInv => FundCovers /\ FundExact
  BY DEF FundInv
<1> QED
  BY <1>1, <1>2, <1>3, <1>4, <1>5, <1>6, PTL DEF Spec

-----------------------------------------------------------------------------
(* No vote is forgotten.                                                   *)

\* The clicks that will still act on what has been voted.
Carrying == {"decline", "policy", "quorum", "approve"}

\* A recorded decline has a click that will kill the payout, and enough
\* approvals have one that will count them again or has counted them.
VotesInv ==
    used.policies = 0 /\ used.faults = 0 =>
    /\ \A r \in Requests : pc[r] = "quorum" => click[r].need = minApprovers
    /\ \A p \in PayoutIds : status[p] \in Awaiting =>
          /\ VotesFor(p, "DECLINED") # {} => \E r \in Requests : at[r] = p /\ pc[r] = "decline"
          /\ Cardinality(VotesFor(p, "APPROVED")) >= minApprovers =>
                \E r \in Requests : at[r] = p /\ pc[r] \in Carrying

\* A step that records no vote, wakes no payout up and takes no click away from
\* a payout that still awaits approval forgets nothing.
LEMMA VotesFrame ==
  ASSUME VotesInv, UNCHANGED minApprovers,
         used'.policies = used.policies, used'.faults = used.faults,
         \A p \in PayoutIds : status'[p] \in Awaiting =>
             /\ status[p] \in Awaiting
             /\ VotesFor(p, "DECLINED")' = VotesFor(p, "DECLINED")
             /\ VotesFor(p, "APPROVED")' = VotesFor(p, "APPROVED"),
         \A r \in Requests : pc'[r] = "quorum" => pc[r] = "quorum" /\ click'[r] = click[r],
         \A r \in Requests : pc[r] \in Carrying /\ at[r] \in PayoutIds =>
             \/ pc'[r] = pc[r] /\ at'[r] = at[r]
             \/ status'[at[r]] \notin Awaiting
  PROVE  VotesInv'
  BY DEF VotesInv, Carrying

\* Every step keeps the votes in hand.
LEMMA VotesNext ==
  ASSUME FiringInv, BooksTypeOK, VotesInv, Next PROVE VotesInv'
<1> DEFINE Asleep == \A p \in PayoutIds : status'[p] \in Awaiting => status[p] \in Awaiting
           Recorded == \A p \in PayoutIds :
                          /\ VotesFor(p, "DECLINED")' = VotesFor(p, "DECLINED")
                          /\ VotesFor(p, "APPROVED")' = VotesFor(p, "APPROVED")
           Settings == UNCHANGED minApprovers
                          /\ used'.policies = used.policies /\ used'.faults = used.faults
           Quorums == \A r \in Requests :
                          pc'[r] = "quorum" => pc[r] = "quorum" /\ click'[r] = click[r]
           Carried == \A r \in Requests : pc[r] \in Carrying /\ at[r] \in PayoutIds =>
                          \/ pc'[r] = pc[r] /\ at'[r] = at[r]
                          \/ status'[at[r]] \notin Awaiting
<1>a. /\ status \in [PayoutIds -> Lifecycle!Status] /\ pc \in [Procs -> Pcs]
      /\ at \in [Procs -> PayoutIds \cup {NoPayout}]
  BY DEF FiringInv, LifecycleTypeOK
<1>b. \A r \in Procs : pc[r] \notin Unattached => at[r] \in PayoutIds
  BY Attached DEF FiringInv
<1>c. /\ UNCHANGED vote => Recorded
      /\ UNCHANGED policyVars /\ UNCHANGED used => Settings
  BY DEF VotesFor, policyVars
<1>d. /\ UNCHANGED status => Asleep
      /\ \A p \in PayoutIds : \A x : x \notin Awaiting /\ status' = [status EXCEPT ![p] = x] => Asleep
      /\ \A p \in PayoutIds : \A x : \A from :
             x \notin Awaiting /\ TransitionStatus(p, from, x) => Asleep
  BY <1>a DEF TransitionStatus
<1>s. ASSUME NEW p \in PayoutIds, NEW x, x \notin Awaiting, status' = [status EXCEPT ![p] = x]
      PROVE  Asleep
  BY <1>a, <1>s
<1>e. /\ UNCHANGED procVars /\ UNCHANGED click => Quorums /\ Carried
      /\ \A step, o : \A r \in Procs :
             /\ pc[r] \notin Carrying /\ step # "quorum"
             /\ \A q \in Requests : q # r => click'[q] = click[q]
             /\ Goto(r, step) \/ Enter(r, step, o)
             => Quorums /\ Carried
  BY <1>a, Members DEF procVars, Goto, Enter, Carrying
<1>h. \A r \in Procs : \A x : click' = [click EXCEPT ![r] = x] =>
          \A q \in Requests : q # r => click'[q] = click[q]
  BY DEF FiringInv, LifecycleTypeOK
<1>f. Settings /\ Recorded /\ Asleep /\ Quorums /\ Carried => VotesInv'
  BY VotesFrame
<1>g. \A r \in Procs : pc[r] \in Driving \cup {"settle", "refund"} => at[r] \in PayoutIds
  BY <1>b DEF Unattached, Driving
\* Nobody has voted on a payout that has just been created.
<1>k. ASSUME NEW p \in PayoutIds, status' = [status EXCEPT ![p] = "PENDING"], status[p] = "NONE",
             \A s \in Signatories : vote'[p][s] \in {"none", "due"},
             \A o \in PayoutIds : o # p => vote'[o] = vote[o],
             UNCHANGED <<policyVars, used>>, Quorums, Carried
      PROVE  VotesInv'
  <2>1. /\ \A o \in PayoutIds : o # p => /\ VotesFor(o, "DECLINED")' = VotesFor(o, "DECLINED")
                                         /\ VotesFor(o, "APPROVED")' = VotesFor(o, "APPROVED")
        /\ VotesFor(p, "DECLINED")' = {} /\ VotesFor(p, "APPROVED")' = {}
    BY <1>k DEF VotesFor
  <2>2. ~(Cardinality({}) >= minApprovers') /\ minApprovers' = minApprovers
    <3>1. Cardinality({}) = 0
      BY FS_EmptySet
    <3>2. minApprovers \in Nat \ {0} /\ minApprovers' = minApprovers
      BY <1>k, PayoutsAssumption DEF FiringInv, LifecycleTypeOK, policyVars
    <3> QED BY <3>1, <3>2
  <2>3. \A o \in PayoutIds : o # p => status'[o] = status[o]
    BY <1>a, <1>k
  <2>4. used' = used
    BY <1>k
  <2>5. ASSUME NEW o \in PayoutIds, o # p, status'[o] \in Awaiting, used.policies = 0, used.faults = 0
        PROVE  /\ VotesFor(o, "DECLINED")' # {} => \E r \in Requests : at'[r] = o /\ pc'[r] = "decline"
               /\ Cardinality(VotesFor(o, "APPROVED"))' >= minApprovers' =>
                     \E r \in Requests : at'[r] = o /\ pc'[r] \in Carrying
    <3>1. status'[o] = status[o] /\ \A r \in Requests : at[r] = o /\ pc[r] \in Carrying =>
              pc'[r] = pc[r] /\ at'[r] = at[r]
      BY <1>k, <2>3, <2>5
    <3> QED BY <2>1, <2>2, <2>5, <3>1 DEF VotesInv, Carrying
  <2> HIDE DEF Quorums, Carried
  <2>6. \A r \in Requests : pc'[r] = "quorum" => pc[r] = "quorum" /\ click'[r] = click[r]
    BY <1>k DEF Quorums
  <2> QED BY <2>1, <2>2, <2>4, <2>5, <2>6, ZenonT(60) DEF VotesInv
<1> HIDE DEF Asleep, Recorded, Settings, Quorums, Carried
<1> USE DEF rowVars, voteVars, moneyVars, nombaVars, localVars, Carrying
<1>1. ASSUME NEW r \in Requests, NEW p \in PayoutIds, CheckAndLock(r, p)
      PROVE  VotesInv'
  <2>1. /\ r \in Procs /\ status[p] = "NONE" /\ UNCHANGED <<click, used, policyVars>> /\ pc[r] = "lock"
        /\ status' = [status EXCEPT ![p] = "PENDING"]
    BY <1>1, Members DEF CheckAndLock, UpdateStatus
  <2>2. \A s \in Signatories : vote'[p][s] \in {"none", "due"}
    BY <1>1 DEF CheckAndLock, FiringInv, LifecycleTypeOK, Stages, Untouched
  <2>3. \A o \in PayoutIds : o # p => vote'[o] = vote[o]
    BY <1>1 DEF CheckAndLock, FiringInv, LifecycleTypeOK
  <2>4. Quorums /\ Carried
    <3>1. Enter(r, IF ask[r].amount < Threshold THEN "advance" ELSE "emails", p)
      BY <1>1 DEF CheckAndLock
    <3> QED BY <1>e, <2>1, <3>1
  <2> QED BY <1>k, <2>1, <2>2, <2>3, <2>4
<1>2. ASSUME NEW r \in Requests, NEW s \in Signatories, SendEmail(r, s) PROVE VotesInv'
  <2>1. r \in Procs /\ pc[r] = "emails" /\ at[r] \in PayoutIds
    BY <1>b, <1>2, Members DEF SendEmail, Unattached
  <2>2. Quorums /\ Carried
    BY <1>e, <2>1, <1>2 DEF SendEmail, Finish
  <2>3. Recorded
    BY <2>1, <1>2 DEF SendEmail, VotesFor, Recorded, FiringInv, LifecycleTypeOK
  <2>4. Asleep /\ Settings
    BY <1>c, <1>d, <1>2 DEF SendEmail
  <2> QED BY <1>f, <2>2, <2>3, <2>4
<1>3. ASSUME NEW r \in Requests, Advance(r) PROVE VotesInv'
  BY <1>b, <1>c, <1>d, <1>e, <1>f, <1>3, Members DEF Advance, Unattached, Awaiting, UpdateStatus
<1>4. ASSUME NEW r \in Requests, NEW p \in PayoutIds, NEW s \in Signatories,
             NEW act \in {"APPROVED", "DECLINED"}, ClickLink(r, p, s, act)
      PROVE  VotesInv'
  <2>1. r \in Procs /\ pc[r] = "idle"
    BY <1>4, Members DEF ClickLink
  <2>2. Asleep
    BY <1>d, <1>4 DEF ClickLink
  <2>3. Quorums /\ Carried
    BY <1>e, <1>h, <2>1, <1>4 DEF ClickLink
  <2>4. Recorded /\ Settings
    BY <1>c, <1>4 DEF ClickLink
  <2> QED BY <1>f, <2>2, <2>3, <2>4
<1>5. ASSUME NEW r \in Requests, LoadPayout(r) PROVE VotesInv'
  <2>1. r \in Procs /\ pc[r] = "load"
    BY <1>5, Members DEF LoadPayout
  <2>2. Asleep
    BY <1>d, <1>5 DEF LoadPayout
  <2>3. Quorums /\ Carried
    BY <1>e, <1>h, <2>1, <1>5 DEF LoadPayout, Finish
  <2>4. Recorded /\ Settings
    BY <1>c, <1>5 DEF LoadPayout
  <2> QED BY <1>f, <2>2, <2>3, <2>4
<1>6. ASSUME NEW r \in Requests, RecordAction(r) PROVE VotesInv'
  <2>0. PICK p \in PayoutIds : p = at[r]
    BY <1>b, <1>6, Members DEF RecordAction, Unattached
  <2>1. r \in Procs /\ pc[r] = "record" /\ UNCHANGED <<status, minApprovers, used, at, click>>
    BY <1>6, Members DEF RecordAction, policyVars, Goto, rowVars
  <2>2. /\ pc'[r] = IF click[r].act = "DECLINED" THEN "decline" ELSE "policy"
        /\ \A q \in Requests : q # r => pc'[q] = pc[q]
    BY <1>a, <2>1, <1>6, Members DEF RecordAction, Goto
  <2>3. /\ click[r].act \in {"APPROVED", "DECLINED"}
        /\ vote' = [vote EXCEPT ![p][click[r].s] = click[r].act]
    BY <2>0, <2>1, <1>6 DEF RecordAction, FiringInv, Clicks, ClickPcs
  <2>4. \A o \in PayoutIds : o # p => /\ VotesFor(o, "DECLINED")' = VotesFor(o, "DECLINED")
                                     /\ VotesFor(o, "APPROVED")' = VotesFor(o, "APPROVED")
    BY <2>3 DEF VotesFor, FiringInv, LifecycleTypeOK
  <2>5. click[r].act = "APPROVED" => VotesFor(p, "DECLINED")' \subseteq VotesFor(p, "DECLINED")
    BY <2>3 DEF VotesFor, FiringInv, LifecycleTypeOK
  <2>6. \A o : \A q \in Requests : at[q] = o /\ pc[q] \in Carrying =>
            at'[q] = o /\ pc'[q] = pc[q]
    BY <2>1, <2>2
  <2>7. \A q \in Requests : pc'[q] = "quorum" => pc[q] = "quorum" /\ click'[q] = click[q]
    BY <2>1, <2>2
  <2>8. ASSUME NEW o \in PayoutIds, status[o] \in Awaiting, used.policies = 0, used.faults = 0
        PROVE  /\ VotesFor(o, "DECLINED")' # {} => \E q \in Requests : at'[q] = o /\ pc'[q] = "decline"
               /\ Cardinality(VotesFor(o, "APPROVED"))' >= minApprovers =>
                     \E q \in Requests : at'[q] = o /\ pc'[q] \in Carrying
    <3>1. CASE o # p
      BY <2>4, <2>6, <2>8, <3>1 DEF VotesInv
    <3>2. CASE o = p /\ click[r].act = "DECLINED"
      BY <2>0, <2>1, <2>2, <3>2
    <3>3. CASE o = p /\ click[r].act = "APPROVED"
      BY <2>0, <2>1, <2>2, <2>5, <2>6, <2>8, <3>3 DEF VotesInv
    <3> QED BY <2>3, <3>1, <3>2, <3>3
  <2> QED BY <2>1, <2>7, <2>8 DEF VotesInv
<1>7. ASSUME NEW r \in Requests, Decline(r) PROVE VotesInv'
  <2>1. r \in Procs /\ at[r] \in PayoutIds /\ pc[r] = "decline"
    BY <1>b, <1>7, Members DEF Decline, Unattached
  <2>2. Asleep
    BY <1>d, <2>1, <1>7 DEF Decline, Awaiting
  <2>3. Quorums /\ Carried
    <3>1. status'[at[r]] \notin Awaiting
      BY <1>a, <2>1, <1>7 DEF Decline, TransitionStatus, Awaiting
    <3>2. \A q \in Requests : q # r => pc'[q] = pc[q] /\ at'[q] = at[q] /\ click'[q] = click[q]
      BY <1>a, <1>h, <2>1, <1>7, Members DEF Decline, Goto, Finish, Enter
    <3>3. pc'[r] # "quorum"
      BY <1>a, <2>1, <1>7 DEF Decline, Goto, Finish, Enter
    <3> QED BY <3>1, <3>2, <3>3 DEF Quorums, Carried
  <2>4. Recorded /\ Settings
    BY <1>c, <1>7 DEF Decline
  <2> QED BY <1>f, <2>2, <2>3, <2>4
<1>8. ASSUME NEW r \in Requests, ReadPolicy(r) PROVE VotesInv'
  <2>1. r \in Procs /\ pc[r] = "policy" /\ UNCHANGED <<status, vote, minApprovers, used, at>>
    BY <1>8, Members DEF ReadPolicy, policyVars, Goto
  <2>2. /\ pc'[r] = "quorum" /\ click'[r].need = minApprovers
        /\ \A q \in Requests : q # r => pc'[q] = pc[q] /\ click'[q] = click[q]
    BY <1>a, <2>1, <1>8, Members DEF ReadPolicy, Goto, FiringInv, LifecycleTypeOK, Click
  <2>3. \A p \in PayoutIds : /\ VotesFor(p, "DECLINED")' = VotesFor(p, "DECLINED")
                             /\ VotesFor(p, "APPROVED")' = VotesFor(p, "APPROVED")
    BY <2>1 DEF VotesFor
  <2> QED BY <2>1, <2>2, <2>3 DEF VotesInv
<1>9. ASSUME NEW r \in Requests, CheckQuorum(r) PROVE VotesInv'
  <2>1. r \in Procs /\ pc[r] = "quorum" /\ UNCHANGED <<status, vote, minApprovers, used, at, click>>
    BY <1>9, Members DEF CheckQuorum, policyVars, Goto
  <2>2. /\ pc'[r] = IF QuorumReached(at[r], click[r].need) THEN "approve"
                    ELSE IF click[r].seen = "PENDING" THEN "partial" ELSE "invalid"
        /\ \A q \in Requests : q # r => pc'[q] = pc[q]
    BY <1>a, <2>1, <1>9, Members DEF CheckQuorum, Goto
  <2>3. \A p \in PayoutIds : /\ VotesFor(p, "DECLINED")' = VotesFor(p, "DECLINED")
                             /\ VotesFor(p, "APPROVED")' = VotesFor(p, "APPROVED")
    BY <2>1 DEF VotesFor
  <2>4. CASE QuorumReached(at[r], click[r].need)
    BY <2>1, <2>2, <2>3, <2>4 DEF VotesInv
  <2>5. CASE ~QuorumReached(at[r], click[r].need)
    <3> SUFFICES ASSUME used.policies = 0, used.faults = 0 PROVE VotesInv'
      BY <2>1 DEF VotesInv
    <3>1. pc'[r] \notin Carrying /\ click[r].need = minApprovers
      BY <2>1, <2>2, <2>5 DEF VotesInv
    <3>2. \/ VotesFor(at[r], "DECLINED") # {}
          \/ ~(Cardinality(VotesFor(at[r], "APPROVED")) >= minApprovers)
      BY <2>5, <3>1 DEF QuorumReached
    <3>3. \A p \in PayoutIds : \A q \in Requests :
              at[q] = p /\ pc[q] \in Carrying /\ q # r => at'[q] = p /\ pc'[q] \in Carrying
                                                        /\ pc'[q] = pc[q]
      BY <2>1, <2>2
    <3>4. \A q \in Requests : pc'[q] = "quorum" => pc[q] = "quorum" /\ click'[q] = click[q]
      BY <2>1, <2>2, <3>1
    <3>5. ASSUME NEW p \in PayoutIds, status[p] \in Awaiting
          PROVE  /\ VotesFor(p, "DECLINED") # {} => \E q \in Requests : at'[q] = p /\ pc'[q] = "decline"
                 /\ Cardinality(VotesFor(p, "APPROVED")) >= minApprovers =>
                       \E q \in Requests : at'[q] = p /\ pc'[q] \in Carrying
      <4>1. VotesFor(p, "DECLINED") # {} => \E q \in Requests : at'[q] = p /\ pc'[q] = "decline"
        BY <2>1, <3>3, <3>5 DEF VotesInv
      <4>2. CASE p = at[r]
        BY <3>2, <4>1, <4>2
      <4>3. CASE p # at[r]
        BY <3>3, <3>5, <4>1, <4>3 DEF VotesInv
      <4> QED BY <4>1, <4>2, <4>3
    <3> QED BY <2>1, <2>3, <3>4, <3>5 DEF VotesInv
  <2> QED BY <2>4, <2>5
<1>10. ASSUME NEW r \in Requests, MarkPartial(r) PROVE VotesInv'
  <2>1. r \in Procs /\ pc[r] = "partial"
    BY <1>10, Members DEF MarkPartial
  <2>2. Asleep
    <3>1. at[r] \in PayoutIds
      BY <1>b, <2>1 DEF Unattached
    <3> QED BY <1>a, <2>1, <3>1, <1>10 DEF MarkPartial, TransitionStatus, Asleep
  <2>3. Quorums /\ Carried
    BY <1>e, <1>h, <2>1, <1>10 DEF MarkPartial, Finish
  <2>4. Recorded /\ Settings
    BY <1>c, <1>10 DEF MarkPartial
  <2> QED BY <1>f, <2>2, <2>3, <2>4
<1>11. ASSUME NEW r \in Requests, AnswerInvalid(r) PROVE VotesInv'
  <2>1. r \in Procs /\ pc[r] = "invalid"
    BY <1>11, Members DEF AnswerInvalid
  <2>2. Asleep
    BY <1>d, <1>11 DEF AnswerInvalid
  <2>3. Quorums /\ Carried
    BY <1>e, <1>h, <2>1, <1>11 DEF AnswerInvalid, Finish
  <2>4. Recorded /\ Settings
    BY <1>c, <1>11 DEF AnswerInvalid
  <2> QED BY <1>f, <2>2, <2>3, <2>4
<1>12. ASSUME NEW r \in Requests, Approve(r) PROVE VotesInv'
  <2>1. r \in Procs /\ at[r] \in PayoutIds /\ pc[r] = "approve"
    BY <1>b, <1>12, Members DEF Approve, Unattached
  <2>2. Asleep
    BY <1>d, <2>1, <1>12 DEF Approve, Awaiting
  <2>3. Quorums /\ Carried
    <3>1. status'[at[r]] \notin Awaiting
      BY <1>a, <2>1, <1>12 DEF Approve, TransitionStatus, Awaiting
    <3>2. \A q \in Requests : q # r => pc'[q] = pc[q] /\ at'[q] = at[q] /\ click'[q] = click[q]
      BY <1>a, <1>h, <2>1, <1>12, Members DEF Approve, Goto, Finish, Enter
    <3>3. pc'[r] # "quorum"
      BY <1>a, <2>1, <1>12 DEF Approve, Goto, Finish, Enter
    <3> QED BY <3>1, <3>2, <3>3 DEF Quorums, Carried
  <2>4. Recorded /\ Settings
    BY <1>c, <1>12 DEF Approve
  <2> QED BY <1>f, <2>2, <2>3, <2>4
<1>13. ASSUME NEW r \in Requests, StartTransfer(r) PROVE VotesInv'
  BY <1>b, <1>c, <1>d, <1>e, <1>f, <1>13, Members DEF StartTransfer, Unattached, Awaiting, UpdateStatus
<1>14. ASSUME NEW r \in Procs, CallNomba(r) PROVE VotesInv'
  BY <1>b, <1>c, <1>d, <1>e, <1>f, <1>14, Members DEF CallNomba, Unattached, Awaiting, UpdateStatus
<1>15. ASSUME NEW r \in Procs, StoreRef(r) PROVE VotesInv'
  <2>1. r \in Procs /\ pc[r] = "storeRef"
    BY <1>15, Members DEF StoreRef
  <2>2. Asleep
    <3>1. at[r] \in PayoutIds
      BY <1>g, <2>1 DEF Driving
    <3>2. status' = [status EXCEPT ![at[r]] = "TRANSFERRING"]
      BY <1>15 DEF StoreRef, UpdateStatus
    <3> QED BY <1>s, <3>1, <3>2 DEF Awaiting
  <2>3. Quorums /\ Carried
    BY <1>e, <2>1, <1>15 DEF StoreRef, Finish
  <2>4. Recorded /\ Settings
    BY <1>c, <1>15 DEF StoreRef
  <2> QED BY <1>f, <2>2, <2>3, <2>4
<1>16. ASSUME NEW r \in Procs, FailTransfer(r) PROVE VotesInv'
  BY <1>b, <1>c, <1>d, <1>e, <1>f, <1>16, Members DEF FailTransfer, Unattached, Awaiting, UpdateStatus
<1>17. ASSUME NEW r \in Procs, Release(r) PROVE VotesInv'
  <2>1. r \in Procs /\ pc[r] = "release"
    BY <1>17, Members DEF Release
  <2>2. Asleep
    BY <1>d, <1>17 DEF Release
  <2>3. Quorums /\ Carried
    BY <1>e, <2>1, <1>17 DEF Release, Finish
  <2>4. Recorded /\ Settings
    BY <1>c, <1>17 DEF Release
  <2> QED BY <1>f, <2>2, <2>3, <2>4
<1>18. ASSUME NEW r \in Requests, NEW p \in PayoutIds, LoadCancel(r, p) PROVE VotesInv'
  BY <1>b, <1>c, <1>d, <1>e, <1>f, <1>18, Members DEF LoadCancel, Unattached, Awaiting, UpdateStatus
<1>19. ASSUME NEW r \in Requests, Cancel(r) PROVE VotesInv'
  <2>1. r \in Procs /\ pc[r] = "cancel"
    BY <1>19, Members DEF Cancel
  <2>2. Asleep
    <3>1. at[r] \in PayoutIds
      BY <1>b, <2>1 DEF Unattached
    <3> QED BY <1>d, <3>1, <1>19 DEF Cancel, Awaiting
  <2>3. Quorums /\ Carried
    BY <1>e, <2>1, <1>19 DEF Cancel, Finish
  <2>4. Recorded /\ Settings
    BY <1>c, <1>19 DEF Cancel
  <2> QED BY <1>f, <2>2, <2>3, <2>4
<1>20. ASSUME NEW r \in Expirers, SelectExpired(r) PROVE VotesInv'
  BY <1>b, <1>c, <1>d, <1>e, <1>f, <1>20, Members DEF SelectExpired, Unattached, Awaiting, UpdateStatus
<1>21. ASSUME NEW r \in Expirers, Expire(r) PROVE VotesInv'
  <2>1. todo[r] \subseteq PayoutIds /\ r \in Procs /\ pc[r] = "expire" /\ UNCHANGED click
    BY <1>21, Members DEF Expire, FiringInv, LifecycleTypeOK
  <2>2. Asleep
    <3>1. CASE \E p \in todo[r] : TransitionStatus(p, Awaiting, "EXPIRED")
      BY <1>d, <2>1, <3>1 DEF Awaiting
    <3>2. CASE UNCHANGED status
      BY <1>d, <3>2
    <3> QED BY <1>21, <3>1, <3>2 DEF Expire
  <2>3. Quorums /\ Carried
    BY <1>e, <2>1, <1>21 DEF Expire, Finish
  <2>4. Recorded /\ Settings
    BY <1>c, <1>21 DEF Expire
  <2> QED BY <1>f, <2>2, <2>3, <2>4
<1>22. ASSUME NEW r \in Sweepers, SweepRead(r) PROVE VotesInv'
  BY <1>b, <1>c, <1>d, <1>e, <1>f, <1>22, Members DEF SweepRead, Unattached, Awaiting, UpdateStatus
<1>23. ASSUME NEW r \in Sweepers, NEW p \in PayoutIds, SweepCreate(r, p) PROVE VotesInv'
  <2>1. /\ r \in Procs /\ status[p] = "NONE" /\ UNCHANGED <<click, used, policyVars, vote>> /\ pc[r] = "sweepCreate"
        /\ status' = [status EXCEPT ![p] = "PENDING"]
    BY <1>23, Members DEF SweepCreate, UpdateStatus
  <2>2. \A s \in Signatories : vote'[p][s] \in {"none", "due"}
    BY <2>1 DEF FiringInv, LifecycleTypeOK, Stages, Untouched
  <2>3. Quorums /\ Carried
    BY <1>e, <2>1, <1>23 DEF SweepCreate
  <2> QED BY <1>k, <2>1, <2>2, <2>3
<1>24. ASSUME NEW r \in Sweepers, SweepApprove(r) PROVE VotesInv'
  <2>1. r \in Procs /\ pc[r] = "sweepApprove"
    BY <1>24, Members DEF SweepApprove
  <2>2. Asleep
    <3>1. at[r] \in PayoutIds
      BY <1>g, <2>1 DEF Driving
    <3>2. status' = [status EXCEPT ![at[r]] = "APPROVED"]
      BY <1>24 DEF SweepApprove, UpdateStatus
    <3> QED BY <1>s, <3>1, <3>2 DEF Awaiting
  <2>3. Quorums /\ Carried
    BY <1>e, <2>1, <1>24 DEF SweepApprove, Finish
  <2>4. Recorded /\ Settings
    BY <1>c, <1>24 DEF SweepApprove
  <2> QED BY <1>f, <2>2, <2>3, <2>4
<1>25. ASSUME NEW r \in Sweepers, SweepLock(r) PROVE VotesInv'
  BY <1>b, <1>c, <1>d, <1>e, <1>f, <1>25, Members DEF SweepLock, Unattached, Awaiting, UpdateStatus
<1>26. ASSUME NEW r \in Sweepers, SweepFire(r) PROVE VotesInv'
  <2>1. r \in Procs /\ pc[r] = "sweepFire"
    BY <1>26, Members DEF SweepFire
  <2>2. Asleep
    <3>1. at[r] \in PayoutIds
      BY <1>g, <2>1 DEF Driving
    <3>2. status' = [status EXCEPT ![at[r]] = "TRANSFERRING"]
      BY <1>26 DEF SweepFire, UpdateStatus
    <3> QED BY <1>s, <3>1, <3>2 DEF Awaiting
  <2>3. Quorums /\ Carried
    BY <1>e, <2>1, <1>26 DEF SweepFire, Finish
  <2>4. Recorded /\ Settings
    BY <1>c, <1>26 DEF SweepFire
  <2> QED BY <1>f, <2>2, <2>3, <2>4
<1>27. ASSUME NEW p \in PayoutIds, NombaConcludes(p) PROVE VotesInv'
  BY <1>c, <1>d, <1>e, <1>f, <1>27 DEF NombaConcludes
<1>28. ASSUME NEW w \in Workers, NEW e \in Event, TakeEvent(w, e) PROVE VotesInv'
  BY <1>b, <1>c, <1>d, <1>e, <1>f, <1>28, Members DEF TakeEvent, Unattached, Awaiting, UpdateStatus
<1>29. ASSUME NEW w \in Workers, Settle(w) PROVE VotesInv'
  <2>1. w \in Procs /\ pc[w] = "settle"
    BY <1>29, Members DEF Settle
  <2>2. Asleep
    <3>1. at[w] \in PayoutIds
      BY <1>g, <2>1 DEF Driving
    <3>2. status' = [status EXCEPT ![at[w]] = "TRANSFERRED"]
      BY <1>29 DEF Settle, UpdateStatus
    <3> QED BY <1>s, <3>1, <3>2 DEF Awaiting
  <2>3. Quorums /\ Carried
    BY <1>e, <2>1, <1>29 DEF Settle, Finish
  <2>4. Recorded /\ Settings
    BY <1>c, <1>29 DEF Settle
  <2> QED BY <1>f, <2>2, <2>3, <2>4
<1>30. ASSUME NEW w \in Workers, Refund(w) PROVE VotesInv'
  <2>1. w \in Procs /\ pc[w] = "refund"
    BY <1>30, Members DEF Refund
  <2>2. Asleep
    <3>1. at[w] \in PayoutIds
      BY <1>g, <2>1 DEF Driving
    <3>2. status' = [status EXCEPT ![at[w]] = "FAILED"]
      BY <1>30 DEF Refund, UpdateStatus
    <3> QED BY <1>s, <3>1, <3>2 DEF Awaiting
  <2>3. Quorums /\ Carried
    BY <1>e, <2>1, <1>30 DEF Refund, Finish
  <2>4. Recorded /\ Settings
    BY <1>c, <1>30 DEF Refund
  <2> QED BY <1>f, <2>2, <2>3, <2>4
<1>31. ASSUME NEW n \in Policies, SetPolicy(n) PROVE VotesInv'
  BY <1>31, PayoutsAssumption DEF SetPolicy, BooksTypeOK, VotesInv
<1>32. ASSUME NEW S \in SUBSET Procs, Stop(S) PROVE VotesInv'
  BY <1>32, PayoutsAssumption DEF Stop, BooksTypeOK, VotesInv
<1>33. ASSUME Inflow PROVE VotesInv'
  <2>1. Settings
    BY <1>33 DEF Inflow, policyVars, BooksTypeOK, Settings
  <2> QED BY <1>c, <1>d, <1>e, <1>f, <2>1, <1>33 DEF Inflow
<1>34. ASSUME NextMonth PROVE VotesInv'
  BY <1>c, <1>d, <1>e, <1>f, <1>34 DEF NextMonth
<1>35. ASSUME NEW S, NEW H, SetPanel(S, H) PROVE VotesInv'
  <2>1. Settings
    BY <1>35 DEF SetPanel, BooksTypeOK, Settings
  <2> QED BY <1>c, <1>d, <1>e, <1>f, <2>1, <1>35 DEF SetPanel
<1>36. ASSUME NEW s \in Signatories, Deactivate(s) \/ UpdateSignatory(s) PROVE VotesInv'
  BY <1>35, <1>36 DEF Deactivate, UpdateSignatory
<1>37. ASSUME NEW r \in Requests, NEW a \in Amounts, Initiate(r, a) PROVE VotesInv'
  <2>1. r \in Procs /\ pc[r] = "idle" /\ Goto(r, "lock")
    BY <1>37, Members DEF Initiate
  <2>2. Quorums /\ Carried
    BY <1>e, <2>1, <1>37 DEF Initiate
  <2> QED BY <1>c, <1>d, <1>f, <2>2, <1>37 DEF Initiate
<1>38. ASSUME NEW r \in Requests, RefuseLock(r) PROVE VotesInv'
  <2>1. r \in Procs /\ pc[r] = "lock" /\ Enter(r, "idle", NoPayout)
    BY <1>38, Members DEF RefuseLock, Finish
  <2>2. Quorums /\ Carried
    BY <1>e, <2>1, <1>38 DEF RefuseLock
  <2> QED BY <1>c, <1>d, <1>f, <2>2, <1>38 DEF RefuseLock
<1>39. ASSUME NEW p \in PayoutIds, NEW s \in Signatories, LapseLink(p, s) PROVE VotesInv'
  <2>1. Recorded
    BY <1>39 DEF LapseLink, VotesFor, Recorded, FiringInv, LifecycleTypeOK
  <2> QED BY <1>c, <1>d, <1>e, <1>f, <2>1, <1>39 DEF LapseLink
<1> HIDE DEF rowVars, voteVars, moneyVars, nombaVars, localVars, Carrying
<1> QED
  BY <1>1, <1>2, <1>3, <1>4, <1>5, <1>6, <1>7, <1>8, <1>9, <1>10, <1>11, <1>12, <1>13,
      <1>14, <1>15, <1>16, <1>17, <1>18, <1>19, <1>20, <1>21, <1>22, <1>23, <1>24,
      <1>25, <1>26, <1>27, <1>28, <1>29, <1>30, <1>31, <1>32, <1>33, <1>34,
      <1>36, <1>37, <1>38, <1>39, Members
  DEF Next, UserRequest, RequestStep, SweepStep, ExpiryStep, WorkerStep, Environment,
      Abort, Restart

\* No lost wake-up: when no click is in flight, a payout that still awaits
\* approval has no recorded decline and fewer approvals than the policy asks for
\* (approval.service.ts processAction: every vote is written before any count).
THEOREM VotesNotForgotten ==
  ASSUME OneWorker, SweepsUndisturbed, IsFiniteSet(Signatories)
  PROVE  Spec => []NoVoteForgotten
<1>1. Init => VotesInv
  <2> SUFFICES ASSUME Init PROVE VotesInv
    OBVIOUS
  <2>1. \A p \in PayoutIds : status[p] \notin Awaiting
    BY DEF Init, Awaiting
  <2>2. \A r \in Requests : pc[r] # "quorum"
    BY Members DEF Init
  <2> QED BY <2>1, <2>2 DEF VotesInv
<1>2. FiringInv /\ BooksTypeOK /\ VotesInv /\ [Next]_vars => VotesInv'
  <2>1. CASE Next
    BY <2>1, VotesNext
  <2>2. CASE UNCHANGED vars
    BY <2>2 DEF vars, VotesInv, VotesFor
  <2> QED BY <2>1, <2>2
<1>3. FiringInv /\ VotesInv => NoVoteForgotten
  <2> SUFFICES ASSUME FiringInv, VotesInv, used.policies = 0, used.faults = 0, NEW p \in PayoutIds,
                      status[p] \in Awaiting, \A r \in Requests : at[r] = p => pc[r] \notin ClickPcs
               PROVE  /\ VotesFor(p, "DECLINED") = {}
                      /\ Cardinality(VotesFor(p, "APPROVED")) < minApprovers
    BY DEF NoVoteForgotten
  <2>1. Cardinality(VotesFor(p, "APPROVED")) \in Nat
    <3>1. VotesFor(p, "APPROVED") \subseteq Signatories
      BY DEF VotesFor
    <3> QED BY <3>1, FS_Subset, FS_CardinalityType
  <2>2. minApprovers \in Nat
    BY PayoutsAssumption DEF FiringInv, LifecycleTypeOK
  <2>3. Carrying \subseteq ClickPcs /\ "decline" \in Carrying
    BY DEF Carrying, ClickPcs
  <2> QED BY <2>1, <2>2, <2>3 DEF VotesInv
<1> QED
  BY FiringInvariant, BooksAreTyped, <1>1, <1>2, <1>3, PTL DEF Spec

=============================================================================
