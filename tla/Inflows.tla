------------------------------- MODULE Inflows -------------------------------
(***************************************************************************)
(* The money-in half of the server: members' payments into one fund, from  *)
(* Nomba's webhook through the pg-boss queue and the webhook processor to  *)
(* the transaction row and the ledger, with the nightly reconciliation and *)
(* the operator's replay script that heal what the webhooks missed.        *)
(*                                                                         *)
(* An event is known by its requestId: <<x, "webhook">> for every delivery *)
(* of the payment x, <<x, "replay">> for the event the script makes up.    *)
(* Nomba, and pg-boss's handling of job rows, are external.                *)
(* GiftBook.tla says what is promised for the money; Inflows implements it *)
(* (ImplementsGiftBook).                                                   *)
(***************************************************************************)
EXTENDS FundLedger, FiniteSets

CONSTANTS
    Payments,          \* bank payments members may make
    Doubtful,          \* those whose account_reference may be unknown
    GiverOf,           \* the member whose account they are made to, or Nobody for
    Nobody,            \*   an account of a shared fund
    Jobs,              \* pgboss.job rows that may be created
    Workers,           \* queue consumers
    Operators,         \* runs of scripts/reconcile-replay.ts
    NoJob, NoEvent,
    GiftKobo, GiftFee, \* what a payment credits, and Nomba's charge on it
    RetryLimit,        \* retries of a job before the dead-letter queue
    MaxMonth, MaxFaults      \* bounds

Executors == Workers \cup Operators

Events == Payments \X {"webhook", "replay"}

ASSUME InflowsAssumption ==
    /\ IsFiniteSet(Payments) /\ Doubtful \subseteq Payments
    /\ DOMAIN GiverOf = Payments
    /\ NoJob \notin Jobs /\ NoEvent \notin Events \cup Payments
    /\ Workers \cap Operators = {}
    /\ {GiftKobo, GiftFee, RetryLimit, MaxFaults} \subseteq Nat
    /\ MaxMonth \in Nat \ {0}

VARIABLES
    paid,              \* the month Nomba received the payment in, or 0
    attributed,        \* payments whose account_reference is in the database
    webhook,           \* Nomba's delivery of the payment's webhook
    job,               \* pg-boss rows
    log,               \* webhook_log: "none", "open" (processed = FALSE), "done"
    recorded,          \* period_month of the row with this nomba_tx_ref, or 0
    ledger, month,     \* fund_ledger and currentPeriod()
    counted,           \* its member_count_paid, by month
    pc, at, hold,      \* executors: next step, event, job
    tx,                \* executors: the period and first-gift flag they carry
    flagged, audited,  \* audit_log: RECONCILIATION_ORPHAN, .._ORPHAN_REPLAYED
    raced,             \* months in which one member's payments overlapped
    used               \* timeouts, duplicates, failures and crashes so far

nombaVars == <<paid, webhook, attributed>>
moneyVars == <<recorded, ledger, month, counted, raced>>
procVars  == <<pc, at, hold, tx>>
auditVars == <<flagged, audited>>

vars == <<nombaVars, job, log, moneyVars, procVars, auditVars, used>>

\* What the server promises for this money.
Book == INSTANCE GiftBook WITH received <- paid, booked <- recorded

-----------------------------------------------------------------------------
Waiting == {"created", "retry"}                    \* jobs a worker may fetch
Held    == {"created", "retry", "active", "dead"}  \* jobs that keep an event

FreeJob == [x |-> NoEvent, state |-> "free", tries |-> 0]
NoTx == [period |-> 0, first |-> FALSE]

Init ==
    /\ paid = [x \in Payments |-> 0]
    /\ webhook = [x \in Payments |-> "none"]
    /\ attributed \in {Payments \ orphans : orphans \in SUBSET Doubtful}
    /\ job = [j \in Jobs |-> FreeJob]
    /\ log = [e \in Events |-> "none"]
    /\ recorded = [x \in Payments |-> 0]
    /\ ledger = [q \in {} |-> EmptyRow]
    /\ month = 1
    /\ counted = [q \in 1 .. MaxMonth |-> 0]
    /\ raced = {}
    /\ pc = [e \in Executors |-> "idle"]
    /\ at = [e \in Executors |-> NoEvent]
    /\ hold = [w \in Workers |-> NoJob]
    /\ tx = [e \in Executors |-> NoTx]
    /\ flagged = {}
    /\ audited = {}
    /\ used = 0

Goto(e, step) == pc' = [pc EXCEPT ![e] = step]

\* The executor is through with its event, and a worker with its job.
Leave(e) ==
    /\ Goto(e, "idle")
    /\ at' = [at EXCEPT ![e] = NoEvent]
    /\ tx' = [tx EXCEPT ![e] = NoTx]
    /\ hold' = IF e \in Workers THEN [hold EXCEPT ![e] = NoJob] ELSE hold

-----------------------------------------------------------------------------
(* Nomba (external) and webhook.controller.ts.                             *)

Pay(x) ==
    /\ paid[x] = 0
    /\ paid' = [paid EXCEPT ![x] = month]
    /\ webhook' = [webhook EXCEPT ![x] = "due"]
    /\ UNCHANGED <<attributed, job, log, moneyVars, procVars, auditVars, used>>

\* Nomba never delivers it, or gives up on an endpoint that keeps failing.
LoseWebhook(x) ==
    /\ webhook[x] = "due"
    /\ webhook' = [webhook EXCEPT ![x] = "lost"]
    /\ UNCHANGED <<paid, attributed, job, log, moneyVars, procVars, auditVars, used>>

FreeJobs == {j \in Jobs : job[j] = FreeJob}

\* boss.send with singletonKey: suppressed while a job of this key is created.
\* Rows are alike, so which one is taken does not matter.
Send(x) ==
    IF \E j \in Jobs : job[j].x = x /\ job[j].state = "created"
    THEN UNCHANGED job
    ELSE /\ FreeJobs # {}
         /\ job' = [job EXCEPT ![CHOOSE j \in FreeJobs : TRUE] =
                        [x |-> x, state |-> "created", tries |-> 0]]

\* (Mutant: the ACK does not wait for the durable write.)
DeliverUnqueued(x) ==
    /\ webhook[x] = "due"
    /\ webhook' = [webhook EXCEPT ![x] = "acked"]
    /\ UNCHANGED <<paid, attributed, job, log, moneyVars, procVars, auditVars, used>>

\* enqueueNombaEvent, then 200.
Deliver(x) ==
    /\ webhook[x] = "due"
    /\ Send(x)
    /\ webhook' = [webhook EXCEPT ![x] = "acked"]
    /\ UNCHANGED <<paid, attributed, log, moneyVars, procVars, auditVars, used>>

\* The timeout wins the race although the INSERT succeeds: 500, so that Nomba
\* will deliver again.
DeliverTimesOut(x) ==
    /\ webhook[x] = "due"
    /\ used < MaxFaults
    /\ Send(x)
    /\ used' = used + 1
    /\ UNCHANGED <<nombaVars, log, moneyVars, procVars, auditVars>>

\* "Webhooks may fire twice."
DeliverAgain(x) ==
    /\ webhook[x] = "acked"
    /\ used < MaxFaults
    /\ Send(x)
    /\ used' = used + 1
    /\ UNCHANGED <<nombaVars, log, moneyVars, procVars, auditVars>>

-----------------------------------------------------------------------------
(* pg-boss and the consumer of queue/webhook.queue.ts.                     *)

TakeJob(w, j) ==
    /\ pc[w] = "idle"
    /\ job[j].state \in Waiting
    /\ job' = [job EXCEPT ![j].state = "active"]
    /\ Goto(w, "log")
    /\ at' = [at EXCEPT ![w] = <<job[j].x, "webhook">>]
    /\ hold' = [hold EXCEPT ![w] = j]
    /\ UNCHANGED <<nombaVars, log, moneyVars, tx, auditVars, used>>

\* A failed job is retried, and moved to the dead-letter queue after that.
FailedJob(j) ==
    IF job[j].tries < RetryLimit
    THEN [x |-> job[j].x, state |-> "retry", tries |-> job[j].tries + 1]
    ELSE [job[j] EXCEPT !.state = "dead"]

\* pg-boss fails an active job whose consumer is gone.
ExpireJob(j) ==
    /\ job[j].state = "active"
    /\ \A w \in Workers : hold[w] # j
    /\ job' = [job EXCEPT ![j] = FailedJob(j)]
    /\ UNCHANGED <<nombaVars, log, moneyVars, procVars, auditVars, used>>

\* process threw: the job fails; the script reports it and goes on.
Throw(e) ==
    /\ job' = IF e \in Workers THEN [job EXCEPT ![hold[e]] = FailedJob(hold[e])] ELSE job
    /\ Leave(e)

-----------------------------------------------------------------------------
(* webhook.processor.ts process.                                           *)

\* (Mutant: the row is inserted with processed = TRUE.)
LogEventDone(e) ==
    /\ pc[e] = "log"
    /\ IF log[at[e]] = "none"
       THEN log' = [log EXCEPT ![at[e]] = "done"] /\ Goto(e, "resolve")
       ELSE Goto(e, "return") /\ UNCHANGED log
    /\ UNCHANGED <<nombaVars, job, moneyVars, at, hold, tx, auditVars, used>>

\* logEvent: INSERT ... ON CONFLICT DO NOTHING; a duplicate returns at once.
LogEvent(e) ==
    /\ pc[e] = "log"
    /\ IF log[at[e]] = "none"
       THEN log' = [log EXCEPT ![at[e]] = "open"] /\ Goto(e, "resolve")
       ELSE Goto(e, "return") /\ UNCHANGED log
    /\ UNCHANGED <<nombaVars, job, moneyVars, at, hold, tx, auditVars, used>>

\* inflow-handler handle: the account_reference is looked up, and currentPeriod()
\* read; a payment to an unknown account is logged as an orphan and counts as
\* handled.
Resolve(e) ==
    /\ pc[e] = "resolve"
    /\ IF at[e][1] \in attributed
       THEN Goto(e, "insert") /\ tx' = [tx EXCEPT ![e].period = month]
       ELSE Goto(e, "mark") /\ UNCHANGED tx
    /\ UNCHANGED <<nombaVars, job, log, moneyVars, at, hold, auditVars, used>>

\* Gifts of the member who made x, but for x itself: those in the books of month
\* q, and those whose transaction is open (READ COMMITTED does not see them).
SameGiver(x, y) == GiverOf[x] # Nobody /\ GiverOf[y] = GiverOf[x]
OtherGifts(x, q) == {y \in Payments \ {x} : SameGiver(x, y) /\ recorded[y] = q}
OpenGifts(x, q) ==
    {o \in Executors : pc[o] = "credit" /\ SameGiver(x, at[o][1]) /\ tx[o].period = q}

\* (Mutant: no UNIQUE key on nomba_tx_ref.)
InsertTwice(e) ==
    /\ pc[e] = "insert"
    /\ tx' = [tx EXCEPT ![e].first =
                  GiverOf[at[e][1]] # Nobody /\ OtherGifts(at[e][1], tx[e].period) = {}]
    /\ Goto(e, "credit")
    /\ UNCHANGED <<nombaVars, job, log, moneyVars, at, hold, auditVars, used>>

\* (Mutant: the row just inserted counts as an earlier gift.)
InsertSelfCounted(e) ==
    LET x == at[e][1] IN
    /\ pc[e] = "insert"
    /\ \A o \in Executors : pc[o] = "credit" => at[o][1] # x
    /\ Goto(e, IF recorded[x] = 0 THEN "credit" ELSE "catch")
    /\ UNCHANGED <<nombaVars, job, log, moneyVars, at, hold, tx, auditVars, used>>

\* The transaction begins with the INSERT of the row, UNIQUE by nomba_tx_ref: it
\* waits for an open transaction with the same key, and throws if the key is
\* there.  Then it looks for another gift of this member in this period.
Insert(e) ==
    LET x == at[e][1]
        q == tx[e].period
    IN
    /\ pc[e] = "insert"
    /\ \A o \in Executors : pc[o] = "credit" => at[o][1] # x
    /\ IF recorded[x] = 0
       THEN /\ tx' = [tx EXCEPT ![e].first = GiverOf[x] # Nobody /\ OtherGifts(x, q) = {}]
            /\ raced' = IF OpenGifts(x, q) = {} THEN raced ELSE raced \cup {q}
            /\ Goto(e, "credit")
       ELSE Goto(e, "catch") /\ UNCHANGED <<tx, raced>>
    /\ UNCHANGED <<nombaVars, job, log, recorded, ledger, month, counted, at, hold,
                   auditVars, used>>

\* creditLedger, and COMMIT.
Credit(e) ==
    LET q == tx[e].period IN
    /\ pc[e] = "credit"
    /\ recorded' = [recorded EXCEPT ![at[e][1]] = q]
    /\ ledger' = CreditLedger(ledger, q, GiftKobo, GiftFee)
    /\ counted' = IF tx[e].first THEN [counted EXCEPT ![q] = @ + 1] ELSE counted
    /\ Goto(e, "mark")
    /\ UNCHANGED <<nombaVars, job, log, month, raced, at, hold, tx, auditVars, used>>

MarkProcessed(e) ==
    /\ pc[e] = "mark"
    /\ log' = [log EXCEPT ![at[e]] = "done"]
    /\ Goto(e, "return")
    /\ UNCHANGED <<nombaVars, job, moneyVars, at, hold, tx, auditVars, used>>

\* (Mutant: the failed event's row is closed.)
MarkFailedDone(e) ==
    /\ pc[e] = "catch"
    /\ log' = [log EXCEPT ![at[e]] = "done"]
    /\ Throw(e)
    /\ UNCHANGED <<nombaVars, moneyVars, auditVars, used>>

\* The catch block: markFailed leaves processed = FALSE, and rethrows.
MarkFailed(e) ==
    /\ pc[e] = "catch"
    /\ Throw(e)
    /\ UNCHANGED <<nombaVars, log, moneyVars, auditVars, used>>

\* process returned, of a duplicate too: pg-boss completes the job, the script
\* reports and audits the replay.
Return(e) ==
    /\ pc[e] = "return"
    /\ IF e \in Workers
       THEN job' = [job EXCEPT ![hold[e]].state = "completed"]
       ELSE UNCHANGED job
    /\ audited' = IF e \in Operators THEN audited \cup {at[e][1]} ELSE audited
    /\ Leave(e)
    /\ UNCHANGED <<nombaVars, log, moneyVars, flagged, used>>

\* A statement of process fails: the INSERT of the log row outside the try, any
\* other inside it; an open transaction rolls back.
StepFails(e) ==
    /\ used < MaxFaults
    /\ used' = used + 1
    /\ \/ /\ pc[e] = "log"
          /\ Throw(e)
       \/ /\ pc[e] \in {"resolve", "insert", "credit", "mark"}
          /\ Goto(e, "catch")
          /\ UNCHANGED <<job, at, hold, tx>>
    /\ UNCHANGED <<nombaVars, log, moneyVars, auditVars>>

\* The executor's process is killed; its job stays active.
Crash(e) ==
    /\ pc[e] # "idle"
    /\ used < MaxFaults
    /\ used' = used + 1
    /\ Leave(e)
    /\ UNCHANGED <<nombaVars, job, log, moneyVars, auditVars>>

-----------------------------------------------------------------------------
(* jobs/reconciliation.job.ts and scripts/reconcile-replay.ts.             *)

\* The nightly job goes through Nomba's list of the current month's payments
\* and looks each one up; one it does not get to is left for another night.
RunReconciliation(x) ==
    /\ paid[x] = month
    /\ recorded[x] = 0
    /\ flagged' = flagged \cup {x}
    /\ UNCHANGED <<nombaVars, job, log, moneyVars, procVars, audited, used>>

\* The script lists x as outstanding ...
Review(o, x) ==
    /\ pc[o] = "idle"
    /\ x \in flagged
    /\ recorded[x] = 0
    /\ Goto(o, "review")
    /\ at' = [at EXCEPT ![o] = <<x, "replay">>]
    /\ UNCHANGED <<nombaVars, job, log, moneyVars, hold, tx, auditVars, used>>

\* ... and, perhaps much later, the operator has it replayed or skips it.
Confirm(o) ==
    /\ pc[o] = "review"
    /\ \/ /\ at[o][1] \in attributed
          /\ Goto(o, "log")
          /\ UNCHANGED <<at, hold, tx>>
       \/ Leave(o)
    /\ UNCHANGED <<nombaVars, job, log, moneyVars, auditVars, used>>

NextMonth ==
    /\ month < MaxMonth
    /\ month' = month + 1
    /\ UNCHANGED <<nombaVars, job, log, recorded, ledger, counted, raced, procVars,
                   auditVars, used>>

-----------------------------------------------------------------------------
Process(e) ==
    \/ LogEvent(e) \/ Resolve(e) \/ Insert(e) \/ Credit(e)
    \/ MarkProcessed(e) \/ MarkFailed(e) \/ Return(e)

Next ==
    \/ \E x \in Payments :
          \/ Pay(x) \/ LoseWebhook(x)
          \/ Deliver(x) \/ DeliverTimesOut(x) \/ DeliverAgain(x)
          \/ RunReconciliation(x)
          \/ \E o \in Operators : Review(o, x)
    \/ \E w \in Workers, j \in Jobs : TakeJob(w, j)
    \/ \E j \in Jobs : ExpireJob(j)
    \/ \E e \in Executors : Process(e) \/ StepFails(e) \/ Crash(e)
    \/ \E o \in Operators : Confirm(o)
    \/ NextMonth

Spec == Init /\ [][Next]_vars

\* The consumers poll, pg-boss expires abandoned jobs, and Nomba delivers a
\* webhook or gives up on it.
Fairness ==
    /\ \A e \in Executors : WF_vars(Process(e))
    /\ \A w \in Workers : WF_vars(\E j \in Jobs : TakeJob(w, j))
    /\ \A j \in Jobs : WF_vars(ExpireJob(j))
    /\ \A x \in Payments : WF_vars(Deliver(x) \/ LoseWebhook(x))

FairSpec == Spec /\ Fairness

-----------------------------------------------------------------------------
(* Properties.                                                             *)

\* The type invariant, in parts.
TypeNomba ==
    /\ paid \in [Payments -> 0 .. MaxMonth]
    /\ webhook \in [Payments -> {"none", "due", "acked", "lost"}]
    /\ attributed \subseteq Payments

JobRow == [x : Payments \cup {NoEvent},
           state : {"free", "created", "active", "retry", "completed", "dead"},
           tries : 0 .. RetryLimit]

TypeQueue ==
    /\ job \in [Jobs -> JobRow]
    /\ log \in [Events -> {"none", "open", "done"}]

TypeMoney ==
    /\ recorded \in [Payments -> 0 .. MaxMonth]
    /\ month \in 1 .. MaxMonth
    /\ counted \in [1 .. MaxMonth -> Nat]
    /\ raced \subseteq 1 .. MaxMonth

TypeLedger == DOMAIN ledger \in SUBSET (1 .. MaxMonth) /\ ledger \in [DOMAIN ledger -> Row]

TypeProc ==
    /\ pc \in [Executors -> {"idle", "review", "log", "resolve", "insert",
                             "credit", "mark", "catch", "return"}]
    /\ at \in [Executors -> Events \cup {NoEvent}]
    /\ hold \in [Workers -> Jobs \cup {NoJob}]
    /\ tx \in [Executors -> [period : 0 .. MaxMonth, first : BOOLEAN]]

TypeRest ==
    /\ flagged \subseteq Payments /\ audited \subseteq Payments
    /\ used \in 0 .. MaxFaults

TypeOK ==
    TypeNomba /\ TypeQueue /\ TypeMoney /\ TypeLedger /\ TypeProc /\ TypeRest

\* A payment is credited once, whatever is delivered twice, retried, replayed
\* by the operator or cut short by a crash: each month's row holds exactly the
\* gifts recorded in it, and their charges.  (ImplementsGiftBook implies it: the
\* books start empty, and BookGift adds to both sides.)
CreditedOnce ==
    \A q \in 1 .. MaxMonth :
        LET gifts == Cardinality({x \in Payments : recorded[x] = q})
            row   == IF q \in DOMAIN ledger THEN ledger[q] ELSE EmptyRow
        IN  row.collected = gifts * GiftKobo /\ row.fees = gifts * GiftFee

\* The refinement: whatever webhooks, queue, processor, crashes, reconciliation
\* and replays do between them, the money they move is booked as GiftBook.tla has
\* it: each gift once, in one step with its credit, in no month before its payment.
ImplementsGiftBook == Book!BookSpec

\* Money the server has recorded was received, and no event is closed before
\* its payment is in the books: processed = TRUE can be trusted.
ProcessedIsRecorded ==
    /\ \A x \in Payments : recorded[x] # 0 => paid[x] # 0
    /\ \A e \in Events : log[e] = "done" /\ e[1] \in attributed => recorded[e[1]] # 0

\* "member_count_paid tracks UNIQUE givers per period, not payment count": no
\* giver is left out and none counted twice, except that two payments of one
\* member whose transactions are open at the same time may each look for the
\* other in vain.
GiversCounted ==
    \A q \in 1 .. MaxMonth :
        LET givers == {GiverOf[x] : x \in {y \in Payments : recorded[y] = q}} \ {Nobody}
        IN  /\ counted[q] >= Cardinality(givers)
            /\ q \notin raced => counted[q] = Cardinality(givers)

\* A replay the operator's script reports as credited is in the books, unless
\* an earlier replay of it failed: that one left its row with processed = FALSE,
\* and process returned at once.
ReplayedIsCredited ==
    \A x \in audited : recorded[x] # 0 \/ log[<<x, "replay">>] = "open"

\* An event that was acknowledged to Nomba is never lost without a trace: it is
\* in the books, or in the queue or the dead-letter queue, or its webhook_log
\* row is there with processed = FALSE.
NothingLostSilently ==
    \A x \in attributed :
        webhook[x] = "acked" =>
            \/ recorded[x] # 0
            \/ \E j \in Jobs : job[j].x = x /\ job[j].state \in Held
            \/ log[<<x, "webhook">>] = "open"

\* The same without the last resort, as the architecture document promises:
\* failures are retried, then dead-lettered.
AckedIsHeld ==
    \A x \in attributed :
        webhook[x] = "acked" =>
            \/ recorded[x] # 0
            \/ \E j \in Jobs : job[j].x = x /\ job[j].state \in Held

\* Every payment's webhook comes to an end: credited, given up by Nomba or by
\* the queue, or left in webhook_log, where nothing works on it any more, for
\* somebody to look at.
WebhooksSettle ==
    \A x \in Payments :
        x \in attributed /\ webhook[x] = "due" ~>
            \/ recorded[x] # 0
            \/ webhook[x] = "lost"
            \/ \E j \in Jobs : job[j].x = x /\ job[j].state = "dead"
            \/ /\ log[<<x, "webhook">>] = "open"
               /\ \A j \in Jobs : job[j].x = x => job[j].state = "completed"

=============================================================================
