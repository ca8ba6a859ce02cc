---------------------------- MODULE InflowsProofs ----------------------------
(***************************************************************************)
(* For any number of payments, jobs, consumers and operators, and any      *)
(* number of failures and crashes: a payment is credited once, its giver   *)
(* is counted, an acknowledged event leaves a trace, and processed = TRUE  *)
(* and the replay script's report can be trusted as far as they go.        *)
(*                                                                         *)
(* The argument: a consumer holds its job alone (QueueShape) and what an   *)
(* executor has done with its event can be read off its step (StepShape).  *)
(* The UNIQUE key lets one transaction of a payment be open at a time      *)
(* (OneWriter), so that each COMMIT adds one gift to the books             *)
(* (CreditedOnce); of two open payments of one member the later one found  *)
(* the other (FlagsAgree), so that the first-gift flag is wrong only where *)
(* they overlapped.  Log rows are never removed, so that a job that is     *)
(* through has one (Traces).                                               *)
(*                                                                         *)
(* With one more invariant, the order of dates (NotBefore), a COMMIT is    *)
(* the step that books a gift in GiftBook.tla, and no other step books.    *)
(*                                                                         *)
(* At the end, for all amounts, how a payment is classified and how far a  *)
(* member has come (Pledges.tla): arithmetic without states.               *)
(***************************************************************************)
EXTENDS Inflows, Pledges, FiniteSetTheorems, TLAPS

\* The rows of Nomba's queue and what the consumers hold of them.
QueueShape ==
    /\ \A j \in Jobs : /\ job[j].state = "free" => job[j] = FreeJob
                       /\ job[j].state # "free" => job[j].x \in Payments
    /\ \A w \in Workers :
          IF pc[w] = "idle" THEN hold[w] = NoJob
          ELSE /\ hold[w] \in Jobs
               /\ job[hold[w]].state = "active"
               /\ at[w] = <<job[hold[w]].x, "webhook">>
    /\ \A w, v \in Workers : hold[w] = hold[v] /\ hold[w] # NoJob => w = v

\* Where an executor can be with its event.
StepShape == \A e \in Executors :
    /\ pc[e] # "idle" => at[e] \in Events
    /\ e \in Operators /\ pc[e] # "idle" => at[e][2] = "replay"
    /\ e \in Operators /\ pc[e] \notin {"idle", "review"} => at[e][1] \in attributed
    /\ pc[e] \in {"insert", "credit"} =>
           at[e][1] \in attributed /\ tx[e].period \in 1 .. MaxMonth
    /\ pc[e] \notin {"idle", "review", "log"} => log[at[e]] # "none"
    /\ pc[e] = "mark" /\ at[e][1] \in attributed => recorded[at[e][1]] # 0

\* Everything the server works on was paid.
PaidFor ==
    /\ \A x \in Payments :
          webhook[x] # "none" \/ x \in flagged \/ recorded[x] # 0 => paid[x] # 0
    /\ \A j \in Jobs : job[j].state # "free" => paid[job[j].x] # 0
    /\ \A e \in Executors : pc[e] # "idle" => paid[at[e][1]] # 0

\* The UNIQUE key: of the open transactions none is of a recorded payment, and
\* no two are of one.
OneWriter ==
    /\ \A e \in Executors : pc[e] = "credit" => recorded[at[e][1]] = 0
    /\ \A e, o \in Executors :
          pc[e] = "credit" /\ pc[o] = "credit" /\ at[e][1] = at[o][1] => e = o

\* OtherGifts in the books rec.
Gifts(rec, x, q) == {y \in Payments \ {x} : SameGiver(x, y) /\ rec[y] = q}

\* What the first-gift flag of an open transaction says of the books.
FlagsAgree ==
    /\ \A e \in Executors : pc[e] = "credit" =>
          /\ GiverOf[at[e][1]] = Nobody => ~tx[e].first
          /\ GiverOf[at[e][1]] # Nobody /\ ~tx[e].first =>
                Gifts(recorded, at[e][1], tx[e].period) # {}
          /\ tx[e].first /\ tx[e].period \notin raced =>
                Gifts(recorded, at[e][1], tx[e].period) = {}
    /\ \A e, o \in Executors :
          /\ e # o /\ pc[e] = "credit" /\ pc[o] = "credit"
          /\ SameGiver(at[e][1], at[o][1]) /\ tx[e].period = tx[o].period
          => tx[e].period \in raced

\* An acknowledged event has a job, and one that is through left its log row.
Traces ==
    /\ \A x \in Payments : webhook[x] = "acked" =>
          \E j \in Jobs : job[j].x = x /\ job[j].state # "free"
    /\ \A j \in Jobs : job[j].state = "completed" => log[<<job[j].x, "webhook">>] # "none"

\* The log row of a payment's webhook or of its replay is closed behind the books.
LogShape == \A ev \in Events : log[ev] = "done" /\ ev[1] \in attributed => recorded[ev[1]] # 0
ReplayTraces == \A x \in audited : x \in attributed /\ log[<<x, "replay">>] # "none"

Inv ==
    /\ TypeOK /\ QueueShape /\ StepShape /\ PaidFor /\ OneWriter /\ FlagsAgree
    /\ Traces /\ LogShape /\ ReplayTraces /\ CreditedOnce /\ GiversCounted

-----------------------------------------------------------------------------
\* Events are pairs.
LEMMA EventsArePairs ==
    /\ \A ev \in Events : /\ ev[1] \in Payments /\ ev[2] \in {"webhook", "replay"}
                          /\ ev = <<ev[1], ev[2]>>
    /\ \A x \in Payments : <<x, "webhook">> \in Events /\ <<x, "replay">> \in Events
  BY DEF Events

\* What the assumption says of the numbers.
LEMMA Constants ==
    /\ GiftKobo \in Nat /\ GiftFee \in Nat /\ RetryLimit \in Nat /\ MaxFaults \in Nat
    /\ MaxMonth \in Nat \ {0}
    /\ NoJob \notin Jobs /\ NoEvent \notin Events /\ NoEvent \notin Payments
    /\ Workers \cap Operators = {}
  BY InflowsAssumption

\* There is a job for the event, and every other row is left alone.
Sent(x) ==
    /\ \A j \in Jobs : \/ job'[j] = job[j]
                      \/ /\ job[j] = FreeJob
                         /\ job'[j] = [x |-> x, state |-> "created", tries |-> 0]
    /\ job' \in [Jobs -> JobRow]
    /\ \E j \in Jobs : job'[j].x = x /\ job'[j].state # "free"

\* boss.send sees to that, suppressed by the singletonKey or not.
LEMMA SendHolds == ASSUME TypeOK, QueueShape, NEW x \in Payments, Send(x) PROVE Sent(x)
<1>. USE Constants DEF TypeOK, TypeQueue, JobRow
<1>1. CASE \E j \in Jobs : job[j].x = x /\ job[j].state = "created"
  BY <1>1 DEF Send, Sent
<1>2. CASE ~\E j \in Jobs : job[j].x = x /\ job[j].state = "created"
  <2>. DEFINE row == [x |-> x, state |-> "created", tries |-> 0]
              new == CHOOSE j \in FreeJobs : TRUE
  <2>1. new \in Jobs /\ job[new] = FreeJob
    BY <1>2 DEF Send, FreeJobs
  <2>2. job' = [job EXCEPT ![new] = row]
    BY <1>2 DEF Send
  <2>. HIDE DEF new
  <2>. QED
    BY <2>1, <2>2 DEF Sent
<1>. QED
  BY <1>1, <1>2

\* A failed job keeps its event and waits for a retry or for somebody to look.
LEMMA FailedJobShape ==
    ASSUME TypeOK, NEW j \in Jobs
    PROVE  /\ FailedJob(j) \in JobRow
           /\ FailedJob(j).x = job[j].x
           /\ FailedJob(j).state \in {"retry", "dead"}
<1>. DEFINE r == job[j]
<1>1. r \in JobRow
  BY DEF TypeOK, TypeQueue
<1>2. FailedJob(j) = IF r.tries < RetryLimit
                     THEN [x |-> r.x, state |-> "retry", tries |-> r.tries + 1]
                     ELSE [r EXCEPT !.state = "dead"]
  BY DEF FailedJob
<1>. HIDE DEF r
<1>3. [r EXCEPT !.state = "dead"] = [x |-> r.x, state |-> "dead", tries |-> r.tries]
  BY <1>1 DEF JobRow
<1>4. r.tries < RetryLimit => r.tries + 1 \in 0 .. RetryLimit
  BY <1>1, Constants DEF JobRow
<1>. QED
  BY <1>1, <1>2, <1>3, <1>4 DEF JobRow, r

\* The job of an executor that is through has state s now; other rows are left alone.
Ended(e, s) ==
    /\ job' \in [Jobs -> JobRow]
    /\ \A j \in Jobs :
          /\ job'[j].x = job[j].x
          /\ IF e \in Workers /\ j = hold[e] THEN job'[j].state \in s ELSE job'[j] = job[j]

\* A throw leaves the job to pg-boss, which retries or dead-letters it.
LEMMA ThrowEnds ==
    ASSUME TypeOK, QueueShape, NEW e \in Executors, pc[e] # "idle", Throw(e)
    PROVE  Ended(e, {"retry", "dead"})
<1>. USE DEF TypeOK, TypeQueue
<1>1. CASE e \in Workers
  <2>1. hold[e] \in Jobs /\ job' = [job EXCEPT ![hold[e]] = FailedJob(hold[e])]
    BY <1>1 DEF Throw, QueueShape
  <2>2. /\ FailedJob(hold[e]) \in JobRow /\ FailedJob(hold[e]).x = job[hold[e]].x
        /\ FailedJob(hold[e]).state \in {"retry", "dead"}
    BY <2>1, FailedJobShape
  <2>. QED
    BY <1>1, <2>1, <2>2 DEF Ended
<1>2. CASE e \notin Workers
  BY <1>2 DEF Throw, Ended
<1>. QED
  BY <1>1, <1>2

\* process's return completes the job.
LEMMA ReturnEnds ==
    ASSUME TypeOK, QueueShape, NEW e \in Executors, Return(e)
    PROVE  Ended(e, {"completed"})
<1>. USE DEF TypeOK, TypeQueue
<1>1. CASE e \in Workers
  <2>1. /\ hold[e] \in Jobs /\ job[hold[e]] \in JobRow
        /\ job' = [job EXCEPT ![hold[e]].state = "completed"]
    BY <1>1 DEF Return, QueueShape
  <2>. QED
    BY <1>1, <2>1 DEF Ended, JobRow
<1>2. CASE e \notin Workers
  BY <1>2 DEF Return, Ended
<1>. QED
  BY <1>1, <1>2

\* Only an INSERT opens a transaction, and only a COMMIT changes the books.
LEMMA OnlyInsertOpens ==
    ASSUME Inv, [Next]_vars
    PROVE  \/ \E e \in Executors : Insert(e) \/ Credit(e)
           \/ /\ \A o \in Executors : pc'[o] = "credit" =>
                    pc[o] = "credit" /\ at'[o] = at[o] /\ tx'[o] = tx[o]
              /\ UNCHANGED <<recorded, ledger, counted, raced>>
<1>. DEFINE Quiet == \A o \in Executors : pc'[o] = "credit" =>
                         pc[o] = "credit" /\ at'[o] = at[o] /\ tx'[o] = tx[o]
<1>1. \/ \E e \in Executors : Insert(e) \/ Credit(e)
      \/ UNCHANGED <<recorded, ledger, counted, raced>>
  BY ZenonT(60) DEF Next, Process, vars, moneyVars, Pay, LoseWebhook, Deliver, DeliverTimesOut,
         DeliverAgain, RunReconciliation, TakeJob, ExpireJob, LogEvent, Resolve,
         MarkProcessed, MarkFailed, Return, StepFails, Crash, Review, Confirm, NextMonth
<1>2. \/ UNCHANGED procVars
      \/ \E w \in Workers, j \in Jobs : TakeJob(w, j)
      \/ \E e \in Executors : Process(e) \/ StepFails(e) \/ Crash(e)
      \/ \E o \in Operators : Confirm(o) \/ \E x \in Payments : Review(o, x)
  BY DEF Next, vars, procVars, Pay, LoseWebhook, Deliver, DeliverTimesOut, DeliverAgain,
         RunReconciliation, ExpireJob, NextMonth
<1>. USE DEF Inv, TypeOK, TypeProc, Executors, Goto, Leave
<1>3. CASE UNCHANGED procVars
  BY <1>1, <1>3 DEF procVars
<1>4. ASSUME NEW w \in Workers, NEW j \in Jobs, TakeJob(w, j) PROVE Quiet
  BY <1>4 DEF TakeJob
<1>5. ASSUME NEW e \in Executors, StepFails(e) \/ Crash(e) PROVE Quiet
  BY <1>5 DEF StepFails, Crash, Throw
<1>6. ASSUME NEW o \in Operators, \/ Confirm(o)
                                  \/ \E x \in Payments : Review(o, x)
      PROVE  Quiet
  BY <1>6 DEF Confirm, Review
<1>7. ASSUME NEW e \in Executors, \/ LogEvent(e) \/ Resolve(e) \/ MarkProcessed(e)
                                  \/ MarkFailed(e) \/ Return(e)
      PROVE  Quiet
  BY <1>7 DEF LogEvent, Resolve, MarkProcessed, MarkFailed, Return, Throw
<1>. HIDE DEF Quiet, Inv
<1>8. \/ \E e \in Executors : Insert(e) \/ Credit(e)
      \/ UNCHANGED procVars
      \/ Quiet
  BY <1>2, <1>4, <1>5, <1>6, <1>7 DEF Process
<1>. QED
  BY <1>1, <1>3, <1>8 DEF Quiet

\* creditLedger adds one gift to the row of its period.
LEMMA CreditAdds ==
    ASSUME TypeOK, NEW q \in 1 .. MaxMonth
    PROVE  LET new == CreditLedger(ledger, q, GiftKobo, GiftFee)
               was == IF q \in DOMAIN ledger THEN ledger[q] ELSE EmptyRow
           IN  /\ DOMAIN new = DOMAIN ledger \cup {q}
               /\ DOMAIN new \in SUBSET (1 .. MaxMonth) /\ new \in [DOMAIN new -> Row]
               /\ new[q].collected = was.collected + GiftKobo
               /\ new[q].fees = was.fees + GiftFee
               /\ \A p \in DOMAIN ledger : p # q => new[p] = ledger[p]
<1>. USE Constants DEF TypeOK, TypeQueue, TypeLedger, TypeMoney, JobRow
<1>. DEFINE up == Upsert(ledger, q)
            new == CreditLedger(ledger, q, GiftKobo, GiftFee)
<1>1. /\ DOMAIN up = DOMAIN ledger \cup {q}
      /\ \A p \in DOMAIN ledger : up[p] = ledger[p]
      /\ q \notin DOMAIN ledger => up[q] = EmptyRow
      /\ EmptyRow \in Row
  BY DEF Upsert, EmptyRow, Row
<1>2. up = [p \in DOMAIN up |-> up[p]] /\ up[q] \in Row
  BY <1>1 DEF Upsert
<1>3. /\ DOMAIN new = DOMAIN up
      /\ new[q] = [up[q] EXCEPT !.collected = @ + GiftKobo, !.fees = @ + GiftFee]
      /\ \A p \in DOMAIN up : p # q => new[p] = up[p]
      /\ new = [p \in DOMAIN new |-> new[p]]
  <2>. HIDE DEF up
  <2>1. new = [[up EXCEPT ![q].collected = @ + GiftKobo] EXCEPT ![q].fees = @ + GiftFee]
    BY DEF CreditLedger, up
  <2>. HIDE DEF new
  <2>. QED
    BY <1>1, <1>2, <2>1, ZenonT(60) DEF Row
<1>4. new[q] \in Row /\ new[q].collected = up[q].collected + GiftKobo
      /\ new[q].fees = up[q].fees + GiftFee
  <2>. DEFINE r == up[q]
  <2>. HIDE DEF new, up, r
  <2>1. r \in Row
    BY <1>2 DEF r
  <2>. DEFINE a == r.collected + GiftKobo
              b == r.fees + GiftFee
              one == [r EXCEPT !.collected = a]
              two == [one EXCEPT !.fees = b]
  <2>2. new[q] = two
    BY <1>3, <2>1 DEF Row, r
  <2>3. a \in Nat /\ b \in Nat
    BY <2>1, SMTT(30) DEF Row
  <2>. HIDE DEF a, b
  <2>4. one \in Row /\ one.collected = a
    BY <2>1, <2>3 DEF Row
  <2>. HIDE DEF one
  <2>5. two \in Row /\ two.collected = one.collected /\ two.fees = b
    BY <2>3, <2>4 DEF Row
  <2>. QED
    BY <2>2, <2>4, <2>5 DEF r, a, b
<1>. HIDE DEF new, up
<1>5. \A p \in DOMAIN new : new[p] \in Row
  BY <1>1, <1>3, <1>4
<1>6. new \in [DOMAIN new -> Row]
  BY <1>3, <1>5
<1>7. DOMAIN new \in SUBSET (1 .. MaxMonth)
  BY <1>1, <1>3
<1>. QED
  BY <1>1, <1>3, <1>4, <1>6, <1>7 DEF new

\* The type invariant is preserved, part by part: what Nomba knows.
LEMMA TypeNombaNext == ASSUME Inv, [Next]_vars PROVE TypeNomba'
<1>1. \/ UNCHANGED <<paid, webhook, attributed>>
      \/ \E x \in Payments : Pay(x) \/ LoseWebhook(x) \/ Deliver(x)
  BY ZenonT(60) DEF Next, Process, DeliverTimesOut, DeliverAgain, RunReconciliation, TakeJob, Goto,
         ExpireJob, LogEvent, Resolve, Insert, Credit, MarkProcessed, MarkFailed, Throw,
         Leave, Return, StepFails, Crash, Review, Confirm, NextMonth, vars, nombaVars,
         moneyVars, procVars, auditVars
<1>. USE Constants DEF Inv, Executors, nombaVars, moneyVars, procVars, auditVars, TypeOK,
        TypeNomba
<1>2. CASE UNCHANGED <<paid, webhook, attributed>>
  BY <1>2
<1>3. ASSUME NEW x \in Payments, Pay(x) PROVE TypeNomba'
  BY <1>3, month \in 0 .. MaxMonth DEF Pay, TypeMoney
<1>4. ASSUME NEW x \in Payments, LoseWebhook(x) PROVE TypeNomba'
  BY <1>4 DEF LoseWebhook
<1>5. ASSUME NEW x \in Payments, Deliver(x) PROVE TypeNomba'
  BY <1>5 DEF Deliver
<1>. QED
  BY <1>1, <1>2, <1>3, <1>4, <1>5

\* The rows of the queue and of webhook_log keep their shape.
LEMMA TypeQueueNext == ASSUME Inv, [Next]_vars PROVE TypeQueue'
<1>1. \/ UNCHANGED <<job, log>>
      \/ \E x \in Payments : Deliver(x) \/ DeliverTimesOut(x) \/ DeliverAgain(x)
      \/ \E w \in Workers, j \in Jobs : TakeJob(w, j)
      \/ \E j \in Jobs : ExpireJob(j)
      \/ \E e \in Executors : LogEvent(e) \/ MarkProcessed(e) \/ MarkFailed(e) \/ Return(e) \/
                           StepFails(e)
  BY DEF Next, Process, Pay, LoseWebhook, RunReconciliation, Resolve, Goto, Insert, Credit,
         Crash, Leave, Review, Confirm, NextMonth, vars, nombaVars, moneyVars, procVars,
         auditVars
<1>. USE Constants DEF Inv, Executors, nombaVars, moneyVars, procVars, auditVars, TypeOK,
        TypeQueue, TypeProc
<1>2. CASE UNCHANGED <<job, log>>
  BY <1>2
<1>3. ASSUME NEW x \in Payments, Deliver(x) PROVE TypeQueue'
  <2>1. Sent(x)
    BY <1>3, SendHolds DEF Deliver
  <2>. QED
    BY <1>3, <2>1 DEF Deliver, Sent
<1>4. ASSUME NEW x \in Payments, DeliverTimesOut(x) PROVE TypeQueue'
  <2>1. Sent(x)
    BY <1>4, SendHolds DEF DeliverTimesOut
  <2>. QED
    BY <1>4, <2>1 DEF DeliverTimesOut, Sent
<1>5. ASSUME NEW x \in Payments, DeliverAgain(x) PROVE TypeQueue'
  <2>1. Sent(x)
    BY <1>5, SendHolds DEF DeliverAgain
  <2>. QED
    BY <1>5, <2>1 DEF DeliverAgain, Sent
<1>6. ASSUME NEW w \in Workers, NEW j \in Jobs, TakeJob(w, j) PROVE TypeQueue'
  BY <1>6 DEF TakeJob, JobRow
<1>7. ASSUME NEW j \in Jobs, ExpireJob(j) PROVE TypeQueue'
  BY <1>7, FailedJobShape DEF ExpireJob
<1>8. ASSUME NEW e \in Executors, LogEvent(e) PROVE TypeQueue'
  BY <1>8 DEF LogEvent, Goto
<1>9. ASSUME NEW e \in Executors, MarkProcessed(e) PROVE TypeQueue'
  BY <1>9 DEF MarkProcessed, Goto
<1>10. ASSUME NEW e \in Executors, MarkFailed(e) PROVE TypeQueue'
  <2>1. Ended(e, {"retry", "dead"})
    BY <1>10, ThrowEnds DEF MarkFailed
  <2>. QED
    BY <1>10, <2>1 DEF MarkFailed, Throw, Leave, Goto, Ended
<1>11. ASSUME NEW e \in Executors, Return(e) PROVE TypeQueue'
  <2>1. [job[hold[e]] EXCEPT !.state = "completed"] \in JobRow \/ hold[e] \notin Jobs
    BY DEF JobRow
  <2>. QED
    BY <1>11, <2>1 DEF Return
<1>12. ASSUME NEW e \in Executors, StepFails(e) PROVE TypeQueue'
  <2>1. CASE pc[e] = "log" /\ Throw(e)
    <3>1. Ended(e, {"retry", "dead"})
      BY <2>1, ThrowEnds
    <3>. QED
      BY <1>12, <2>1, <3>1 DEF StepFails, Throw, Leave, Goto, Ended
  <2>2. CASE /\ pc[e] \in {"resolve", "insert", "credit", "mark"} /\ Goto(e, "catch")
             /\ UNCHANGED <<job, at, hold, tx>>
    BY <1>12, <2>2 DEF StepFails, Goto
  <2>. QED
    BY <1>12, <2>1, <2>2 DEF StepFails
<1>. QED
  BY <1>1, <1>2, <1>3, <1>4, <1>5, <1>6, <1>7, <1>8, <1>9, <1>10, <1>11, <1>12

\* The books stay within the months there are.
LEMMA TypeMoneyNext == ASSUME Inv, [Next]_vars PROVE TypeMoney'
<1>1. \/ UNCHANGED <<recorded, month, counted, raced>>
      \/ \E e \in Executors : Insert(e) \/ Credit(e)
      \/ NextMonth
  BY ZenonT(60) DEF Next, Process, Pay, LoseWebhook, Deliver, DeliverTimesOut, DeliverAgain,
         RunReconciliation, TakeJob, Goto, ExpireJob, LogEvent, Resolve, MarkProcessed,
         MarkFailed, Throw, Leave, Return, StepFails, Crash, Review, Confirm, vars, nombaVars,
         moneyVars, procVars, auditVars
<1>. USE Constants DEF Inv, Executors, nombaVars, moneyVars, procVars, auditVars, TypeOK,
        TypeMoney, TypeProc
<1>2. CASE UNCHANGED <<recorded, month, counted, raced>>
  BY <1>2
<1>3. ASSUME NEW e \in Executors, Insert(e) PROVE TypeMoney'
  <2>1. tx[e].period \in 1 .. MaxMonth
    BY <1>3 DEF Insert, StepShape
  <2>. QED
    BY <1>3, <2>1 DEF Insert
<1>4. ASSUME NEW e \in Executors, Credit(e) PROVE TypeMoney'
  <2>1. tx[e].period \in 1 .. MaxMonth
    BY <1>4 DEF Credit, StepShape
  <2>2. recorded' \in [Payments -> 0 .. MaxMonth]
    BY <1>4, <2>1 DEF Credit
  <2>3. counted' \in [1 .. MaxMonth -> Nat]
    BY <1>4, <2>1 DEF Credit
  <2>. QED
    BY <1>4, <2>2, <2>3 DEF Credit
<1>5. ASSUME NextMonth PROVE TypeMoney'
  BY <1>5 DEF NextMonth
<1>. QED
  BY <1>1, <1>2, <1>3, <1>4, <1>5

\* The ledger has rows of months that began, with amounts in Nat.
LEMMA TypeLedgerNext == ASSUME Inv, [Next]_vars PROVE TypeLedger'
<1>1. \/ UNCHANGED ledger
      \/ \E e \in Executors : Credit(e)
  BY DEF Next, Process, Pay, LoseWebhook, Deliver, DeliverTimesOut, DeliverAgain,
         RunReconciliation, TakeJob, Goto, ExpireJob, LogEvent, Resolve, Insert,
         MarkProcessed, MarkFailed, Throw, Leave, Return, StepFails, Crash, Review, Confirm,
         NextMonth, vars, nombaVars, moneyVars, procVars, auditVars
<1>. USE Constants DEF Inv, Executors, nombaVars, moneyVars, procVars, auditVars, TypeOK,
        TypeLedger
<1>2. CASE UNCHANGED ledger
  BY <1>2
<1>3. ASSUME NEW e \in Executors, Credit(e) PROVE TypeLedger'
  <2>1. tx[e].period \in 1 .. MaxMonth
    BY <1>3 DEF Credit, StepShape
  <2>. QED
    BY <1>3, <2>1, CreditAdds DEF Credit
<1>. QED
  BY <1>1, <1>2, <1>3

\* The executors stay within their steps.
LEMMA TypeProcNext == ASSUME Inv, [Next]_vars PROVE TypeProc'
<1>1. \/ UNCHANGED <<pc, at, hold, tx>>
      \/ \E w \in Workers, j \in Jobs : TakeJob(w, j)
      \/ \E e \in Executors : LogEvent(e) \/ Resolve(e) \/ Insert(e) \/ Credit(e) \/
                           MarkProcessed(e) \/ MarkFailed(e) \/ Return(e) \/ StepFails(e) \/
                           Crash(e)
      \/ \E o \in Operators, x \in Payments : Review(o, x)
      \/ \E o \in Operators : Confirm(o)
  BY DEF Next, Process, Pay, LoseWebhook, Deliver, DeliverTimesOut, DeliverAgain,
         RunReconciliation, ExpireJob, NextMonth, vars, nombaVars, moneyVars, procVars,
         auditVars
<1>. USE Constants DEF Inv, Executors, nombaVars, moneyVars, procVars, auditVars, TypeOK,
        TypeProc, TypeMoney
<1>2. CASE UNCHANGED <<pc, at, hold, tx>>
  BY <1>2 DEF NoTx
<1>3. ASSUME NEW w \in Workers, NEW j \in Jobs, TakeJob(w, j) PROVE TypeProc'
  <2>1. <<job[j].x, "webhook">> \in Events
    BY <1>3, EventsArePairs DEF TakeJob, Waiting, QueueShape
  <2>. QED
    BY <1>3, <2>1 DEF TakeJob, Goto
<1>4. ASSUME NEW e \in Executors, LogEvent(e) PROVE TypeProc'
  BY <1>4 DEF LogEvent, Goto, NoTx
<1>5. ASSUME NEW e \in Executors, Resolve(e) PROVE TypeProc'
  <2>1. CASE tx' = [tx EXCEPT ![e].period = month]
    <3>. DEFINE t == tx[e]
    <3>2. t \in [period : 0 .. MaxMonth, first : BOOLEAN] /\ month \in 0 .. MaxMonth
      OBVIOUS
    <3>. HIDE DEF t
    <3>1. [t EXCEPT !.period = month] \in [period : 0 .. MaxMonth, first : BOOLEAN]
      BY <3>2
    <3>. QED
      BY <1>5, <2>1, <3>1 DEF Resolve, Goto, t
  <2>2. CASE UNCHANGED tx
    BY <1>5, <2>2 DEF Resolve, Goto
  <2>. QED
    BY <1>5, <2>1, <2>2 DEF Resolve
<1>6. ASSUME NEW e \in Executors, Insert(e) PROVE TypeProc'
  <2>. DEFINE f == GiverOf[at[e][1]] # Nobody /\ OtherGifts(at[e][1], tx[e].period) = {}
  <2>1. f \in BOOLEAN
    OBVIOUS
  <2>. HIDE DEF f
  <2>2. [tx[e] EXCEPT !.first = f] \in [period : 0 .. MaxMonth, first : BOOLEAN]
    BY <2>1
  <2>3. tx' \in {tx, [tx EXCEPT ![e].first = f]}
    BY <1>6 DEF Insert, f
  <2>4. tx' \in [Executors -> [period : 0 .. MaxMonth, first : BOOLEAN]]
    BY <2>2, <2>3
  <2>. QED
    BY <1>6, <2>4 DEF Insert, Goto
<1>7. ASSUME NEW e \in Executors, Credit(e) PROVE TypeProc'
  BY <1>7 DEF Credit, Goto, NoTx
<1>8. ASSUME NEW e \in Executors, MarkProcessed(e) PROVE TypeProc'
  BY <1>8 DEF MarkProcessed, Goto, NoTx
<1>9. ASSUME NEW e \in Executors, MarkFailed(e) PROVE TypeProc'
  BY <1>9 DEF MarkFailed, Throw, Leave, Goto, NoTx
<1>10. ASSUME NEW e \in Executors, Return(e) PROVE TypeProc'
  BY <1>10 DEF Return, Leave, Goto, NoTx
<1>11. ASSUME NEW e \in Executors, StepFails(e) PROVE TypeProc'
  <2>1. CASE Throw(e)
    BY <1>11, <2>1 DEF StepFails, Throw, Leave, Goto, NoTx
  <2>2. CASE Goto(e, "catch") /\ UNCHANGED <<job, at, hold, tx>>
    BY <2>2 DEF Goto
  <2>. QED
    BY <1>11, <2>1, <2>2 DEF StepFails
<1>12. ASSUME NEW e \in Executors, Crash(e) PROVE TypeProc'
  BY <1>12 DEF Crash, Leave, Goto, NoTx
<1>13. ASSUME NEW o \in Operators, NEW x \in Payments, Review(o, x) PROVE TypeProc'
  <2>1. <<x, "replay">> \in Events
    BY EventsArePairs
  <2>. QED
    BY <1>13, <2>1 DEF Review, Goto
<1>14. ASSUME NEW o \in Operators, Confirm(o) PROVE TypeProc'
  <2>1. CASE Leave(o)
    BY <1>14, <2>1 DEF Confirm, Leave, Goto, NoTx
  <2>2. CASE Goto(o, "log") /\ UNCHANGED <<at, hold, tx>>
    BY <2>2 DEF Goto
  <2>. QED
    BY <1>14, <2>1, <2>2 DEF Confirm
<1>. QED
  BY <1>1, <1>2, <1>3, <1>4, <1>5, <1>6, <1>7, <1>8, <1>9, <1>10, <1>11, <1>12, <1>13, <1>14

\* What was flagged and audited are payments; failures stay within the bound.
LEMMA TypeRestNext == ASSUME Inv, [Next]_vars PROVE TypeRest'
<1>1. \/ UNCHANGED <<flagged, audited, used>>
      \/ \E x \in Payments : DeliverTimesOut(x) \/ DeliverAgain(x) \/ RunReconciliation(x)
      \/ \E e \in Executors : Return(e) \/ StepFails(e) \/ Crash(e)
  BY DEF Next, Process, Pay, LoseWebhook, Deliver, TakeJob, Goto, ExpireJob, LogEvent,
         Resolve, Insert, Credit, MarkProcessed, MarkFailed, Throw, Leave, Review, Confirm,
         NextMonth, vars, nombaVars, moneyVars, procVars, auditVars
<1>. USE Constants DEF Inv, Executors, nombaVars, moneyVars, procVars, auditVars, TypeOK,
        TypeRest, TypeProc
<1>2. CASE UNCHANGED <<flagged, audited, used>>
  BY <1>2
<1>3. ASSUME NEW x \in Payments, DeliverTimesOut(x) PROVE TypeRest'
  BY <1>3 DEF DeliverTimesOut
<1>4. ASSUME NEW x \in Payments, DeliverAgain(x) PROVE TypeRest'
  BY <1>4 DEF DeliverAgain
<1>5. ASSUME NEW x \in Payments, RunReconciliation(x) PROVE TypeRest'
  BY <1>5 DEF RunReconciliation
<1>6. ASSUME NEW e \in Executors, Return(e) PROVE TypeRest'
  <2>1. at[e][1] \in Payments
    BY <1>6, EventsArePairs DEF Return, StepShape
  <2>. QED
    BY <1>6, <2>1 DEF Return
<1>7. ASSUME NEW e \in Executors, StepFails(e) PROVE TypeRest'
  <2>1. CASE pc[e] = "log" /\ Throw(e)
    BY <1>7, <2>1 DEF StepFails, Throw, Leave, Goto
  <2>2. CASE /\ pc[e] \in {"resolve", "insert", "credit", "mark"} /\ Goto(e, "catch")
             /\ UNCHANGED <<job, at, hold, tx>>
    BY <1>7, <2>2 DEF StepFails, Goto
  <2>. QED
    BY <1>7, <2>1, <2>2 DEF StepFails
<1>8. ASSUME NEW e \in Executors, Crash(e) PROVE TypeRest'
  BY <1>8 DEF Crash, Leave, Goto
<1>. QED
  BY <1>1, <1>2, <1>3, <1>4, <1>5, <1>6, <1>7, <1>8

\* A consumer holds its job alone, whatever else happens to the queue.
LEMMA QueueShapeNext == ASSUME Inv, [Next]_vars PROVE QueueShape'
<1>1. \/ UNCHANGED <<job, pc, at, hold>>
      \/ \E x \in Payments : Deliver(x) \/ DeliverTimesOut(x) \/ DeliverAgain(x)
      \/ \E w \in Workers, j \in Jobs : TakeJob(w, j)
      \/ \E j \in Jobs : ExpireJob(j)
      \/ \E e \in Executors : LogEvent(e) \/ Resolve(e) \/ Insert(e) \/ Credit(e) \/
                           MarkProcessed(e) \/ MarkFailed(e) \/ Return(e) \/ StepFails(e) \/
                           Crash(e)
      \/ \E o \in Operators, x \in Payments : Review(o, x)
      \/ \E o \in Operators : Confirm(o)
  BY DEF Next, Process, Pay, LoseWebhook, RunReconciliation, NextMonth, vars, nombaVars,
         moneyVars, procVars, auditVars
<1>. USE Constants DEF Inv, Executors, nombaVars, moneyVars, procVars, auditVars, TypeOK,
        TypeQueue, TypeProc, QueueShape
<1>2. CASE UNCHANGED <<job, pc, at, hold>>
  BY <1>2 DEF FreeJob
<1>3. ASSUME NEW x \in Payments, Deliver(x) PROVE QueueShape'
  <2>1. Sent(x)
    BY <1>3, SendHolds DEF Deliver
  <2>. QED
    BY <1>3, <2>1 DEF Deliver, Sent, FreeJob
<1>4. ASSUME NEW x \in Payments, DeliverTimesOut(x) PROVE QueueShape'
  <2>1. Sent(x)
    BY <1>4, SendHolds DEF DeliverTimesOut
  <2>. QED
    BY <1>4, <2>1 DEF DeliverTimesOut, Sent, FreeJob
<1>5. ASSUME NEW x \in Payments, DeliverAgain(x) PROVE QueueShape'
  <2>1. Sent(x)
    BY <1>5, SendHolds DEF DeliverAgain
  <2>. QED
    BY <1>5, <2>1 DEF DeliverAgain, Sent, FreeJob
<1>6. ASSUME NEW w \in Workers, NEW j \in Jobs, TakeJob(w, j) PROVE QueueShape'
  BY <1>6 DEF TakeJob, Goto, Waiting, FreeJob
<1>7. ASSUME NEW j \in Jobs, ExpireJob(j) PROVE QueueShape'
  BY <1>7, FailedJobShape DEF ExpireJob, FreeJob
<1>8. ASSUME NEW e \in Executors, LogEvent(e) PROVE QueueShape'
  BY <1>8 DEF LogEvent, Goto, FreeJob
<1>9. ASSUME NEW e \in Executors, Resolve(e) PROVE QueueShape'
  BY <1>9 DEF Resolve, Goto, FreeJob
<1>10. ASSUME NEW e \in Executors, Insert(e) PROVE QueueShape'
  BY <1>10 DEF Insert, Goto, FreeJob
<1>11. ASSUME NEW e \in Executors, Credit(e) PROVE QueueShape'
  BY <1>11 DEF Credit, Goto, FreeJob
<1>12. ASSUME NEW e \in Executors, MarkProcessed(e) PROVE QueueShape'
  BY <1>12 DEF MarkProcessed, Goto, FreeJob
<1>13. ASSUME NEW e \in Executors, MarkFailed(e) PROVE QueueShape'
  <2>1. Ended(e, {"retry", "dead"})
    BY <1>13, ThrowEnds DEF MarkFailed
  <2>. QED
    BY <1>13, <2>1 DEF MarkFailed, Throw, Leave, Goto, Ended, FreeJob
<1>14. ASSUME NEW e \in Executors, Return(e) PROVE QueueShape'
  <2>1. Ended(e, {"completed"})
    BY <1>14, ReturnEnds DEF Return
  <2>. QED
    BY <1>14, <2>1 DEF Return, Leave, Goto, Ended, FreeJob
<1>15. ASSUME NEW e \in Executors, StepFails(e) PROVE QueueShape'
  <2>1. CASE pc[e] = "log" /\ Throw(e)
    <3>1. Ended(e, {"retry", "dead"})
      BY <2>1, ThrowEnds
    <3>. QED
      BY <1>15, <2>1, <3>1 DEF StepFails, Throw, Leave, Goto, Ended, FreeJob
  <2>2. CASE /\ pc[e] \in {"resolve", "insert", "credit", "mark"} /\ Goto(e, "catch")
             /\ UNCHANGED <<job, at, hold, tx>>
    BY <1>15, <2>2 DEF StepFails, Goto, FreeJob
  <2>. QED
    BY <1>15, <2>1, <2>2 DEF StepFails
<1>16. ASSUME NEW e \in Executors, Crash(e) PROVE QueueShape'
  BY <1>16 DEF Crash, Leave, Goto, FreeJob
<1>17. ASSUME NEW o \in Operators, NEW x \in Payments, Review(o, x) PROVE QueueShape'
  BY <1>17 DEF Review, Goto, FreeJob
<1>18. ASSUME NEW o \in Operators, Confirm(o) PROVE QueueShape'
  <2>1. CASE Leave(o)
    BY <1>18, <2>1 DEF Confirm, Leave, Goto, FreeJob
  <2>2. CASE at[o][1] \in attributed /\ Goto(o, "log") /\ UNCHANGED <<at, hold, tx>>
    BY <1>18, <2>2 DEF Confirm, Goto, FreeJob
  <2>. QED
    BY <1>18, <2>1, <2>2 DEF Confirm
<1>. QED
  BY <1>1, <1>2, <1>3, <1>4, <1>5, <1>6, <1>7, <1>8, <1>9, <1>10, <1>11, <1>12, <1>13, <1>14,
     <1>15, <1>16, <1>17, <1>18

\* What an executor has done with its event can be read off its step.
LEMMA StepShapeNext == ASSUME Inv, [Next]_vars PROVE StepShape'
<1>1. \/ UNCHANGED <<pc, at, tx, log, attributed, recorded>>
      \/ \E w \in Workers, j \in Jobs : TakeJob(w, j)
      \/ \E e \in Executors : LogEvent(e) \/ Resolve(e) \/ Insert(e) \/ Credit(e) \/
                           MarkProcessed(e) \/ MarkFailed(e) \/ Return(e) \/ StepFails(e) \/
                           Crash(e)
      \/ \E o \in Operators, x \in Payments : Review(o, x)
      \/ \E o \in Operators : Confirm(o)
  BY DEF Next, Process, Pay, LoseWebhook, Deliver, DeliverTimesOut, DeliverAgain,
         RunReconciliation, ExpireJob, NextMonth, vars, nombaVars, moneyVars, procVars,
         auditVars
<1>. USE Constants DEF Inv, Executors, nombaVars, moneyVars, procVars, auditVars, TypeOK,
        TypeQueue, TypeProc, TypeMoney, StepShape
<1>2. CASE UNCHANGED <<pc, at, tx, log, attributed, recorded>>
  BY <1>2
<1>3. ASSUME NEW w \in Workers, NEW j \in Jobs, TakeJob(w, j) PROVE StepShape'
  <2>1. <<job[j].x, "webhook">> \in Events
    BY <1>3, EventsArePairs DEF TakeJob, Waiting, QueueShape
  <2>. QED
    BY <1>3, <2>1 DEF TakeJob, Goto
<1>4. ASSUME NEW e \in Executors, LogEvent(e) PROVE StepShape'
  BY <1>4, EventsArePairs DEF LogEvent, Goto
<1>5. ASSUME NEW e \in Executors, Resolve(e) PROVE StepShape'
  BY <1>5, EventsArePairs DEF Resolve, Goto
<1>6. ASSUME NEW e \in Executors, Insert(e) PROVE StepShape'
  BY <1>6, EventsArePairs, SMTT(30) DEF Insert, Goto
<1>7. ASSUME NEW e \in Executors, Credit(e) PROVE StepShape'
  <2>1. at[e][1] \in Payments /\ tx[e].period # 0
    BY <1>7, EventsArePairs DEF Credit
  <2>2. /\ recorded'[at[e][1]] # 0
        /\ \A x \in Payments : recorded[x] # 0 => recorded'[x] # 0
    BY <1>7, <2>1 DEF Credit
  <2>3. UNCHANGED <<at, tx, log, attributed>> /\ pc' = [pc EXCEPT ![e] = "mark"]
    BY <1>7 DEF Credit, Goto
  <2>. QED
    BY <1>7, <2>2, <2>3, EventsArePairs, ZenonT(60) DEF Credit
<1>8. ASSUME NEW e \in Executors, MarkProcessed(e) PROVE StepShape'
  BY <1>8, EventsArePairs DEF MarkProcessed, Goto
<1>9. ASSUME NEW e \in Executors, MarkFailed(e) PROVE StepShape'
  BY <1>9, EventsArePairs DEF MarkFailed, Throw, Leave, Goto
<1>10. ASSUME NEW e \in Executors, Return(e) PROVE StepShape'
  BY <1>10, EventsArePairs DEF Return, Leave, Goto
<1>11. ASSUME NEW e \in Executors, StepFails(e) PROVE StepShape'
  <2>1. CASE pc[e] = "log" /\ Throw(e)
    BY <1>11, <2>1, EventsArePairs DEF StepFails, Throw, Leave, Goto
  <2>2. CASE /\ pc[e] \in {"resolve", "insert", "credit", "mark"} /\ Goto(e, "catch")
             /\ UNCHANGED <<job, at, hold, tx>>
    BY <1>11, <2>2, EventsArePairs DEF StepFails, Goto
  <2>. QED
    BY <1>11, <2>1, <2>2 DEF StepFails
<1>12. ASSUME NEW e \in Executors, Crash(e) PROVE StepShape'
  BY <1>12, EventsArePairs DEF Crash, Leave, Goto
<1>13. ASSUME NEW o \in Operators, NEW x \in Payments, Review(o, x) PROVE StepShape'
  BY <1>13, EventsArePairs DEF Review, Goto
<1>14. ASSUME NEW o \in Operators, Confirm(o) PROVE StepShape'
  <2>1. CASE Leave(o)
    BY <1>14, <2>1, EventsArePairs DEF Confirm, Leave, Goto
  <2>2. CASE at[o][1] \in attributed /\ Goto(o, "log") /\ UNCHANGED <<at, hold, tx>>
    BY <1>14, <2>2, EventsArePairs DEF Confirm, Goto
  <2>. QED
    BY <1>14, <2>1, <2>2 DEF Confirm
<1>. QED
  BY <1>1, <1>2, <1>3, <1>4, <1>5, <1>6, <1>7, <1>8, <1>9, <1>10, <1>11, <1>12, <1>13, <1>14

\* The server makes no payment up.
LEMMA PaidForNext == ASSUME Inv, [Next]_vars PROVE PaidFor'
<1>1. \/ UNCHANGED <<paid, webhook, flagged, recorded, job, pc, at>>
      \/ \E x \in Payments : Pay(x) \/ LoseWebhook(x) \/ Deliver(x) \/ DeliverTimesOut(x) \/
                          DeliverAgain(x) \/ RunReconciliation(x)
      \/ \E w \in Workers, j \in Jobs : TakeJob(w, j)
      \/ \E j \in Jobs : ExpireJob(j)
      \/ \E e \in Executors : LogEvent(e) \/ Resolve(e) \/ Insert(e) \/ Credit(e) \/
                           MarkProcessed(e) \/ MarkFailed(e) \/ Return(e) \/ StepFails(e) \/
                           Crash(e)
      \/ \E o \in Operators, x \in Payments : Review(o, x)
      \/ \E o \in Operators : Confirm(o)
  BY DEF Next, Process, NextMonth, vars, nombaVars, moneyVars, procVars, auditVars
<1>. USE Constants DEF Inv, Executors, nombaVars, moneyVars, procVars, auditVars, TypeOK,
        TypeQueue, TypeProc, TypeNomba, TypeMoney, QueueShape, StepShape, PaidFor
<1>2. CASE UNCHANGED <<paid, webhook, flagged, recorded, job, pc, at>>
  BY <1>2 DEF FreeJob
<1>3. ASSUME NEW x \in Payments, Pay(x) PROVE PaidFor'
  BY <1>3, EventsArePairs DEF Pay, FreeJob
<1>4. ASSUME NEW x \in Payments, LoseWebhook(x) PROVE PaidFor'
  BY <1>4, EventsArePairs DEF LoseWebhook, FreeJob
<1>5. ASSUME NEW x \in Payments, Deliver(x) PROVE PaidFor'
  <2>0. \A i \in Jobs : \/ job'[i] = job[i]
                         \/ /\ job[i] = FreeJob
                            /\ job'[i] = [x |-> x, state |-> "created", tries |-> 0]
    BY <1>5, SendHolds DEF Deliver, Sent
  <2>1. \A i \in Jobs : job'[i] = job[i] \/ job'[i].x = x
    BY <2>0
  <2>2. paid[x] # 0
    BY <1>5 DEF Deliver
  <2>3. \A i \in Jobs : job'[i].state # "free" => paid[job'[i].x] # 0
    BY <2>1, <2>2
  <2>4. \A y \in Payments : webhook'[y] # "none" => webhook[y] # "none"
    BY <1>5 DEF Deliver
  <2>5. UNCHANGED <<paid, flagged, recorded, pc, at>>
    BY <1>5 DEF Deliver
  <2>. QED
    BY <2>3, <2>4, <2>5
<1>6. ASSUME NEW x \in Payments, DeliverTimesOut(x) PROVE PaidFor'
  <2>0. \A i \in Jobs : \/ job'[i] = job[i]
                         \/ /\ job[i] = FreeJob
                            /\ job'[i] = [x |-> x, state |-> "created", tries |-> 0]
    BY <1>6, SendHolds DEF DeliverTimesOut, Sent
  <2>1. \A i \in Jobs : job'[i] = job[i] \/ job'[i].x = x
    BY <2>0
  <2>2. paid[x] # 0
    BY <1>6 DEF DeliverTimesOut
  <2>3. \A i \in Jobs : job'[i].state # "free" => paid[job'[i].x] # 0
    BY <2>1, <2>2
  <2>4. \A y \in Payments : webhook'[y] # "none" => webhook[y] # "none"
    BY <1>6 DEF DeliverTimesOut
  <2>5. UNCHANGED <<paid, flagged, recorded, pc, at>>
    BY <1>6 DEF DeliverTimesOut
  <2>. QED
    BY <2>3, <2>4, <2>5
<1>7. ASSUME NEW x \in Payments, DeliverAgain(x) PROVE PaidFor'
  <2>0. \A i \in Jobs : \/ job'[i] = job[i]
                         \/ /\ job[i] = FreeJob
                            /\ job'[i] = [x |-> x, state |-> "created", tries |-> 0]
    BY <1>7, SendHolds DEF DeliverAgain, Sent
  <2>1. \A i \in Jobs : job'[i] = job[i] \/ job'[i].x = x
    BY <2>0
  <2>2. paid[x] # 0
    BY <1>7 DEF DeliverAgain
  <2>3. \A i \in Jobs : job'[i].state # "free" => paid[job'[i].x] # 0
    BY <2>1, <2>2
  <2>4. \A y \in Payments : webhook'[y] # "none" => webhook[y] # "none"
    BY <1>7 DEF DeliverAgain
  <2>5. UNCHANGED <<paid, flagged, recorded, pc, at>>
    BY <1>7 DEF DeliverAgain
  <2>. QED
    BY <2>3, <2>4, <2>5
<1>8. ASSUME NEW x \in Payments, RunReconciliation(x) PROVE PaidFor'
  BY <1>8, EventsArePairs DEF RunReconciliation, FreeJob
<1>9. ASSUME NEW w \in Workers, NEW j \in Jobs, TakeJob(w, j) PROVE PaidFor'
  BY <1>9, EventsArePairs DEF TakeJob, Goto, Waiting, FreeJob
<1>10. ASSUME NEW j \in Jobs, ExpireJob(j) PROVE PaidFor'
  BY <1>10, FailedJobShape, EventsArePairs DEF ExpireJob, FreeJob
<1>11. ASSUME NEW e \in Executors, LogEvent(e) PROVE PaidFor'
  BY <1>11, EventsArePairs DEF LogEvent, Goto, FreeJob
<1>12. ASSUME NEW e \in Executors, Resolve(e) PROVE PaidFor'
  BY <1>12, EventsArePairs DEF Resolve, Goto, FreeJob
<1>13. ASSUME NEW e \in Executors, Insert(e) PROVE PaidFor'
  BY <1>13, EventsArePairs DEF Insert, Goto, FreeJob
<1>14. ASSUME NEW e \in Executors, Credit(e) PROVE PaidFor'
  BY <1>14, EventsArePairs DEF Credit, Goto, FreeJob
<1>15. ASSUME NEW e \in Executors, MarkProcessed(e) PROVE PaidFor'
  BY <1>15, EventsArePairs DEF MarkProcessed, Goto, FreeJob
<1>16. ASSUME NEW e \in Executors, MarkFailed(e) PROVE PaidFor'
  <2>1. Ended(e, {"retry", "dead"})
    BY <1>16, ThrowEnds DEF MarkFailed
  <2>. QED
    BY <1>16, <2>1, EventsArePairs DEF MarkFailed, Throw, Leave, Goto, Ended, FreeJob
<1>17. ASSUME NEW e \in Executors, Return(e) PROVE PaidFor'
  <2>1. \A i \in Jobs : job'[i].state # "free" => paid[job'[i].x] # 0
    <3>1. CASE e \in Workers
      <4>1. hold[e] \in Jobs /\ job[hold[e]].state # "free"
        BY <1>17, <3>1 DEF Return
      <4>4. job' = [job EXCEPT ![hold[e]].state = "completed"]
        BY <1>17, <3>1 DEF Return
      <4>2. \A i \in Jobs : job'[i].x = job[i].x
        BY <4>1, <4>4 DEF JobRow
      <4>3. \A i \in Jobs \ {hold[e]} : job'[i] = job[i]
        BY <1>17, <3>1, <4>1 DEF Return
      <4>. QED
        BY <4>1, <4>2, <4>3
    <3>2. CASE e \notin Workers
      BY <1>17, <3>2 DEF Return
    <3>. QED
      BY <3>1, <3>2
  <2>2. \A o \in Executors : pc'[o] # "idle" => pc[o] # "idle" /\ at'[o] = at[o]
    BY <1>17 DEF Return, Leave, Goto
  <2>3. UNCHANGED <<paid, webhook, flagged, recorded>>
    BY <1>17 DEF Return
  <2>. QED
    BY <2>1, <2>2, <2>3
<1>18. ASSUME NEW e \in Executors, StepFails(e) PROVE PaidFor'
  <2>1. \A i \in Jobs : job'[i].state # "free" => paid[job'[i].x] # 0
    <3>1. CASE e \in Workers /\ pc[e] = "log"
      <4>1. hold[e] \in Jobs /\ job[hold[e]].state # "free"
        BY <1>18, <3>1 DEF StepFails, Throw
      <4>4. job' = [job EXCEPT ![hold[e]] = FailedJob(hold[e])]
        BY <1>18, <3>1 DEF StepFails, Throw
      <4>2. \A i \in Jobs : job'[i].x = job[i].x
        BY <4>1, <4>4, FailedJobShape DEF JobRow
      <4>3. \A i \in Jobs \ {hold[e]} : job'[i] = job[i]
        BY <1>18, <3>1, <4>1 DEF StepFails, Throw
      <4>. QED
        BY <4>1, <4>2, <4>3
    <3>2. CASE e \notin Workers \/ pc[e] # "log"
      BY <1>18, <3>2 DEF StepFails, Throw
    <3>. QED
      BY <3>1, <3>2
  <2>2. \A o \in Executors : pc'[o] # "idle" => pc[o] # "idle" /\ at'[o] = at[o]
    BY <1>18 DEF StepFails, Throw, Leave, Goto
  <2>3. UNCHANGED <<paid, webhook, flagged, recorded>>
    BY <1>18 DEF StepFails, Throw
  <2>. QED
    BY <2>1, <2>2, <2>3
<1>19. ASSUME NEW e \in Executors, Crash(e) PROVE PaidFor'
  BY <1>19, EventsArePairs DEF Crash, Leave, Goto, FreeJob
<1>20. ASSUME NEW o \in Operators, NEW x \in Payments, Review(o, x) PROVE PaidFor'
  BY <1>20, EventsArePairs DEF Review, Goto, FreeJob
<1>21. ASSUME NEW o \in Operators, Confirm(o) PROVE PaidFor'
  <2>1. CASE Leave(o)
    BY <1>21, <2>1, EventsArePairs DEF Confirm, Leave, Goto, FreeJob
  <2>2. CASE at[o][1] \in attributed /\ Goto(o, "log") /\ UNCHANGED <<at, hold, tx>>
    BY <1>21, <2>2, EventsArePairs DEF Confirm, Goto, FreeJob
  <2>. QED
    BY <1>21, <2>1, <2>2 DEF Confirm
<1>. QED
  BY <1>1, <1>2, <1>3, <1>4, <1>5, <1>6, <1>7, <1>8, <1>9, <1>10, <1>11, <1>12, <1>13, <1>14,
     <1>15, <1>16, <1>17, <1>18, <1>19, <1>20, <1>21

\* The UNIQUE key lets one transaction of a payment be open at a time.
LEMMA OneWriterNext == ASSUME Inv, [Next]_vars PROVE OneWriter'
<1>. USE Constants DEF Inv, Executors, TypeOK, TypeProc, TypeMoney, StepShape, OneWriter
<1>1. CASE /\ \A o \in Executors : pc'[o] = "credit" => pc[o] = "credit" /\ at'[o] = at[o]
           /\ UNCHANGED recorded
  BY <1>1
<1>2. ASSUME NEW e \in Executors, Insert(e) PROVE OneWriter'
  <2>1. CASE recorded[at[e][1]] = 0
    <3>1. pc' = [pc EXCEPT ![e] = "credit"] /\ UNCHANGED <<at, recorded>>
      BY <1>2, <2>1 DEF Insert, Goto
    <3>2. \A o \in Executors : pc[o] = "credit" => at[o][1] # at[e][1]
      BY <1>2 DEF Insert
    <3>. QED
      BY <2>1, <3>1, <3>2
  <2>2. CASE recorded[at[e][1]] # 0
    <3>1. pc' = [pc EXCEPT ![e] = "catch"] /\ UNCHANGED <<at, recorded>>
      BY <1>2, <2>2 DEF Insert, Goto
    <3>. QED
      BY <3>1
  <2>. QED
    BY <2>1, <2>2
<1>3. ASSUME NEW e \in Executors, Credit(e) PROVE OneWriter'
  BY <1>3, EventsArePairs DEF Credit, Goto
<1>. QED
  BY <1>1, <1>2, <1>3, OnlyInsertOpens

\* An acknowledged event keeps its job or its log row.
LEMMA TracesNext == ASSUME Inv, [Next]_vars PROVE Traces'
<1>1. \/ UNCHANGED <<webhook, job, log>>
      \/ \E x \in Payments : Pay(x) \/ LoseWebhook(x) \/ Deliver(x) \/ DeliverTimesOut(x) \/
                          DeliverAgain(x)
      \/ \E w \in Workers, j \in Jobs : TakeJob(w, j)
      \/ \E j \in Jobs : ExpireJob(j)
      \/ \E e \in Executors : LogEvent(e) \/ MarkProcessed(e) \/ MarkFailed(e) \/ Return(e) \/
                           StepFails(e)
  BY DEF Next, Process, RunReconciliation, Resolve, Goto, Insert, Credit, Crash, Leave,
         Review, Confirm, NextMonth, vars, nombaVars, moneyVars, procVars, auditVars
<1>. USE Constants DEF Inv, Executors, nombaVars, moneyVars, procVars, auditVars, TypeOK,
        TypeQueue, TypeProc, TypeNomba, QueueShape, StepShape, Traces
<1>2. CASE UNCHANGED <<webhook, job, log>>
  BY <1>2 DEF FreeJob
<1>3. ASSUME NEW x \in Payments, Pay(x) PROVE Traces'
  BY <1>3, EventsArePairs DEF Pay, FreeJob
<1>4. ASSUME NEW x \in Payments, LoseWebhook(x) PROVE Traces'
  BY <1>4, EventsArePairs DEF LoseWebhook, FreeJob
<1>5. ASSUME NEW x \in Payments, Deliver(x) PROVE Traces'
  <2>0. \A i \in Jobs : \/ job'[i] = job[i]
                         \/ /\ job[i] = FreeJob
                            /\ job'[i] = [x |-> x, state |-> "created", tries |-> 0]
    BY <1>5, SendHolds DEF Deliver, Sent
  <2>1. \A i \in Jobs : job'[i] = job[i] \/ (job[i] = FreeJob /\ job'[i].state = "created")
    BY <2>0
  <2>2. webhook' = [webhook EXCEPT ![x] = "acked"] /\ UNCHANGED log
    BY <1>5 DEF Deliver
  <2>3. \A i \in Jobs : job[i].state # "free" => job'[i] = job[i]
    BY <2>1 DEF FreeJob
  <2>4. \E i \in Jobs : job'[i].x = x /\ job'[i].state # "free"
    BY <1>5, SendHolds DEF Deliver, Sent
  <2>. QED
    BY <2>4, <2>1, <2>2, <2>3
<1>6. ASSUME NEW x \in Payments, DeliverTimesOut(x) PROVE Traces'
  <2>0. \A i \in Jobs : \/ job'[i] = job[i]
                         \/ /\ job[i] = FreeJob
                            /\ job'[i] = [x |-> x, state |-> "created", tries |-> 0]
    BY <1>6, SendHolds DEF DeliverTimesOut, Sent
  <2>1. \A i \in Jobs : job'[i] = job[i] \/ (job[i] = FreeJob /\ job'[i].state = "created")
    BY <2>0
  <2>2. UNCHANGED <<webhook, log>>
    BY <1>6 DEF DeliverTimesOut
  <2>3. \A i \in Jobs : job[i].state # "free" => job'[i] = job[i]
    BY <2>1 DEF FreeJob
  <2>. QED
    BY <2>1, <2>2, <2>3
<1>7. ASSUME NEW x \in Payments, DeliverAgain(x) PROVE Traces'
  <2>1. Sent(x)
    BY <1>7, SendHolds DEF DeliverAgain
  <2>. QED
    BY <1>7, <2>1, EventsArePairs, SMTT(30) DEF DeliverAgain, Sent, FreeJob
<1>8. ASSUME NEW w \in Workers, NEW j \in Jobs, TakeJob(w, j) PROVE Traces'
  BY <1>8, EventsArePairs DEF TakeJob, Goto, Waiting, FreeJob
<1>9. ASSUME NEW j \in Jobs, ExpireJob(j) PROVE Traces'
  BY <1>9, FailedJobShape, EventsArePairs DEF ExpireJob, FreeJob
<1>10. ASSUME NEW e \in Executors, LogEvent(e) PROVE Traces'
  <2>1. /\ \A ev \in Events : log[ev] # "none" => log'[ev] # "none"
        /\ UNCHANGED <<job, webhook>>
    BY <1>10 DEF LogEvent
  <2>2. \A j \in Jobs : job[j].state = "completed" => <<job[j].x, "webhook">> \in Events
    BY EventsArePairs
  <2>. QED
    BY <2>1, <2>2
<1>11. ASSUME NEW e \in Executors, MarkProcessed(e) PROVE Traces'
  BY <1>11, EventsArePairs DEF MarkProcessed, Goto, FreeJob
<1>12. ASSUME NEW e \in Executors, MarkFailed(e) PROVE Traces'
  <2>1. \A i \in Jobs : /\ job'[i].x = job[i].x
                        /\ job[i].state # "free" => job'[i].state # "free"
                        /\ job'[i].state = "completed" => job[i].state = "completed"
    BY <1>12, ThrowEnds DEF MarkFailed, Ended
  <2>2. UNCHANGED <<webhook, log>>
    BY <1>12 DEF MarkFailed
  <2>3. \A x \in Payments : webhook'[x] = "acked" =>
            \E i \in Jobs : job'[i].x = x /\ job'[i].state # "free"
    BY <2>1, <2>2
  <2>4. \A i \in Jobs : job'[i].state = "completed" => log'[<<job'[i].x, "webhook">>] # "none"
    BY <2>1, <2>2
  <2>. QED
    BY <2>3, <2>4
<1>13. ASSUME NEW e \in Executors, Return(e) PROVE Traces'
  <2>1. CASE e \in Workers
    <3>1. /\ hold[e] \in Jobs /\ at[e] = <<job[hold[e]].x, "webhook">>
          /\ job[hold[e]].state # "free" /\ log[at[e]] # "none"
      BY <1>13, <2>1 DEF Return
    <3>2. job' = [job EXCEPT ![hold[e]].state = "completed"] /\ UNCHANGED <<webhook, log>>
      BY <1>13, <2>1 DEF Return
    <3>3. \A i \in Jobs : /\ job'[i].x = job[i].x
                          /\ job'[i].state = IF i = hold[e] THEN "completed" ELSE job[i].state
      BY <3>1, <3>2 DEF JobRow
    <3>. QED
      BY <3>1, <3>2, <3>3, SMTT(30)
  <2>2. CASE e \notin Workers
    BY <1>13, <2>2 DEF Return
  <2>. QED
    BY <2>1, <2>2
<1>14. ASSUME NEW e \in Executors, StepFails(e) PROVE Traces'
  <2>1. CASE pc[e] = "log" /\ Throw(e)
    <3>1. Ended(e, {"retry", "dead"})
      BY <2>1, ThrowEnds
    <3>. QED
      BY <1>14, <2>1, <3>1, EventsArePairs, SMTT(30)
         DEF StepFails, Throw, Leave, Goto, Ended, FreeJob
  <2>2. CASE /\ pc[e] \in {"resolve", "insert", "credit", "mark"} /\ Goto(e, "catch")
             /\ UNCHANGED <<job, at, hold, tx>>
    BY <1>14, <2>2, EventsArePairs DEF StepFails, Goto, FreeJob
  <2>. QED
    BY <1>14, <2>1, <2>2 DEF StepFails
<1>. QED
  BY <1>1, <1>2, <1>3, <1>4, <1>5, <1>6, <1>7, <1>8, <1>9, <1>10, <1>11, <1>12, <1>13, <1>14

\* A log row is closed behind the books.
LEMMA LogShapeNext == ASSUME Inv, [Next]_vars PROVE LogShape'
<1>1. \/ UNCHANGED <<log, attributed, recorded>>
      \/ \E e \in Executors : LogEvent(e) \/ Credit(e) \/ MarkProcessed(e)
  BY ZenonT(60) DEF Next, Process, Pay, LoseWebhook, Deliver, DeliverTimesOut, DeliverAgain,
         RunReconciliation, TakeJob, Goto, ExpireJob, Resolve, Insert, MarkFailed, Throw,
         Leave, Return, StepFails, Crash, Review, Confirm, NextMonth, vars, nombaVars,
         moneyVars, procVars, auditVars
<1>. USE Constants DEF Inv, Executors, nombaVars, moneyVars, procVars, auditVars, TypeOK,
        TypeQueue, TypeProc, TypeMoney, StepShape, OneWriter, LogShape
<1>2. CASE UNCHANGED <<log, attributed, recorded>>
  BY <1>2
<1>3. ASSUME NEW e \in Executors, LogEvent(e) PROVE LogShape'
  BY <1>3, EventsArePairs DEF LogEvent, Goto
<1>4. ASSUME NEW e \in Executors, Credit(e) PROVE LogShape'
  BY <1>4, EventsArePairs DEF Credit, Goto
<1>5. ASSUME NEW e \in Executors, MarkProcessed(e) PROVE LogShape'
  BY <1>5, EventsArePairs DEF MarkProcessed, Goto
<1>. QED
  BY <1>1, <1>2, <1>3, <1>4, <1>5

\* A replay that was reported has left its log row.
LEMMA ReplayTracesNext == ASSUME Inv, [Next]_vars PROVE ReplayTraces'
<1>1. \/ UNCHANGED <<audited, attributed, log>>
      \/ \E e \in Executors : LogEvent(e) \/ MarkProcessed(e) \/ Return(e)
  BY DEF Next, Process, Pay, LoseWebhook, Deliver, DeliverTimesOut, DeliverAgain,
         RunReconciliation, TakeJob, Goto, ExpireJob, Resolve, Insert, Credit, MarkFailed,
         Throw, Leave, StepFails, Crash, Review, Confirm, NextMonth, vars, nombaVars,
         moneyVars, procVars, auditVars
<1>. USE Constants DEF Inv, Executors, nombaVars, moneyVars, procVars, auditVars, TypeOK,
        TypeQueue, TypeProc, TypeRest, StepShape, ReplayTraces
<1>2. CASE UNCHANGED <<audited, attributed, log>>
  BY <1>2
<1>3. ASSUME NEW e \in Executors, LogEvent(e) PROVE ReplayTraces'
  BY <1>3, EventsArePairs DEF LogEvent, Goto
<1>4. ASSUME NEW e \in Executors, MarkProcessed(e) PROVE ReplayTraces'
  BY <1>4, EventsArePairs DEF MarkProcessed, Goto
<1>5. ASSUME NEW e \in Executors, Return(e) PROVE ReplayTraces'
  <2>1. CASE e \in Operators
    <3>1. at[e] = <<at[e][1], "replay">> /\ at[e][1] \in attributed /\ log[at[e]] # "none"
      BY <1>5, <2>1, EventsArePairs DEF Return
    <3>2. audited' = audited \cup {at[e][1]} /\ UNCHANGED <<attributed, log>>
      BY <1>5, <2>1 DEF Return
    <3>. QED
      BY <3>1, <3>2
  <2>2. CASE e \notin Operators
    BY <1>5, <2>2 DEF Return
  <2>. QED
    BY <2>1, <2>2
<1>. QED
  BY <1>1, <1>2, <1>3, <1>4, <1>5

\* Of two open payments of one member the later one found the other.
LEMMA FlagsAgreeNext == ASSUME Inv, [Next]_vars PROVE FlagsAgree'
<1>. USE Constants DEF Inv, Executors, TypeOK, TypeProc, TypeMoney, StepShape, OneWriter, FlagsAgree
<1>1. CASE /\ \A o \in Executors : pc'[o] = "credit" =>
                   pc[o] = "credit" /\ at'[o] = at[o] /\ tx'[o] = tx[o]
           /\ UNCHANGED <<recorded, raced>>
  BY <1>1, ZenonT(60)
<1>2. ASSUME NEW e \in Executors, Insert(e) PROVE FlagsAgree'
  <2>. DEFINE x == at[e][1]
              q == tx[e].period
              f == GiverOf[x] # Nobody /\ OtherGifts(x, q) = {}
  <2>1. CASE recorded[x] = 0
    <3>1. /\ pc' = [pc EXCEPT ![e] = "credit"] /\ UNCHANGED <<at, recorded>>
          /\ raced' = IF OpenGifts(x, q) = {} THEN raced ELSE raced \cup {q}
          /\ tx' = [tx EXCEPT ![e].first = f]
      BY <1>2, <2>1 DEF Insert, Goto
    <3>2. /\ tx'[e].period = q /\ tx'[e].first = f
          /\ \A o \in Executors \ {e} : tx'[o] = tx[o] /\ pc'[o] = pc[o]
      BY <3>1
    <3>3. \A o \in Executors \ {e} :
              pc[o] = "credit" /\ SameGiver(x, at[o][1]) /\ tx[o].period = q => q \in raced'
      BY <3>1 DEF OpenGifts
    <3>4. raced \subseteq raced'
      BY <3>1
    <3>. HIDE DEF x, q
    <3>6. \A o \in Executors \ {e} : SameGiver(at[o][1], x) => SameGiver(x, at[o][1])
      BY DEF SameGiver
    <3>7. f <=> GiverOf[x] # Nobody /\ Gifts(recorded, x, q) = {}
      BY DEF f, Gifts, OtherGifts
    <3>8. FlagsAgree
      OBVIOUS
    <3>. HIDE DEF f, FlagsAgree
    <3>9. ASSUME NEW o \in Executors, pc'[o] = "credit"
          PROVE  /\ GiverOf[at[o][1]] = Nobody => ~tx'[o].first
                 /\ GiverOf[at[o][1]] # Nobody /\ ~tx'[o].first =>
                       Gifts(recorded, at[o][1], tx'[o].period) # {}
                 /\ tx'[o].first /\ tx'[o].period \notin raced' =>
                       Gifts(recorded, at[o][1], tx'[o].period) = {}
      <4>1. CASE o = e
        BY <4>1, <3>2, <3>7 DEF x, q
      <4>2. CASE o # e
        BY <4>2, <3>2, <3>4, <3>8, <3>9 DEF FlagsAgree
      <4>. QED
        BY <4>1, <4>2
    <3>10. ASSUME NEW o \in Executors, NEW r \in Executors, o # r,
                  pc'[o] = "credit", pc'[r] = "credit",
                  SameGiver(at[o][1], at[r][1]), tx'[o].period = tx'[r].period
           PROVE  tx'[o].period \in raced'
      <4>1. CASE o = e
        BY <4>1, <3>2, <3>3, <3>10 DEF x, q
      <4>2. CASE r = e
        BY <4>2, <3>2, <3>3, <3>6, <3>10 DEF x, q
      <4>3. CASE o # e /\ r # e
        BY <4>3, <3>2, <3>4, <3>8, <3>10 DEF FlagsAgree
      <4>. QED
        BY <4>1, <4>2, <4>3
    <3>. QED
      BY <3>1, <3>9, <3>10 DEF FlagsAgree
  <2>2. CASE recorded[x] # 0
    <3>1. pc' = [pc EXCEPT ![e] = "catch"] /\ UNCHANGED <<at, tx, recorded, raced>>
      BY <1>2, <2>2 DEF Insert, Goto
    <3>. QED
      BY <3>1
  <2>. QED
    BY <2>1, <2>2
<1>3. ASSUME NEW e \in Executors, Credit(e) PROVE FlagsAgree'
  <2>. DEFINE x == at[e][1]
              q == tx[e].period
  <2>1. /\ pc[e] = "credit" /\ pc' = [pc EXCEPT ![e] = "mark"]
        /\ recorded' = [recorded EXCEPT ![x] = q] /\ UNCHANGED <<at, tx, raced>>
    BY <1>3 DEF Credit, Goto
  <2>2. x \in Payments /\ recorded[x] = 0
    BY <2>1, EventsArePairs DEF StepShape
  <2>3. \A o \in Executors : pc[o] = "credit" => tx[o].period # 0 /\ at[o][1] \in Payments
    BY EventsArePairs
  <2>4. \A o \in Executors : pc[o] = "credit" =>
            Gifts(recorded, at[o][1], tx[o].period) \subseteq Gifts(recorded', at[o][1], tx[o].period)
    BY <2>1, <2>2, <2>3 DEF Gifts
  <2>5. \A o \in Executors : pc[o] = "credit" /\ ~SameGiver(at[o][1], x) =>
            Gifts(recorded', at[o][1], tx[o].period) = Gifts(recorded, at[o][1], tx[o].period)
    BY <2>1, <2>2, <2>3 DEF Gifts
  <2>6. \A o \in Executors : pc[o] = "credit" /\ tx[o].period # q =>
            Gifts(recorded', at[o][1], tx[o].period) = Gifts(recorded, at[o][1], tx[o].period)
    BY <2>1, <2>2, <2>3 DEF Gifts
  <2>7. \A o \in Executors : pc'[o] = "credit" => pc[o] = "credit" /\ o # e
    BY <2>1
  <2>8. FlagsAgree
    OBVIOUS
  <2>. HIDE DEF x, q, FlagsAgree
  <2>9. ASSUME NEW o \in Executors, pc'[o] = "credit"
        PROVE  /\ GiverOf[at[o][1]] = Nobody => ~tx[o].first
               /\ GiverOf[at[o][1]] # Nobody /\ ~tx[o].first =>
                     Gifts(recorded', at[o][1], tx[o].period) # {}
               /\ tx[o].first /\ tx[o].period \notin raced =>
                     Gifts(recorded', at[o][1], tx[o].period) = {}
    <3>1. pc[o] = "credit" /\ o # e
      BY <2>7, <2>9
    <3>2. tx[o].period = q /\ SameGiver(at[o][1], x) => tx[o].period \in raced
      BY <2>1, <2>8, <3>1 DEF FlagsAgree, x, q
    <3>. QED
      BY <2>4, <2>5, <2>6, <2>8, <3>1, <3>2 DEF FlagsAgree
  <2>. QED
    BY <2>1, <2>7, <2>8, <2>9 DEF FlagsAgree
<1>. QED
  BY <1>1, <1>2, <1>3, OnlyInsertOpens

\* The books rec: the gifts of month q, and who gave them.
Booked(rec, q) == {x \in Payments : rec[x] = q}
Givers(rec, q) == {GiverOf[x] : x \in Booked(rec, q)} \ {Nobody}

\* Both are finite, whatever the books say.
LEMMA BookedFinite ==
    ASSUME NEW rec, NEW q
    PROVE  /\ IsFiniteSet(Booked(rec, q)) /\ Cardinality(Booked(rec, q)) \in Nat
           /\ IsFiniteSet(Givers(rec, q)) /\ Cardinality(Givers(rec, q)) \in Nat
<1>. DEFINE S == Booked(rec, q)
            T == {GiverOf[x] : x \in S}
            f == [x \in S |-> GiverOf[x]]
<1>1. IsFiniteSet(Payments) /\ S \in SUBSET Payments
  BY InflowsAssumption DEF Booked
<1>2. IsFiniteSet(S) /\ Cardinality(S) \in Nat
  BY <1>1, FS_Subset, FS_CardinalityType
<1>3. f \in Surjection(S, T)
  BY DEF Surjection
<1>4. IsFiniteSet(T)
  BY <1>2, <1>3, FS_Surjection
<1>5. T \ {Nobody} \in SUBSET T
  OBVIOUS
<1>6. IsFiniteSet(T \ {Nobody})
  BY <1>4, <1>5, FS_Subset
<1>7. Cardinality(T \ {Nobody}) \in Nat
  BY <1>6, FS_CardinalityType
<1>. QED
  BY <1>2, <1>6, <1>7 DEF Givers

\* What COMMIT adds to both.
LEMMA CommitBooks ==
    ASSUME TypeOK, NEW x \in Payments, recorded[x] = 0,
           NEW q \in 1 .. MaxMonth, recorded' = [recorded EXCEPT ![x] = q]
    PROVE  /\ Booked(recorded', q) = Booked(recorded, q) \cup {x} /\ x \notin Booked(recorded, q)
           /\ \A p \in 1 .. MaxMonth : p # q => Booked(recorded', p) = Booked(recorded, p)
           /\ Givers(recorded', q) = Givers(recorded, q) \cup ({GiverOf[x]} \ {Nobody})
           /\ \A p \in 1 .. MaxMonth : p # q => Givers(recorded', p) = Givers(recorded, p)
<1>. USE Constants
<1>1. /\ Booked(recorded', q) = Booked(recorded, q) \cup {x} /\ x \notin Booked(recorded, q)
      /\ \A p \in 1 .. MaxMonth : p # q => Booked(recorded', p) = Booked(recorded, p)
  BY DEF Booked, TypeOK, TypeMoney
<1>2. Givers(recorded', q) = Givers(recorded, q) \cup ({GiverOf[x]} \ {Nobody})
  BY <1>1 DEF Givers
<1>3. \A p \in 1 .. MaxMonth : p # q => Givers(recorded', p) = Givers(recorded, p)
  BY <1>1 DEF Givers
<1>. QED
  BY <1>1, <1>2, <1>3

\* A month's row holds the gifts booked in it.
LEMMA CreditedOnceNext == ASSUME Inv, [Next]_vars PROVE CreditedOnce'
<1>. USE Constants DEF Inv, Executors, nombaVars, moneyVars, procVars, auditVars
<1>1. ASSUME NEW e \in Executors, Credit(e) PROVE CreditedOnce'
  <2>. DEFINE x == at[e][1]
              q == tx[e].period
              row(l, p) == IF p \in DOMAIN l THEN l[p] ELSE EmptyRow
              n(p) == Cardinality(Booked(recorded, p))
              next(p) == Cardinality(Booked(recorded', p))
  <2>1. /\ x \in Payments /\ recorded[x] = 0 /\ q \in 1 .. MaxMonth
        /\ recorded \in [Payments -> 0 .. MaxMonth]
    BY <1>1, EventsArePairs DEF Credit, StepShape, OneWriter, TypeOK, TypeMoney
  <2>2. /\ recorded' = [recorded EXCEPT ![x] = q]
        /\ ledger' = CreditLedger(ledger, q, GiftKobo, GiftFee)
    BY <1>1 DEF Credit
  <2>3. /\ Booked(recorded', q) = Booked(recorded, q) \cup {x} /\ x \notin Booked(recorded, q)
        /\ \A p \in 1 .. MaxMonth : p # q => Booked(recorded', p) = Booked(recorded, p)
    <3>. HIDE DEF x, q
    <3>. QED
      BY <2>1, <2>2, CommitBooks
  <2>4. \A p \in 1 .. MaxMonth : /\ row(ledger, p).collected = n(p) * GiftKobo
                                 /\ row(ledger, p).fees = n(p) * GiftFee
    BY DEF CreditedOnce, Booked
  <2>5. /\ DOMAIN ledger' = DOMAIN ledger \cup {q}
        /\ ledger'[q].collected = row(ledger, q).collected + GiftKobo
        /\ ledger'[q].fees = row(ledger, q).fees + GiftFee
        /\ \A p \in DOMAIN ledger : p # q => ledger'[p] = ledger[p]
    BY <2>1, <2>2, CreditAdds
  <2>6. n(q) \in Nat /\ next(q) = n(q) + 1
    <3>. DEFINE B == Booked(recorded, q)
    <3>1. IsFiniteSet(B) /\ Cardinality(B) \in Nat
      BY BookedFinite
    <3>. HIDE DEF B, x
    <3>2. Cardinality(B \cup {x}) = IF x \in B THEN Cardinality(B) ELSE Cardinality(B) + 1
      BY <3>1, FS_AddElement
    <3>. QED
      BY <2>3, <3>1, <3>2 DEF B
  <2>7. \A p \in 1 .. MaxMonth : p # q => next(p) = n(p)
    BY <2>3
  <2>. HIDE DEF x, q, n, next
  <2>8. /\ (n(q) + 1) * GiftKobo = n(q) * GiftKobo + GiftKobo
        /\ (n(q) + 1) * GiftFee = n(q) * GiftFee + GiftFee
    <3>1. \A a, b \in Nat : (a + 1) * b = a * b + b
      OBVIOUS
    <3>. QED
      BY <2>6, <3>1
  <2>9. \A p \in 1 .. MaxMonth : p # q => row(ledger', p) = row(ledger, p)
    BY <2>5
  <2>10. row(ledger', q) = ledger'[q]
    BY <2>5
  <2>. HIDE DEF row
  <2>11. \A p \in 1 .. MaxMonth : /\ row(ledger', p).collected = next(p) * GiftKobo
                                  /\ row(ledger', p).fees = next(p) * GiftFee
    <3>1. ASSUME NEW p \in 1 .. MaxMonth, p # q
          PROVE  /\ row(ledger', p).collected = next(p) * GiftKobo
                 /\ row(ledger', p).fees = next(p) * GiftFee
      BY <2>4, <2>7, <2>9, <3>1
    <3>2. ASSUME q \in 1 .. MaxMonth
          PROVE  /\ row(ledger', q).collected = next(q) * GiftKobo
                 /\ row(ledger', q).fees = next(q) * GiftFee
      BY <2>4, <2>5, <2>6, <2>8, <2>10, <3>2
    <3>. QED
      BY <3>1, <3>2
  <2>. QED
    BY <2>11 DEF CreditedOnce, Booked, row, next
<1>2. ASSUME UNCHANGED <<recorded, ledger>> PROVE CreditedOnce'
  BY <1>2 DEF CreditedOnce
<1>. QED
  BY <1>1, <1>2, OnlyInsertOpens DEF Insert

\* Each COMMIT counts its giver unless another gift of theirs was found.
LEMMA GiversCountedNext == ASSUME Inv, [Next]_vars PROVE GiversCounted'
<1>. USE Constants DEF Inv, Executors, nombaVars, moneyVars, procVars, auditVars
<1>. DEFINE n(p) == Cardinality(Givers(recorded, p))
            next(p) == Cardinality(Givers(recorded', p))
<1>0. \A p \in 1 .. MaxMonth : counted[p] >= n(p) /\ (p \notin raced => counted[p] = n(p))
  BY DEF GiversCounted, Givers, Booked
<1>1. ASSUME NEW e \in Executors, Credit(e) PROVE GiversCounted'
  <2>. DEFINE x == at[e][1]
              q == tx[e].period
              g == GiverOf[x]
  <2>1. /\ x \in Payments /\ recorded[x] = 0 /\ q \in 1 .. MaxMonth /\ pc[e] = "credit"
        /\ recorded \in [Payments -> 0 .. MaxMonth] /\ counted \in [1 .. MaxMonth -> Nat]
    BY <1>1, EventsArePairs DEF Credit, StepShape, OneWriter, TypeOK, TypeMoney
  <2>2. /\ recorded' = [recorded EXCEPT ![x] = q] /\ UNCHANGED raced
        /\ counted' = IF tx[e].first THEN [counted EXCEPT ![q] = @ + 1] ELSE counted
    BY <1>1 DEF Credit
  <2>3. /\ Givers(recorded', q) = Givers(recorded, q) \cup ({g} \ {Nobody})
        /\ \A p \in 1 .. MaxMonth : p # q => Givers(recorded', p) = Givers(recorded, p)
    <3>. HIDE DEF x, q
    <3>. QED
      BY <2>1, <2>2, CommitBooks
  <2>4. /\ g = Nobody => ~tx[e].first
        /\ g # Nobody /\ ~tx[e].first => Gifts(recorded, x, q) # {}
        /\ tx[e].first /\ q \notin raced => Gifts(recorded, x, q) = {}
    BY <2>1 DEF FlagsAgree
  <2>5. g # Nobody => (g \in Givers(recorded, q) <=> Gifts(recorded, x, q) # {})
    BY <2>1 DEF Givers, Booked, Gifts, SameGiver
  <2>6. n(q) \in Nat /\ (tx[e].first => next(q) = IF g \in Givers(recorded, q) THEN n(q) ELSE n(q) + 1)
    <3>1. tx[e].first => Givers(recorded', q) = Givers(recorded, q) \cup {g}
      BY <2>3, <2>4
    <3>. QED
      BY <3>1, BookedFinite, FS_AddElement
  <2>7. ~tx[e].first => next(q) = n(q)
    <3>1. ~tx[e].first => Givers(recorded', q) = Givers(recorded, q)
      BY <2>3, <2>4, <2>5
    <3>. QED
      BY <3>1
  <2>8. \A p \in 1 .. MaxMonth : p # q => next(p) = n(p)
    BY <2>3
  <2>. HIDE DEF n, next, x, q, g
  <2>9. /\ counted'[q] >= next(q)
        /\ q \notin raced => counted'[q] = next(q)
    BY <1>0, <2>1, <2>2, <2>4, <2>5, <2>6, <2>7
  <2>10. \A p \in 1 .. MaxMonth : p # q => counted'[p] = counted[p]
    BY <2>1, <2>2
  <2>11. \A p \in 1 .. MaxMonth :
            counted'[p] >= next(p) /\ (p \notin raced' => counted'[p] = next(p))
    BY <1>0, <2>2, <2>8, <2>9, <2>10
  <2>. QED
    BY <2>11 DEF GiversCounted, Givers, Booked, next
<1>2. ASSUME UNCHANGED <<recorded, counted>>, raced \subseteq raced' PROVE GiversCounted'
  <2>1. \A p \in 1 .. MaxMonth :
            counted'[p] >= next(p) /\ (p \notin raced' => counted'[p] = next(p))
    BY <1>0, <1>2
  <2>. QED
    BY <2>1 DEF GiversCounted, Givers, Booked
<1>. QED
  BY <1>1, <1>2, OnlyInsertOpens DEF Insert

-----------------------------------------------------------------------------
\* The system starts in the invariant.
LEMMA InitInv == ASSUME Init PROVE Inv
<1>. USE Constants DEF Init, Executors
<1>1. TypeOK
  BY DEF TypeOK, TypeNomba, TypeQueue, TypeMoney, TypeLedger, TypeProc, TypeRest, JobRow,
         FreeJob, NoTx, Row
<1>2. QueueShape /\ StepShape /\ PaidFor /\ OneWriter /\ FlagsAgree /\ Traces /\ ReplayTraces
  BY DEF QueueShape, StepShape, PaidFor, OneWriter, FlagsAgree, Traces, ReplayTraces, FreeJob
<1>3. LogShape
  BY DEF LogShape
<1>4. ASSUME NEW q \in 1 .. MaxMonth
      PROVE  Booked(recorded, q) = {} /\ Givers(recorded, q) = {}
  BY DEF Booked, Givers
<1>5. \A a \in Nat : 0 * a = 0
  OBVIOUS
<1>6. CreditedOnce
  <2>1. \A q \in 1 .. MaxMonth : q \notin DOMAIN ledger
    OBVIOUS
  <2>2. \A q \in 1 .. MaxMonth : Cardinality(Booked(recorded, q)) = 0
    BY <1>4, FS_EmptySet
  <2>. QED
    BY <1>5, <2>1, <2>2 DEF CreditedOnce, EmptyRow, Booked
<1>7. GiversCounted
  <2>1. \A q \in 1 .. MaxMonth : Cardinality(Givers(recorded, q)) = 0 /\ counted[q] = 0
    BY <1>4, FS_EmptySet
  <2>. QED
    BY <2>1 DEF GiversCounted, Givers, Booked
<1>. QED
  BY <1>1, <1>2, <1>3, <1>6, <1>7 DEF Inv

\* The inductive invariant.
THEOREM Invariant == Spec => []Inv
<1>1. Init => Inv
  BY InitInv
<1>2. Inv /\ [Next]_vars => Inv'
  <2>1. Inv /\ [Next]_vars => TypeOK'
    BY TypeNombaNext, TypeQueueNext, TypeMoneyNext, TypeLedgerNext, TypeProcNext, TypeRestNext
       DEF TypeOK
  <2>. QED
    BY <2>1, QueueShapeNext, StepShapeNext, PaidForNext, OneWriterNext, FlagsAgreeNext, TracesNext,
       LogShapeNext, ReplayTracesNext, CreditedOnceNext, GiversCountedNext DEF Inv
<1>. QED
  BY <1>1, <1>2, PTL DEF Spec

\* A payment is credited once, whatever is delivered twice, retried, replayed
\* or cut short by a crash.
THEOREM PaymentsAreCreditedOnce == Spec => []CreditedOnce
<1>1. Inv => CreditedOnce
  BY DEF Inv
<1>. QED
  BY <1>1, Invariant, PTL

\* member_count_paid counts unique givers, but for one member's payments whose
\* transactions overlap, and never too few.
THEOREM GiversAreCounted == Spec => []GiversCounted
<1>1. Inv => GiversCounted
  BY DEF Inv
<1>. QED
  BY <1>1, Invariant, PTL

\* processed = TRUE can be trusted.
THEOREM ProcessedCanBeTrusted == Spec => []ProcessedIsRecorded
<1>1. Inv => ProcessedIsRecorded
  BY DEF Inv, ProcessedIsRecorded, PaidFor, LogShape
<1>. QED
  BY <1>1, Invariant, PTL

\* What the replay script reports as credited is in the books, but for the
\* replay of a replay that failed.
THEOREM ReplaysAreCredited == Spec => []ReplayedIsCredited
<1>1. Inv => ReplayedIsCredited
  <2>. SUFFICES ASSUME Inv, NEW x \in audited
                PROVE  recorded[x] # 0 \/ log[<<x, "replay">>] = "open"
    BY DEF ReplayedIsCredited
  <2>1. /\ x \in Payments /\ x \in attributed /\ log[<<x, "replay">>] # "none"
        /\ log \in [Events -> {"none", "open", "done"}]
    BY DEF Inv, ReplayTraces, TypeOK, TypeQueue, TypeRest
  <2>2. <<x, "replay">> \in Events
    BY <2>1, EventsArePairs
  <2>. QED
    BY <2>1, <2>2 DEF Inv, LogShape
<1>. QED
  BY <1>1, Invariant, PTL

\* An acknowledged event is never lost without a trace.
THEOREM NothingIsLostSilently == Spec => []NothingLostSilently
<1>1. Inv => NothingLostSilently
  <2>. SUFFICES ASSUME Inv, NEW x \in attributed, webhook[x] = "acked", recorded[x] = 0,
                       log[<<x, "webhook">>] # "open"
                PROVE  \E j \in Jobs : job[j].x = x /\ job[j].state \in Held
    BY DEF NothingLostSilently
  <2>1. x \in Payments /\ <<x, "webhook">> \in Events
    BY EventsArePairs DEF Inv, TypeOK, TypeNomba
  <2>2. log[<<x, "webhook">>] = "none"
    BY <2>1 DEF Inv, LogShape, TypeOK, TypeQueue
  <2>3. PICK j \in Jobs : job[j].x = x /\ job[j].state # "free"
    BY <2>1 DEF Inv, Traces
  <2>4. job[j].state \in {"created", "active", "retry", "completed", "dead"}
    BY <2>3 DEF Inv, TypeOK, TypeQueue, JobRow
  <2>5. job[j].state # "completed"
    BY <2>2, <2>3 DEF Inv, Traces
  <2>. QED
    BY <2>3, <2>4, <2>5 DEF Held
<1>. QED
  BY <1>1, Invariant, PTL

-----------------------------------------------------------------------------
(* Inflows implements GiftBook.                                            *)

\* No payment is from a later month than this one, and no transaction is for a
\* month before its payment or after this one.
NotBefore ==
    /\ \A x \in Payments : paid[x] <= month
    /\ \A e \in Executors : pc[e] \in {"insert", "credit"} =>
          paid[at[e][1]] <= tx[e].period /\ tx[e].period <= month

\* An open transaction keeps its payment and its month.
Steady == \A o \in Executors : pc'[o] \in {"insert", "credit"} =>
    pc[o] \in {"insert", "credit"} /\ at'[o] = at[o] /\ tx'[o].period = tx[o].period

\* Only Resolve gives an executor a payment and a month to book it in.
LEMMA OnlyResolveDates ==
    ASSUME Inv, [Next]_vars
    PROVE  Steady \/ \E e \in Executors : Resolve(e)
<1>1. \/ UNCHANGED procVars
      \/ \E w \in Workers, j \in Jobs : TakeJob(w, j)
      \/ \E e \in Executors : Process(e) \/ StepFails(e) \/ Crash(e)
      \/ \E o \in Operators : Confirm(o) \/ \E x \in Payments : Review(o, x)
  BY DEF Next, vars, procVars, Pay, LoseWebhook, Deliver, DeliverTimesOut, DeliverAgain,
         RunReconciliation, ExpireJob, NextMonth
<1>. USE DEF Inv, TypeOK, TypeProc, Executors, Goto, Leave, Steady
<1>2. CASE UNCHANGED procVars
  BY <1>2 DEF procVars
<1>3. ASSUME NEW w \in Workers, NEW j \in Jobs, TakeJob(w, j) PROVE Steady
  BY <1>3 DEF TakeJob
<1>4. ASSUME NEW e \in Executors, StepFails(e) \/ Crash(e) PROVE Steady
  BY <1>4 DEF StepFails, Crash, Throw
<1>5. ASSUME NEW o \in Operators, \/ Confirm(o)
                                  \/ \E x \in Payments : Review(o, x)
      PROVE  Steady
  BY <1>5 DEF Confirm, Review
<1>6. ASSUME NEW e \in Executors, Insert(e) PROVE Steady
  BY <1>6 DEF Insert
<1>7. ASSUME NEW e \in Executors, \/ LogEvent(e) \/ Credit(e) \/ MarkProcessed(e)
                                  \/ MarkFailed(e) \/ Return(e)
      PROVE  Steady
  BY <1>7 DEF LogEvent, Credit, MarkProcessed, MarkFailed, Return, Throw
<1>. HIDE DEF Inv, Steady
<1>. QED
  BY <1>1, <1>2, <1>3, <1>4, <1>5, <1>6, <1>7 DEF Process

\* Only a payment and the turn of the month change the dates.
LEMMA OnlyPayDates ==
    ASSUME [Next]_vars
    PROVE  \/ \E x \in Payments : Pay(x)
           \/ NextMonth
           \/ UNCHANGED <<paid, month>>
  BY ZenonT(60) DEF Next, Process, vars, nombaVars, moneyVars, LoseWebhook, Deliver,
         DeliverTimesOut, DeliverAgain, RunReconciliation, TakeJob, ExpireJob, LogEvent, Resolve,
         Insert, Credit, MarkProcessed, MarkFailed, Return, StepFails, Crash, Review, Confirm

\* Every step keeps the dates in order.
LEMMA NotBeforeNext == ASSUME Inv, NotBefore, [Next]_vars PROVE NotBefore'
<1>1. /\ paid \in [Payments -> Nat] /\ month \in Nat \ {0}
      /\ tx \in [Executors -> [period : Nat, first : BOOLEAN]]
      /\ DOMAIN pc = Executors
  <2>1. TypeNomba /\ TypeMoney /\ TypeProc
    BY DEF Inv, TypeOK
  <2>2. 0 .. MaxMonth \subseteq Nat /\ 1 .. MaxMonth \subseteq Nat \ {0}
    BY Constants
  <2>3. paid \in [Payments -> Nat] /\ month \in Nat \ {0}
    BY <2>1, <2>2 DEF TypeNomba, TypeMoney
  <2>4. tx \in [Executors -> [period : Nat, first : BOOLEAN]]
    BY <2>1, <2>2 DEF TypeProc
  <2>5. DOMAIN pc = Executors
    BY <2>1 DEF TypeProc
  <2>. QED
    BY <2>3, <2>4, <2>5
<1>2. \A e \in Executors : pc[e] # "idle" => at[e][1] \in Payments /\ paid[at[e][1]] # 0
  BY EventsArePairs DEF Inv, StepShape, PaidFor
<1>3. CASE Steady /\ UNCHANGED <<paid, month>>
  BY <1>3 DEF NotBefore, Steady
<1>4. ASSUME NEW x \in Payments, Pay(x) PROVE NotBefore'
  <2>1. \A y \in Payments : paid'[y] = IF y = x THEN month ELSE paid[y]
    BY <1>1, <1>4 DEF Pay
  <2>2. UNCHANGED <<pc, at, tx, month>> /\ paid[x] = 0
    BY <1>4 DEF Pay, moneyVars, procVars
  <2>3. \A e \in Executors : pc[e] \in {"insert", "credit"} => at[e][1] # x
    BY <1>2, <2>2
  <2>. QED
    BY <1>1, <1>2, <2>1, <2>2, <2>3 DEF NotBefore
<1>5. CASE NextMonth
  <2>1. month' = month + 1 /\ UNCHANGED <<paid, pc, at, tx>>
    BY <1>5 DEF NextMonth, nombaVars, procVars
  <2>. QED
    BY <1>1, <1>2, <2>1 DEF NotBefore
<1>6. ASSUME NEW e \in Executors, Resolve(e) PROVE NotBefore'
  <2>1. UNCHANGED <<paid, month, at>>
    BY <1>6 DEF Resolve, nombaVars, moneyVars
  <2>2. \A o \in Executors : o # e => pc'[o] = pc[o] /\ tx'[o] = tx[o]
    BY <1>1, <1>6 DEF Resolve, Goto
  <2>3. pc[e] = "resolve" /\ (pc'[e] = "insert" => tx'[e].period = month)
        /\ pc'[e] # "credit"
    BY <1>1, <1>6 DEF Resolve, Goto
  <2>4. at[e][1] \in Payments
    BY <1>2, <2>3
  <2>. QED
    BY <1>1, <2>1, <2>2, <2>3, <2>4 DEF NotBefore
<1>7. Steady \/ \E e \in Executors : Resolve(e)
  BY OnlyResolveDates
<1>. QED
  BY <1>3, <1>4, <1>5, <1>6, <1>7, OnlyPayDates

\* The dates are in order in every state.
LEMMA DatesInOrder == Spec => []NotBefore
<1>1. Init => NotBefore
  BY DEF Init, NotBefore
<1>. QED
  BY <1>1, NotBeforeNext, Invariant, PTL DEF Spec

\* The books start empty.
LEMMA BookInitial == Init => Book!BookInit
  BY DEF Init, Book!BookInit, EmptyRow, Book!EmptyRow

\* The ledger is the same one.
LEMMA BookCredits ==
    \A q : Book!CreditLedger(ledger, q, GiftKobo, GiftFee)
             = CreditLedger(ledger, q, GiftKobo, GiftFee)
  BY DEF CreditLedger, Upsert, EmptyRow, Book!CreditLedger, Book!Upsert, Book!EmptyRow

\* A COMMIT books one gift; no step that is not a COMMIT, a payment or the turn
\* of the month is seen in the books.
LEMMA BookStep ==
    ASSUME Inv, NotBefore, [Next]_vars
    PROVE  Book!BookNext \/ UNCHANGED Book!bookVars
<1>1. \/ \E x \in Payments : Pay(x)
      \/ NextMonth
      \/ \E e \in Executors : Credit(e)
      \/ UNCHANGED <<paid, recorded, ledger, month>>
  BY ZenonT(60) DEF Next, Process, vars, nombaVars, moneyVars, LoseWebhook, Deliver,
         DeliverTimesOut, DeliverAgain, RunReconciliation, TakeJob, ExpireJob, LogEvent, Resolve,
         Insert, MarkProcessed, MarkFailed, Return, StepFails, Crash, Review, Confirm
<1>2. ASSUME NEW x \in Payments, Pay(x) PROVE Book!Receive(x)
  BY <1>2 DEF Pay, moneyVars, Book!Receive
<1>3. CASE NextMonth
  BY <1>3 DEF NextMonth, nombaVars, Book!BookNext, Book!TurnMonth
<1>4. ASSUME NEW e \in Executors, Credit(e)
      PROVE  at[e][1] \in Payments /\ Book!BookGift(at[e][1])
  <2>. DEFINE x == at[e][1]
              q == tx[e].period
  <2>1. /\ pc[e] = "credit" /\ UNCHANGED <<paid, month>>
        /\ recorded' = [recorded EXCEPT ![x] = q]
        /\ ledger' = CreditLedger(ledger, q, GiftKobo, GiftFee)
    BY <1>4 DEF Credit, nombaVars
  <2>2. x \in Payments /\ paid[x] # 0 /\ recorded[x] = 0
    BY <2>1, EventsArePairs DEF Inv, StepShape, PaidFor, OneWriter
  <2>3. paid[x] \in Nat /\ month \in Nat /\ q \in Nat
    BY <2>2, Constants DEF Inv, TypeOK, TypeNomba, TypeMoney, TypeProc
  <2>4. paid[x] <= q /\ q <= month
    BY <2>1 DEF NotBefore
  <2>5. q \in paid[x] .. month
    BY <2>3, <2>4
  <2>. QED
    BY <2>1, <2>2, <2>5, BookCredits DEF Book!BookGift
<1>. QED
  BY <1>1, <1>2, <1>3, <1>4 DEF Book!BookNext, Book!bookVars

\* Whatever is delivered twice, retried, replayed or cut short by a crash, and
\* however long it takes, the books move as GiftBook.tla has it: one gift with
\* its credit at a time, once, and in no month before its payment
\* (inflow-handler.service.ts).
THEOREM InflowsImplementGiftBook == Spec => ImplementsGiftBook
<1>1. Inv /\ NotBefore /\ [Next]_vars => [Book!BookNext]_(Book!bookVars)
  BY BookStep
<1>. QED
  BY BookInitial, Invariant, DatesInOrder, <1>1, PTL
  DEF Spec, ImplementsGiftBook, Book!BookSpec

-----------------------------------------------------------------------------
\* Every payment is classified consistently, whatever its amount.
THEOREM PaymentsClassifiedOnce ==
    ASSUME NEW a \in Nat, NEW x \in Nat
    PROVE  ClassifiedOnce(a, x) /\ FirstPaymentAgrees(a, x)
BY DEF ClassifiedOnce, FirstPaymentAgrees, Reconcile, RunningDeficit

\* What Math.round returns.
LEMMA RoundBounds ==
    ASSUME NEW n \in Nat, NEW d \in Nat \ {0}
    PROVE  /\ Round(n, d) \in Nat
           /\ (2 * d) * Round(n, d) <= 2 * n + d
           /\ 2 * n + d < (2 * d) * (Round(n, d) + 1)
<1> DEFINE p == 2 * n + d
           q == 2 * d
<1>1. p \in Nat /\ q \in Nat /\ q > 0
  OBVIOUS
<1>2. p \div q \in Nat /\ q * (p \div q) <= p /\ p < q * (p \div q + 1)
  <2> HIDE DEF p, q
  <2> QED BY <1>1
<1> QED BY <1>2 DEF Round

\* The progress a member sees and the deficit agree, up to the rounding.
THEOREM ProgressAgrees ==
    ASSUME NEW a \in Nat, NEW x \in Nat
    PROVE  ProgressMatchesDeficit(a, x)
<1>1. CASE x = 0
  BY <1>1 DEF ProgressMatchesDeficit, PledgeProgress, RunningDeficit
<1>2. CASE x # 0
  <2> DEFINE r == Round(100 * a, x)
  <2>1. r \in Nat /\ (2 * x) * r <= 200 * a + x /\ 200 * a + x < (2 * x) * (r + 1)
    BY <1>2, RoundBounds, 100 * a \in Nat, x \in Nat \ {0}
  <2>2. a >= x => r >= 100
    <3> SUFFICES ASSUME a >= x, r <= 99 PROVE FALSE
      BY <2>1
    <3>1. (2 * x) * (r + 1) <= (2 * x) * 100
      BY <2>1
    <3> QED BY <2>1, <3>1
  <2>3. r >= 100 => 200 * x <= 200 * a + x
    <3> SUFFICES ASSUME r >= 100 PROVE 200 * x <= 200 * a + x
      OBVIOUS
    <3>1. (2 * x) * 100 <= (2 * x) * r
      BY <2>1
    <3> QED BY <2>1, <3>1
  <2> HIDE DEF r
  <2> QED BY <1>2, <2>1, <2>2, <2>3 DEF ProgressMatchesDeficit, PledgeProgress, RunningDeficit, r
<1> QED BY <1>1, <1>2

=============================================================================
