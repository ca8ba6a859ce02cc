----------------------------- MODULE FundLedger -----------------------------
(***************************************************************************)
(* The fund_ledger table of one fund of one organisation, and the          *)
(* statements of src/modules/transactions/ledger.service.ts that change    *)
(* it.  A ledger is a function whose domain is the set of periods          *)
(* ('YYYY-MM', numbered from 1) that have a row.  The two display counters *)
(* (members paid, transactions) are left out.                              *)
(*                                                                         *)
(* Transactions run at READ COMMITTED (db/index.ts: a plain BEGIN).  Each  *)
(* write below commits as a whole, so it is one step even where it is two  *)
(* statements (DebitLedger); a SUM is one statement and sees one snapshot. *)
(* The one reader that can see part of a commit is the SELECT ... FOR      *)
(* UPDATE of checkAndLock: it finds its rows in the snapshot it starts     *)
(* with, waits for their locks, and then reads each row as last committed; *)
(* a row inserted meanwhile stays unseen.  CanLock is told the rows found. *)
(***************************************************************************)
(* Left out: that softLock and a releaseLock without a month also choose   *)
(* their row in the statement's snapshot, which may be older by the time   *)
(* the row is free.                                                        *)
(***************************************************************************)
EXTENDS Integers, Functions

Row == [collected : Nat, paidOut : Nat, fees : Nat, softLock : Nat]

NoPeriod == 0          \* a NULL locked_period_month

EmptyRow == [collected |-> 0, paidOut |-> 0, fees |-> 0, softLock |-> 0]

\* GREATEST(0, n) in SQL, Math.max(0, n) in the service.
FloorZero(n) == IF n > 0 THEN n ELSE 0

\* (Mutant: the conflicting row is overwritten.)
UpsertOverwriting(ledger, m) ==
    [q \in DOMAIN ledger \cup {m} |-> IF q = m THEN EmptyRow ELSE ledger[q]]

\* INSERT ... ON CONFLICT: the row of period m, created empty if there is none.
Upsert(ledger, m) ==
    [q \in DOMAIN ledger \cup {m} |->
        IF q \in DOMAIN ledger THEN ledger[q] ELSE EmptyRow]

-----------------------------------------------------------------------------
(* Reads: sums over every period of the fund.                              *)

CollectedKobo(ledger) == SumFunction([q \in DOMAIN ledger |-> ledger[q].collected])
PaidOutKobo(ledger)   == SumFunction([q \in DOMAIN ledger |-> ledger[q].paidOut])
FeesKobo(ledger)      == SumFunction([q \in DOMAIN ledger |-> ledger[q].fees])
SoftLockKobo(ledger)  == SumFunction([q \in DOMAIN ledger |-> ledger[q].softLock])

\* (Mutant: reservations are not subtracted.)
AvailableIgnoringLocks(ledger) ==
    FloorZero(CollectedKobo(ledger) - FeesKobo(ledger) - PaidOutKobo(ledger))

\* available_kobo of getBalance, also the figure checkAndLock compares.
AvailableKobo(ledger) ==
    FloorZero(CollectedKobo(ledger) - FeesKobo(ledger)
                - PaidOutKobo(ledger) - SoftLockKobo(ledger))

\* ORDER BY period_month DESC LIMIT 1
LatestPeriod(periods) == CHOOSE q \in periods : \A o \in periods : o <= q

LockedPeriods(ledger) == {q \in DOMAIN ledger : ledger[q].softLock > 0}

-----------------------------------------------------------------------------
(* Writes.                                                                 *)

CreditLedger(ledger, m, amountKobo, feeKobo) ==
    [Upsert(ledger, m) EXCEPT ![m].collected = @ + amountKobo,
                              ![m].fees      = @ + feeKobo]

\* The rows a SELECT may have found that started at some moment since the
\* fund had those of earlier: rows are added month after month.
RowsFoundSince(earlier, ledger) ==
    {rows \in SUBSET DOMAIN ledger :
        earlier \subseteq rows /\ \A q \in rows, o \in DOMAIN ledger : o <= q => o \in rows}

\* The balance gate of checkAndLock: SELECT ... FOR UPDATE, then compare.
CanLock(ledger, rows, amountKobo, feeBufferKobo) ==
    /\ rows # {}
    /\ AvailableKobo(Restrict(ledger, rows)) >= amountKobo + feeBufferKobo

\* The UPDATE of checkAndLock: reserve on the row of period q.
Reserve(ledger, q, amountKobo) == [ledger EXCEPT ![q].softLock = @ + amountKobo]

\* softLock: reserve on the latest row.
SoftLock(ledger, amountKobo) ==
    IF DOMAIN ledger = {} THEN ledger
    ELSE Reserve(ledger, LatestPeriod(DOMAIN ledger), amountKobo)

\* releaseLock: the named row, or the latest row that still holds a lock.
ReleaseLock(ledger, amountKobo, lockedPeriod) ==
    LET locked == LockedPeriods(ledger)
        target == IF lockedPeriod # NoPeriod THEN lockedPeriod
                  ELSE IF locked # {} THEN LatestPeriod(locked) ELSE NoPeriod
    IN  IF target \in DOMAIN ledger
        THEN [ledger EXCEPT ![target].softLock = FloorZero(@ - amountKobo)]
        ELSE ledger

\* (Mutant: the reservation is looked for on the current month's row.)
DebitCurrentPeriod(ledger, m, amountKobo, feeKobo, lockedPeriod) ==
    ReleaseLock([Upsert(ledger, m) EXCEPT ![m].paidOut = @ + amountKobo,
                                          ![m].fees    = @ + feeKobo],
                amountKobo, m)

\* debitLedger: pay out of the current period, then release the reservation;
\* two statements of one transaction.
DebitLedger(ledger, m, amountKobo, feeKobo, lockedPeriod) ==
    ReleaseLock([Upsert(ledger, m) EXCEPT ![m].paidOut = @ + amountKobo,
                                          ![m].fees    = @ + feeKobo],
                amountKobo, lockedPeriod)

=============================================================================
