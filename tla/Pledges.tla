------------------------------- MODULE Pledges -------------------------------
(***************************************************************************)
(* How a payment is classified against the amount its fund expects, and    *)
(* how far a member's payments have come: reconciliation.service.ts.       *)
(* Amounts are kobo; 0 stands for a fund that expects nothing, where the   *)
(* code has null or 0.                                                     *)
(***************************************************************************)
EXTENDS Integers

\* reconcile: one payment against what is expected.
Reconcile(amountKobo, expectedKobo) ==
    LET variance == IF expectedKobo = 0 THEN 0 ELSE amountKobo - expectedKobo IN
    [status   |-> IF variance = 0 THEN "EXACT"
                  ELSE IF variance < 0 THEN "UNDERPAYMENT" ELSE "OVERPAYMENT",
     variance |-> variance,
     deficit  |-> IF variance < 0 THEN -variance ELSE 0,
     surplus  |-> IF variance > 0 THEN variance ELSE 0]

\* Math.round of n / d.
Round(n, d) == (2 * n + d) \div (2 * d)

\* computePledgeProgress: per cent of the pledge, capped.
PledgeProgress(paidKobo, expectedKobo) ==
    IF expectedKobo = 0 \/ Round(100 * paidKobo, expectedKobo) > 100 THEN 100
    ELSE Round(100 * paidKobo, expectedKobo)

\* computeRunningDeficit: what a member still owes.
RunningDeficit(paidKobo, expectedKobo) ==
    IF expectedKobo > paidKobo THEN expectedKobo - paidKobo ELSE 0

-----------------------------------------------------------------------------
(* What the portal, the reports and the mails rely on, for every amount.   *)

\* The row that is stored can be trusted in every column: status, variance,
\* deficit and surplus say the same, and the payment is what was expected and
\* the variance.
ClassifiedOnce(a, x) ==
    LET r == Reconcile(a, x) IN
    /\ r.status = "UNDERPAYMENT" <=> r.deficit > 0
    /\ r.status = "OVERPAYMENT" <=> r.surplus > 0
    /\ r.deficit = 0 \/ r.surplus = 0
    /\ r.variance = r.surplus - r.deficit
    /\ x # 0 => a = x + r.variance

\* A member's first payment owes, by its mail, what the portal says is left.
FirstPaymentAgrees(a, x) == Reconcile(a, x).deficit = RunningDeficit(a, x)

\* A pledge that is met shows as 100 %; one that shows as 100 % is met but for
\* half a per cent of it, which rounding hides.
ProgressMatchesDeficit(a, x) ==
    /\ PledgeProgress(a, x) \in 0 .. 100
    /\ RunningDeficit(a, x) = 0 => PledgeProgress(a, x) = 100
    /\ PledgeProgress(a, x) = 100 => 200 * RunningDeficit(a, x) <= x
=============================================================================
