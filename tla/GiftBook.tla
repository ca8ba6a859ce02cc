------------------------------ MODULE GiftBook ------------------------------
(***************************************************************************)
(* What the server promises for the money that comes in: a payment Nomba   *)
(* has received is booked at most once, by one step that writes the row of *)
(* the payment and adds the gift and its charge to the ledger, into a      *)
(* month between the one it was received in and the current one; nothing   *)
(* else changes either.  Inflows.tla, which has the webhooks, the queue,   *)
(* the processor, its crashes and the replays, implements this module.     *)
(***************************************************************************)
EXTENDS FundLedger

CONSTANTS
    Payments,             \* bank payments members may make
    GiftKobo, GiftFee     \* what a payment credits, and Nomba's charge on it

VARIABLES
    received,             \* the month Nomba received the payment in, or 0
    booked,               \* period_month of its transaction, or 0
    ledger, month         \* fund_ledger and currentPeriod()

bookVars == <<received, booked, ledger, month>>

BookInit ==
    /\ received = [x \in Payments |-> 0]
    /\ booked = [x \in Payments |-> 0]
    /\ ledger = [q \in {} |-> EmptyRow]
    /\ month = 1

Receive(x) ==
    /\ received[x] = 0
    /\ received' = [received EXCEPT ![x] = month]
    /\ UNCHANGED <<booked, ledger, month>>

\* currentPeriod() is read before the transaction, which may commit later.
BookGift(x) ==
    /\ received[x] # 0
    /\ booked[x] = 0
    /\ \E q \in received[x] .. month :
          /\ booked' = [booked EXCEPT ![x] = q]
          /\ ledger' = CreditLedger(ledger, q, GiftKobo, GiftFee)
    /\ UNCHANGED <<received, month>>

TurnMonth == month' = month + 1 /\ UNCHANGED <<received, booked, ledger>>

BookNext == TurnMonth \/ \E x \in Payments : Receive(x) \/ BookGift(x)

BookSpec == BookInit /\ [][BookNext]_bookVars

=============================================================================
