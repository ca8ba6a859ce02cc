--------------------------- MODULE PayoutLifecycle ---------------------------
(***************************************************************************)
(* What a payout promises, whatever path it takes: its status follows the  *)
(* table of src/modules/payouts/payout-state.machine.ts, the bank transfer *)
(* is requested at most once and only while the payout is TRANSFERRING,    *)
(* and it is never TRANSFERRED without a request.  Payouts.tla, which has  *)
(* the requests, jobs and webhooks that move it, implements this module.   *)
(***************************************************************************)
EXTENDS Naturals

CONSTANT PayoutIds       \* identities of payout_requests rows

VARIABLES
    status,              \* payout_requests.status, "NONE" before the INSERT
    calls                \* POSTs of the transfer made for the payout

lifecycleVars == <<status, calls>>

Status == {"NONE", "PENDING", "PARTIAL", "APPROVED", "TRANSFERRING",
           "TRANSFERRED", "DECLINED", "EXPIRED", "FAILED", "CANCELLED"}

\* VALID_TRANSITIONS as a set of pairs.
ValidTransitions ==
    ({"PENDING"} \X {"PARTIAL", "APPROVED", "DECLINED", "EXPIRED", "CANCELLED"})
    \cup ({"PARTIAL"} \X {"APPROVED", "DECLINED", "EXPIRED"})
    \cup {<<"APPROVED", "TRANSFERRING">>}
    \cup ({"TRANSFERRING"} \X {"TRANSFERRED", "FAILED"})
    \cup {<<"FAILED", "PENDING">>}

\* TERMINAL_STATES.
TerminalStates == {"TRANSFERRED", "DECLINED", "EXPIRED", "CANCELLED"}

LifecycleInit ==
    /\ status = [p \in PayoutIds |-> "NONE"]
    /\ calls = [p \in PayoutIds |-> 0]

Create(p) ==
    /\ status[p] = "NONE"
    /\ status' = [status EXCEPT ![p] = "PENDING"]
    /\ UNCHANGED calls

\* One legal transition.  The table also lets a FAILED payout be retried.
Transition(p, to) ==
    /\ <<status[p], to>> \in ValidTransitions
    /\ to = "TRANSFERRED" => calls[p] = 1
    /\ status' = [status EXCEPT ![p] = to]
    /\ UNCHANGED calls

\* The manual path asserts PENDING -> APPROVED -> TRANSFERRING and writes once.
SkipApproval(p) ==
    /\ status[p] = "PENDING"
    /\ status' = [status EXCEPT ![p] = "TRANSFERRING"]
    /\ UNCHANGED calls

RequestTransfer(p) ==
    /\ status[p] = "TRANSFERRING"
    /\ calls[p] = 0
    /\ calls' = [calls EXCEPT ![p] = 1]
    /\ UNCHANGED status

LifecycleNext ==
    \E p \in PayoutIds :
        \/ Create(p)
        \/ \E to \in Status : Transition(p, to)
        \/ SkipApproval(p)
        \/ RequestTransfer(p)

LifecycleSpec == LifecycleInit /\ [][LifecycleNext]_lifecycleVars

=============================================================================
