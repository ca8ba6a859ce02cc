--------------------------- MODULE CircuitBreaker ---------------------------
(***************************************************************************)
(* The circuit breaker of utils/circuit-breaker.ts as config/nomba.ts uses *)
(* it: one breaker in front of every call to Nomba, asked by the request   *)
(* interceptor, told by the response interceptor, with the fetch of the    *)
(* access token in between.  Nomba is external: it is up, and answers, or  *)
(* down, and every call ends in a timeout, a broken connection or a 5xx.   *)
(*                                                                         *)
(* Time is counted in ticks.  breaker.wait is nextProbeAt - Date.now(),    *)
(* floored at 0, and left[r] what remains of axios' timeout of request r.  *)
(***************************************************************************)
EXTENDS Integers

CONSTANTS
    Requests,               \* calls that may be under way at once
    FailureThreshold, SuccessThreshold, HalfOpenMaxProbes,
    BaseCooldown, MaxCooldown,
    Timeout                 \* of a request; fetchNombaToken sets none

ASSUME BreakerAssumption ==
    /\ {FailureThreshold, SuccessThreshold, HalfOpenMaxProbes} \subseteq Nat \ {0}
    /\ {BaseCooldown, MaxCooldown, Timeout} \subseteq Nat \ {0}
    /\ BaseCooldown =< MaxCooldown

VARIABLES
    breaker,
    fresh,                  \* tokenCache holds a token that has not expired
    pc, left,               \* requests: where they are, and their timers
    up,                     \* Nomba answers
    admitted                \* requests admitted in this half-open period

vars == <<breaker, fresh, pc, left, up, admitted>>

-----------------------------------------------------------------------------
(* class CircuitBreaker.                                                   *)

Breaker == [state : {"CLOSED", "OPEN", "HALF_OPEN"},
            failures : Nat, cooldown : Nat, wait : Nat,
            successes : Nat, inFlight : Nat]

NewBreaker == [state |-> "CLOSED", failures |-> 0, cooldown |-> BaseCooldown,
               wait |-> 0, successes |-> 0, inFlight |-> 0]

OneFewer(b) == IF b.inFlight = 0 THEN 0 ELSE b.inFlight - 1

Doubled(cooldown) == IF 2 * cooldown =< MaxCooldown THEN 2 * cooldown ELSE MaxCooldown

Trip(b, cooldown) == [b EXCEPT !.state = "OPEN", !.cooldown = cooldown, !.wait = cooldown]

\* OPEN whose cooldown has elapsed becomes HALF_OPEN for the caller that asks.
HalfOpens(b) == b.state = "OPEN" /\ b.wait = 0

\* (Mutant: one probe too many.)
AllowedOneMore(b) ==
    \/ b.state = "CLOSED"
    \/ HalfOpens(b)
    \/ b.state = "HALF_OPEN" /\ b.inFlight =< HalfOpenMaxProbes

\* assertRequestAllowed does not throw ...
Allowed(b) ==
    \/ b.state = "CLOSED"
    \/ HalfOpens(b)
    \/ b.state = "HALF_OPEN" /\ b.inFlight < HalfOpenMaxProbes

\* ... and admits the caller.
Admit(b) ==
    IF b.state = "CLOSED" THEN b
    ELSE IF HalfOpens(b)
         THEN [b EXCEPT !.state = "HALF_OPEN", !.successes = 0, !.inFlight = 1]
         ELSE [b EXCEPT !.inFlight = @ + 1]

\* (Mutant: a half-open success never closes the circuit.)
RecordSuccessOpen(b) ==
    IF b.state = "CLOSED" THEN [b EXCEPT !.failures = 0] ELSE b

RecordSuccess(b) ==
    LET probed == [b EXCEPT !.inFlight = OneFewer(b), !.successes = @ + 1]
    IN  IF b.state = "HALF_OPEN"
        THEN IF probed.successes >= SuccessThreshold
             THEN [probed EXCEPT !.state = "CLOSED", !.failures = 0, !.cooldown = BaseCooldown]
             ELSE probed
        ELSE IF b.state = "CLOSED" THEN [b EXCEPT !.failures = 0] ELSE b

\* (Mutant: a failed probe starts the backoff over.)
RecordFailureFlat(b) ==
    LET failed == [b EXCEPT !.failures = @ + 1]
    IN  IF b.state = "HALF_OPEN" THEN Trip([b EXCEPT !.inFlight = OneFewer(b)], BaseCooldown)
        ELSE IF b.state = "CLOSED"
             THEN IF failed.failures >= FailureThreshold THEN Trip(failed, BaseCooldown) ELSE failed
             ELSE b

\* (Mutant: failures are not counted.)
RecordFailureUncounted(b) ==
    IF b.state = "HALF_OPEN"
    THEN Trip([b EXCEPT !.inFlight = OneFewer(b)], Doubled(b.cooldown))
    ELSE b

RecordFailure(b) ==
    LET failed == [b EXCEPT !.failures = @ + 1]
    IN  IF b.state = "HALF_OPEN"
        THEN Trip([b EXCEPT !.inFlight = OneFewer(b)], Doubled(b.cooldown))
        ELSE IF b.state = "CLOSED"
             THEN IF failed.failures >= FailureThreshold THEN Trip(failed, BaseCooldown) ELSE failed
             ELSE b

-----------------------------------------------------------------------------
Init ==
    /\ breaker = NewBreaker
    /\ fresh = TRUE
    /\ pc = [r \in Requests |-> "idle"]
    /\ left = [r \in Requests |-> 0]
    /\ up = TRUE
    /\ admitted = 0

\* The request interceptor: assertRequestAllowed, and getValidToken finds the
\* token in the cache, or fetches one first.  A caller that is refused leaves
\* everything as it is.
Start(r) ==
    /\ pc[r] = "idle"
    /\ Allowed(breaker)
    /\ breaker' = Admit(breaker)
    /\ admitted' = CASE breaker.state = "CLOSED" -> 0
                     [] HalfOpens(breaker) -> 1
                     [] OTHER -> admitted + 1
    /\ pc' = [pc EXCEPT ![r] = IF fresh THEN "http" ELSE "token"]
    /\ left' = [left EXCEPT ![r] = IF fresh THEN Timeout ELSE 0]
    /\ UNCHANGED <<fresh, up>>

\* The response interceptor.  A 4xx counts as a success, as do 2xx.
Finish(r) ==
    /\ breaker' = IF up THEN RecordSuccess(breaker) ELSE RecordFailure(breaker)
    /\ pc' = [pc EXCEPT ![r] = "idle"]
    /\ left' = [left EXCEPT ![r] = 0]
    /\ UNCHANGED <<fresh, up, admitted>>

TokenArrives(r) ==
    /\ pc[r] = "token"
    /\ up
    /\ fresh' = TRUE
    /\ pc' = [pc EXCEPT ![r] = "http"]
    /\ left' = [left EXCEPT ![r] = Timeout]
    /\ UNCHANGED <<breaker, up, admitted>>

\* A rejected request interceptor ends in the response interceptor.
TokenFails(r) == pc[r] = "token" /\ Finish(r)

Answer(r) == pc[r] = "http" /\ Finish(r)

-----------------------------------------------------------------------------
(* The surroundings.                                                       *)

ExpireToken ==
    /\ fresh
    /\ fresh' = FALSE
    /\ UNCHANGED <<breaker, pc, left, up, admitted>>

GoDown == up /\ up' = FALSE /\ UNCHANGED <<breaker, fresh, pc, left, admitted>>

ComeUp == ~up /\ up' = TRUE /\ UNCHANGED <<breaker, fresh, pc, left, admitted>>

\* A request whose timer runs out is answered, by the timeout at the latest,
\* before time goes on.
Tick ==
    /\ breaker.wait > 0 \/ \E r \in Requests : pc[r] = "http"
    /\ \A r \in Requests : pc[r] = "http" => left[r] > 0
    /\ breaker' = [breaker EXCEPT !.wait = IF @ = 0 THEN 0 ELSE @ - 1]
    /\ left' = [r \in Requests |-> IF pc[r] = "http" THEN left[r] - 1 ELSE left[r]]
    /\ UNCHANGED <<fresh, pc, up, admitted>>

-----------------------------------------------------------------------------
Next ==
    \/ \E r \in Requests : Start(r) \/ TokenArrives(r) \/ TokenFails(r) \/ Answer(r)
    \/ ExpireToken \/ GoDown \/ ComeUp
    \/ Tick

Spec == Init /\ [][Next]_vars

\* Users keep asking, timers run, and axios' timeout ends every request.
Fairness ==
    /\ WF_vars(\E r \in Requests : Start(r))
    /\ \A r \in Requests : WF_vars(Answer(r))
    /\ WF_vars(Tick)

\* What the code guarantees: a token fetch has no timeout and may hang.
FairSpec == Spec /\ Fairness

\* The same where every token fetch ends.
PromptSpec == FairSpec /\ \A r \in Requests : WF_vars(TokenArrives(r) \/ TokenFails(r))

-----------------------------------------------------------------------------
(* Properties.                                                             *)

TypeOK ==
    /\ breaker \in Breaker
    /\ breaker.failures =< FailureThreshold
    /\ breaker.cooldown \in BaseCooldown .. MaxCooldown
    /\ breaker.wait =< breaker.cooldown
    /\ breaker.successes =< SuccessThreshold
    /\ breaker.inFlight =< HalfOpenMaxProbes
    /\ fresh \in BOOLEAN /\ up \in BOOLEAN
    /\ pc \in [Requests -> {"idle", "token", "http"}]
    /\ left \in [Requests -> 0 .. Timeout]
    /\ admitted \in Nat

\* "A thundering herd can't hammer a barely-recovering upstream": in one
\* half-open period an upstream sees no more requests than the probes allowed
\* at once and one for each answer it gave, whatever earlier requests are still
\* under way and answered in that period.
ProbesBounded ==
    breaker.state = "HALF_OPEN" => admitted =< HalfOpenMaxProbes + breaker.successes

\* "A dead upstream is probed less and less aggressively": while Nomba stays
\* down the cooldown never shrinks, and every failed probe makes it longer
\* until it is at its cap.
BacksOff ==
    [][ ~up /\ ~up' =>
          /\ breaker'.cooldown >= breaker.cooldown
          /\ breaker.state = "HALF_OPEN" /\ breaker'.state = "OPEN" =>
                \/ breaker'.cooldown > breaker.cooldown
                \/ breaker'.cooldown = MaxCooldown ]_vars

\* "A recovered one resumes traffic automatically."
RecoveryResumes == <>[]up => <>[](breaker.state = "CLOSED")

\* An upstream that stays down is not called at will for ever: the circuit
\* leaves CLOSED and does not come back to it.
OutageTrips == <>[]~up => <>[](breaker.state # "CLOSED")

=============================================================================
