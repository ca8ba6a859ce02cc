------------------------ MODULE CircuitBreakerProofs ------------------------
(***************************************************************************)
(* Safety of the circuit breaker for any number of concurrent requests and *)
(* any thresholds, cooldowns and timeout.                                  *)
(***************************************************************************)
EXTENDS CircuitBreaker, TLAPS

\* What the counters mean in each state.  BackoffOf is why a new outage starts
\* from the base cooldown; Counted is why the count of probes can be trusted
\* although answers of older requests are taken off it, too.
BackoffOf ==
    /\ breaker.state = "CLOSED" =>
          breaker.cooldown = BaseCooldown /\ breaker.failures < FailureThreshold
    /\ breaker.state # "OPEN" => breaker.wait = 0

Counted ==
    breaker.state = "HALF_OPEN" =>
        /\ breaker.successes < SuccessThreshold
        /\ admitted =< breaker.inFlight + breaker.successes

BreakerInv == TypeOK /\ BackoffOf /\ Counted

LEMMA Parameters ==
    /\ FailureThreshold \in Nat /\ FailureThreshold >= 1
    /\ SuccessThreshold \in Nat /\ SuccessThreshold >= 1
    /\ HalfOpenMaxProbes \in Nat /\ HalfOpenMaxProbes >= 1
    /\ BaseCooldown \in Nat /\ BaseCooldown >= 1
    /\ MaxCooldown \in Nat /\ MaxCooldown >= BaseCooldown
    /\ Timeout \in Nat /\ Timeout >= 1
BY BreakerAssumption

USE Parameters

\* Recording an answer keeps the counters in their ranges, for any breaker
\* whose counters were.
Sound(b) ==
    /\ b \in Breaker
    /\ b.failures =< FailureThreshold
    /\ b.cooldown \in BaseCooldown .. MaxCooldown
    /\ b.wait =< b.cooldown
    /\ b.successes =< SuccessThreshold
    /\ b.inFlight =< HalfOpenMaxProbes
    /\ b.state = "CLOSED" => b.cooldown = BaseCooldown /\ b.failures < FailureThreshold
    /\ b.state = "HALF_OPEN" => b.successes < SuccessThreshold
    /\ b.state # "OPEN" => b.wait = 0

\* A breaker is the record of its fields.
LEMMA Fields ==
    ASSUME NEW b \in Breaker
    PROVE  /\ b.state \in {"CLOSED", "OPEN", "HALF_OPEN"}
           /\ b.failures \in Nat /\ b.cooldown \in Nat /\ b.wait \in Nat
           /\ b.successes \in Nat /\ b.inFlight \in Nat
BY DEF Breaker

\* Any breaker that assertRequestAllowed admits a caller to stays sound.
LEMMA AdmitSound ==
    ASSUME NEW b, Sound(b), Allowed(b)
    PROVE  Sound(Admit(b))
<1>1. b \in Breaker BY DEF Sound
<1>2. CASE b.state = "CLOSED"
    BY <1>2 DEF Admit
<1>3. CASE HalfOpens(b)
    <2> DEFINE probing == [b EXCEPT !.state = "HALF_OPEN", !.successes = 0, !.inFlight = 1]
    <2>1. Admit(b) = probing
        BY <1>3 DEF Admit, HalfOpens
    <2>2. /\ probing \in Breaker
          /\ probing.state = "HALF_OPEN"
          /\ probing.failures = b.failures /\ probing.cooldown = b.cooldown
          /\ probing.wait = b.wait /\ probing.successes = 0 /\ probing.inFlight = 1
        BY <1>1 DEF Breaker
    <2> HIDE DEF probing
    <2> QED BY <1>3, <2>1, <2>2 DEF Sound, HalfOpens
<1>4. CASE b.state = "HALF_OPEN"
    <2>1. Admit(b) = [b EXCEPT !.inFlight = b.inFlight + 1]
        BY <1>4 DEF Admit, HalfOpens
    <2>2. /\ Admit(b) \in Breaker
          /\ Admit(b).state = "HALF_OPEN"
          /\ Admit(b).failures = b.failures /\ Admit(b).cooldown = b.cooldown
          /\ Admit(b).wait = b.wait /\ Admit(b).successes = b.successes
          /\ Admit(b).inFlight = b.inFlight + 1
        BY <1>1, <1>4, <2>1 DEF Breaker
    <2>3. b.inFlight \in Nat /\ b.inFlight < HalfOpenMaxProbes
        BY <1>1, <1>4, Fields DEF Allowed, HalfOpens
    <2> QED BY <1>4, <2>2, <2>3 DEF Sound
<1> QED BY <1>2, <1>3, <1>4 DEF Allowed

\* A recorded success keeps the breaker sound.
LEMMA SuccessSound ==
    ASSUME NEW b, Sound(b)
    PROVE  Sound(RecordSuccess(b))
<1>0. b \in Breaker BY DEF Sound
<1>1. CASE b.state = "HALF_OPEN"
    <2> DEFINE probed == [b EXCEPT !.inFlight = OneFewer(b), !.successes = b.successes + 1]
               closed == [probed EXCEPT !.state = "CLOSED", !.failures = 0,
                                        !.cooldown = BaseCooldown]
    <2>1. OneFewer(b) \in Nat /\ OneFewer(b) =< b.inFlight /\ b.successes + 1 \in Nat
        BY <1>0, Fields DEF OneFewer
    <2>2. probed \in Breaker
        BY <1>0, <1>1, <2>1 DEF Breaker
    <2>3. /\ probed.state = "HALF_OPEN"
          /\ probed.failures = b.failures /\ probed.cooldown = b.cooldown
          /\ probed.wait = b.wait /\ probed.successes = b.successes + 1
          /\ probed.inFlight = OneFewer(b)
        BY <1>0, <1>1 DEF Breaker
    <2>4. /\ closed \in Breaker
          /\ closed.state = "CLOSED"
          /\ closed.failures = 0 /\ closed.cooldown = BaseCooldown
          /\ closed.wait = probed.wait /\ closed.successes = probed.successes
          /\ closed.inFlight = probed.inFlight
        BY <2>2 DEF Breaker
    <2>5. RecordSuccess(b) = IF probed.successes >= SuccessThreshold THEN closed ELSE probed
        BY <1>1 DEF RecordSuccess
    <2>6. /\ b.inFlight \in Nat /\ b.successes \in Nat /\ b.successes < SuccessThreshold
          /\ b.inFlight =< HalfOpenMaxProbes /\ b.failures \in Nat
          /\ b.failures =< FailureThreshold /\ b.cooldown \in BaseCooldown .. MaxCooldown
          /\ b.wait = 0
        BY <1>0, <1>1, Fields DEF Sound
    <2> HIDE DEF probed, closed
    <2>7. CASE probed.successes >= SuccessThreshold
        BY <2>1, <2>2, <2>4, <2>5, <2>6, <2>7, <2>3 DEF Sound
    <2>8. CASE ~ (probed.successes >= SuccessThreshold)
        BY <2>1, <2>2, <2>5, <2>6, <2>8, <2>3 DEF Sound
    <2> QED BY <2>7, <2>8
<1>2. CASE b.state = "CLOSED"
    <2>1. RecordSuccess(b) = [b EXCEPT !.failures = 0]
        BY <1>2 DEF RecordSuccess
    <2>2. /\ RecordSuccess(b) \in Breaker
          /\ RecordSuccess(b).state = "CLOSED"
          /\ RecordSuccess(b).failures = 0 /\ RecordSuccess(b).cooldown = b.cooldown
          /\ RecordSuccess(b).wait = b.wait /\ RecordSuccess(b).successes = b.successes
          /\ RecordSuccess(b).inFlight = b.inFlight
        BY <1>0, <1>2, <2>1 DEF Breaker
    <2> QED BY <1>2, <2>2 DEF Sound
<1>3. CASE b.state = "OPEN"
    BY <1>3 DEF RecordSuccess
<1> QED BY <1>0, <1>1, <1>2, <1>3, Fields

\* A doubled cooldown is longer, or the longest.
LEMMA DoubledBound ==
    ASSUME NEW c \in BaseCooldown .. MaxCooldown
    PROVE  /\ Doubled(c) \in BaseCooldown .. MaxCooldown
           /\ Doubled(c) >= c
           /\ Doubled(c) > c \/ Doubled(c) = MaxCooldown
BY DEF Doubled

\* trip leaves a sound breaker, whatever cooldown in range it is given.
LEMMA TripSound ==
    ASSUME NEW b \in Breaker, NEW c \in BaseCooldown .. MaxCooldown,
           b.failures =< FailureThreshold, b.successes =< SuccessThreshold,
           b.inFlight =< HalfOpenMaxProbes
    PROVE  Sound(Trip(b, c)) /\ Trip(b, c).cooldown = c /\ Trip(b, c).state = "OPEN"
<1>1. /\ Trip(b, c) \in Breaker
      /\ Trip(b, c).state = "OPEN"
      /\ Trip(b, c).cooldown = c /\ Trip(b, c).wait = c
      /\ Trip(b, c).failures = b.failures /\ Trip(b, c).successes = b.successes
      /\ Trip(b, c).inFlight = b.inFlight
    <2>1. c \in Nat OBVIOUS
    <2> QED BY <2>1 DEF Trip, Breaker
<1> QED BY <1>1 DEF Sound

\* A recorded failure keeps the breaker sound.
LEMMA FailureSound ==
    ASSUME NEW b, Sound(b)
    PROVE  Sound(RecordFailure(b))
<1>0. b \in Breaker BY DEF Sound
<1>1. CASE b.state = "HALF_OPEN"
    <2> DEFINE fewer == [b EXCEPT !.inFlight = OneFewer(b)]
    <2>1. OneFewer(b) \in Nat /\ OneFewer(b) =< b.inFlight
        BY <1>0, Fields DEF OneFewer
    <2>2. /\ fewer \in Breaker
          /\ fewer.failures = b.failures /\ fewer.successes = b.successes
          /\ fewer.inFlight = OneFewer(b)
        BY <1>0, <2>1 DEF Breaker
    <2>3. Doubled(b.cooldown) \in BaseCooldown .. MaxCooldown
        BY DoubledBound DEF Sound
    <2>4. RecordFailure(b) = Trip(fewer, Doubled(b.cooldown))
        BY <1>1 DEF RecordFailure
    <2>5. /\ fewer.failures =< FailureThreshold /\ fewer.successes =< SuccessThreshold
          /\ fewer.inFlight =< HalfOpenMaxProbes
        <3> HIDE DEF fewer
        <3> QED BY <1>0, <2>1, <2>2, Fields DEF Sound
    <2> HIDE DEF fewer
    <2> QED BY <2>2, <2>3, <2>4, <2>5, TripSound
<1>2. CASE b.state = "CLOSED"
    <2> DEFINE failed == [b EXCEPT !.failures = b.failures + 1]
    <2>1. /\ failed \in Breaker
          /\ failed.state = "CLOSED" /\ failed.failures = b.failures + 1
          /\ failed.cooldown = b.cooldown /\ failed.wait = b.wait
          /\ failed.successes = b.successes /\ failed.inFlight = b.inFlight
        BY <1>0, <1>2 DEF Breaker
    <2>2. RecordFailure(b) =
            IF failed.failures >= FailureThreshold THEN Trip(failed, BaseCooldown) ELSE failed
        BY <1>2 DEF RecordFailure
    <2>3. b.failures \in Nat /\ b.failures < FailureThreshold
        BY <1>0, <1>2, Fields DEF Sound
    <2> HIDE DEF failed
    <2>4. Sound(Trip(failed, BaseCooldown))
        BY <2>1, <2>3, TripSound DEF Sound
    <2>5. CASE ~ (failed.failures >= FailureThreshold)
        BY <1>2, <2>1, <2>2, <2>3, <2>5 DEF Sound
    <2> QED BY <2>2, <2>4, <2>5
<1>3. CASE b.state = "OPEN"
    BY <1>3 DEF RecordFailure
<1> QED BY <1>0, <1>1, <1>2, <1>3, Fields

\* Sound is the breaker's share of the invariant.
LEMMA InvIsSound ==
    BreakerInv <=> /\ Sound(breaker)
                   /\ fresh \in BOOLEAN /\ up \in BOOLEAN
                   /\ pc \in [Requests -> {"idle", "token", "http"}]
                   /\ left \in [Requests -> 0 .. Timeout]
                   /\ admitted \in Nat
                   /\ Counted
BY DEF BreakerInv, TypeOK, BackoffOf, Counted, Sound

LEMMA InvInit == Init => BreakerInv
BY DEF Init, BreakerInv, TypeOK, BackoffOf, Counted, NewBreaker, Breaker

\* Finish of any request keeps the invariant.
LEMMA FinishKeeps ==
    ASSUME BreakerInv, NEW r \in Requests, Finish(r)
    PROVE  BreakerInv'
<1>0. Sound(breaker) BY InvIsSound
<1>1. Sound(breaker')
    <2>1. CASE up
        BY <2>1, <1>0, SuccessSound DEF Finish
    <2>2. CASE ~up
        BY <2>2, <1>0, FailureSound DEF Finish
    <2> QED BY <2>1, <2>2
<1>2. Counted'
    <2>1. CASE up
        BY <2>1, <1>0 DEF Finish, BreakerInv, TypeOK, Counted, RecordSuccess, OneFewer, Sound, Breaker
    <2>2. CASE ~up
        BY <2>2, <1>0 DEF Finish, BreakerInv, TypeOK, Counted, RecordFailure, Trip, Sound, Breaker
    <2> QED BY <2>1, <2>2
<1>3. /\ fresh' \in BOOLEAN /\ up' \in BOOLEAN /\ admitted' \in Nat
      /\ pc' \in [Requests -> {"idle", "token", "http"}]
      /\ left' \in [Requests -> 0 .. Timeout]
    BY DEF Finish, BreakerInv, TypeOK
<1> QED BY <1>1, <1>2, <1>3 DEF BreakerInv, TypeOK, BackoffOf, Counted, Sound

\* Every step keeps the invariant.
LEMMA InvNext == BreakerInv /\ [Next]_vars => BreakerInv'
<1> SUFFICES ASSUME BreakerInv, [Next]_vars PROVE BreakerInv'
    OBVIOUS
<1>0. Sound(breaker) BY InvIsSound
<1>1. ASSUME NEW r \in Requests, Start(r) PROVE BreakerInv'
    <2>1. Sound(breaker')
        BY <1>0, <1>1, AdmitSound DEF Start
    <2>2. Counted'
        BY <1>0, <1>1 DEF Start, Admit, Allowed, HalfOpens, BreakerInv, TypeOK, Counted, Sound, Breaker
    <2>3. /\ fresh' \in BOOLEAN /\ up' \in BOOLEAN
          /\ pc' \in [Requests -> {"idle", "token", "http"}]
          /\ left' \in [Requests -> 0 .. Timeout]
        BY <1>1 DEF Start, BreakerInv, TypeOK
    <2>4. admitted' \in Nat
        BY <1>1 DEF Start, BreakerInv, TypeOK
    <2> QED BY <2>1, <2>2, <2>3, <2>4 DEF BreakerInv, TypeOK, BackoffOf, Counted, Sound
<1>2. ASSUME NEW r \in Requests, TokenArrives(r) PROVE BreakerInv'
    BY <1>2 DEF TokenArrives, BreakerInv, TypeOK, BackoffOf, Counted
<1>3. ASSUME NEW r \in Requests, TokenFails(r) PROVE BreakerInv'
    BY <1>3, FinishKeeps DEF TokenFails
<1>4. ASSUME NEW r \in Requests, Answer(r) PROVE BreakerInv'
    BY <1>4, FinishKeeps DEF Answer
<1>5. ASSUME ExpireToken \/ GoDown \/ ComeUp PROVE BreakerInv'
    BY <1>5 DEF ExpireToken, GoDown, ComeUp, BreakerInv, TypeOK, BackoffOf, Counted
<1>6. ASSUME Tick PROVE BreakerInv'
    <2>1. left' \in [Requests -> 0 .. Timeout]
        BY <1>6 DEF Tick, BreakerInv, TypeOK
    <2>2. Sound(breaker') /\ Counted'
        BY <1>0, <1>6 DEF Tick, Sound, Counted, BreakerInv, TypeOK, Breaker
    <2> QED BY <1>6, <2>1, <2>2 DEF Tick, BreakerInv, TypeOK, BackoffOf, Counted, Sound
<1>7. CASE UNCHANGED vars
    BY <1>7 DEF vars, BreakerInv, TypeOK, BackoffOf, Counted
<1> QED BY <1>1, <1>2, <1>3, <1>4, <1>5, <1>6, <1>7 DEF Next

\* The breaker's counters stay in their ranges: CircuitBreaker's type invariant.
THEOREM BreakerTypeCorrect == Spec => []TypeOK
<1>1. BreakerInv => TypeOK BY DEF BreakerInv
<1> QED BY <1>1, InvInit, InvNext, PTL DEF Spec

\* assertRequestAllowed keeps a barely recovering Nomba from being hammered:
\* ProbesBounded, for any number of requests and any thresholds.
THEOREM HalfOpenIsGentle == Spec => []ProbesBounded
<1>1. BreakerInv => ProbesBounded
    BY DEF BreakerInv, TypeOK, Counted, ProbesBounded, Breaker
<1> QED BY <1>1, InvInit, InvNext, PTL DEF Spec

\* A step while Nomba is down never shortens the cooldown.
LEMMA BacksOffStep ==
    ASSUME BreakerInv, [Next]_vars, ~up, ~up'
    PROVE  /\ breaker'.cooldown >= breaker.cooldown
           /\ breaker.state = "HALF_OPEN" /\ breaker'.state = "OPEN" =>
                 breaker'.cooldown > breaker.cooldown \/ breaker'.cooldown = MaxCooldown
<1>0. Sound(breaker) BY InvIsSound
<1>1. ASSUME breaker'.cooldown = breaker.cooldown,
             ~ (breaker.state = "HALF_OPEN" /\ breaker'.state = "OPEN")
      PROVE  /\ breaker'.cooldown >= breaker.cooldown
             /\ ~ (breaker.state = "HALF_OPEN" /\ breaker'.state = "OPEN")
    BY <1>0, <1>1 DEF Sound
<1>2. ASSUME NEW r \in Requests, Start(r)
      PROVE  /\ breaker'.cooldown = breaker.cooldown
             /\ ~ (breaker.state = "HALF_OPEN" /\ breaker'.state = "OPEN")
    BY <1>0, <1>2 DEF Start, Admit, HalfOpens, Sound, Breaker
<1>3. ASSUME NEW r \in Requests, Finish(r)
      PROVE  /\ breaker'.cooldown >= breaker.cooldown
             /\ breaker.state = "HALF_OPEN" /\ breaker'.state = "OPEN" =>
                   breaker'.cooldown > breaker.cooldown \/ breaker'.cooldown = MaxCooldown
    <2>1. breaker' = RecordFailure(breaker)
        BY <1>3 DEF Finish
    <2>2. CASE breaker.state = "HALF_OPEN"
        <3>1. breaker'.cooldown = Doubled(breaker.cooldown)
            BY <1>0, <2>1, <2>2 DEF RecordFailure, Trip, Sound, Breaker
        <3>2. breaker.cooldown \in BaseCooldown .. MaxCooldown
            BY <1>0 DEF Sound
        <3> QED BY <3>1, <3>2, DoubledBound
    <2>3. CASE breaker.state # "HALF_OPEN"
        BY <1>0, <2>1, <2>3 DEF RecordFailure, Trip, Sound, Breaker
    <2> QED BY <2>2, <2>3
<1>4. ASSUME NEW r \in Requests, TokenArrives(r)
      PROVE  breaker' = breaker
    BY <1>4 DEF TokenArrives
<1>5. ASSUME ExpireToken \/ GoDown \/ ComeUp \/ UNCHANGED vars
      PROVE  breaker' = breaker
    BY <1>5 DEF ExpireToken, GoDown, ComeUp, vars
<1>6. ASSUME Tick
      PROVE  /\ breaker'.cooldown = breaker.cooldown
             /\ breaker'.state = breaker.state
    BY <1>0, <1>6 DEF Tick, Sound, Breaker
<1> QED
    BY <1>0, <1>1, <1>2, <1>3, <1>4, <1>5, <1>6 DEF Next, TokenFails, Answer, Sound

\* trip is only ever called with a cooldown at least as long as the one before
\* while Nomba stays down: BacksOff.
THEOREM OutagesBackOff == Spec => BacksOff
<1>1. BreakerInv /\ [Next]_vars =>
        [ ~up /\ ~up' =>
            /\ breaker'.cooldown >= breaker.cooldown
            /\ breaker.state = "HALF_OPEN" /\ breaker'.state = "OPEN" =>
                  \/ breaker'.cooldown > breaker.cooldown
                  \/ breaker'.cooldown = MaxCooldown ]_vars
    BY BacksOffStep
<1> QED BY <1>1, InvInit, InvNext, PTL DEF Spec, BacksOff

=============================================================================
