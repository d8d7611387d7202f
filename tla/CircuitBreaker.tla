--------------------------- MODULE CircuitBreaker ---------------------------
(***************************************************************************)
(* CircuitBreakerService: one breaker of one backend process, in front of  *)
(* one service.  Many calls are between isAvailable and recordSuccess or   *)
(* recordFailure at the same time, so a result can arrive in a state of    *)
(* the breaker other than the one its call was admitted in.                *)
(*                                                                         *)
(* Nothing is assumed of why an operation fails: the code takes a refusal  *)
(* of the request for a failure of the service, with the database up.      *)
(*                                                                         *)
(* Time is counted in ticks of cooldownMs: cooling is what is left of      *)
(* cooldownUntil.  failureCount is capped at FailureThreshold, beyond      *)
(* which the code tells no two values apart.                               *)
(***************************************************************************)
EXTENDS Integers

CONSTANTS
    Call,               \* slots: calls of executeWithBreaker in flight at once
    FailureThreshold,   \* failureThreshold, 5 in the code
    HalfOpenMax         \* halfOpenMaxAttempts, 3 in the code

ASSUME BreakerAssumption ==
    /\ FailureThreshold \in Nat \ {0}
    /\ HalfOpenMax \in Nat \ {0}

VARIABLES
    circuit,            \* isOpen: "open" or "closed"
    failureCount, cooling,
    attempts,   \* halfOpenAttempts, 0 while there is no entry
    stage,      \* where the call of a slot stands
    streak,     \* history: failures since the last success, up to the threshold
    probes      \* history: calls admitted by the open circuit since it last
                \* began to cool down

breaker == <<circuit, failureCount, cooling, attempts>>
counted == <<streak, probes>>
breakerVars == <<breaker, stage, counted>>

Stage == {"idle", "operation", "fallback"}

isOpen == circuit = "open"

OneMore(n) == IF n < FailureThreshold THEN n + 1 ELSE n

-----------------------------------------------------------------------------
BreakerInit ==
    /\ circuit = "closed"
    /\ failureCount = 0
    /\ cooling = 0
    /\ attempts = 0
    /\ stage = [c \in Call |-> "idle"]
    /\ streak = 0
    /\ probes = 0

Enter(c, s) ==
    /\ stage[c] = "idle"
    /\ stage' = [stage EXCEPT ![c] = s]
    /\ UNCHANGED streak

\* isAvailable, closed.
AskClosed(c) ==
    /\ ~isOpen
    /\ Enter(c, "operation")
    /\ UNCHANGED <<breaker, probes>>

\* Open and cooling down.
AskCooling(c) ==
    /\ isOpen /\ cooling > 0
    /\ Enter(c, "fallback")
    /\ UNCHANGED <<breaker, probes>>

\* Defect variant: the attempt is not counted.
AskHalfOpenUncounted(c) ==
    /\ isOpen /\ cooling = 0
    /\ attempts < HalfOpenMax
    /\ Enter(c, "operation")
    /\ probes' = probes + 1
    /\ UNCHANGED breaker

\* Defect variant: one attempt too many.
AskHalfOpenOffByOne(c) ==
    /\ isOpen /\ cooling = 0
    /\ attempts <= HalfOpenMax
    /\ attempts' = attempts + 1
    /\ Enter(c, "operation")
    /\ probes' = probes + 1
    /\ UNCHANGED <<circuit, failureCount, cooling>>

\* Half-open: the call is let through as a probe.
AskHalfOpen(c) ==
    /\ isOpen /\ cooling = 0
    /\ attempts < HalfOpenMax
    /\ attempts' = attempts + 1
    /\ Enter(c, "operation")
    /\ probes' = probes + 1
    /\ UNCHANGED <<circuit, failureCount, cooling>>

\* Defect variant: the attempts of the next half-open phase are used up.
AskExhaustedKeepsAttempts(c) ==
    /\ isOpen /\ cooling = 0
    /\ attempts >= HalfOpenMax
    /\ cooling' = 2
    /\ Enter(c, "fallback")
    /\ probes' = 0
    /\ UNCHANGED <<circuit, failureCount, attempts>>

\* Half-open and out of attempts: cools down again, twice as long.
AskExhausted(c) ==
    /\ isOpen /\ cooling = 0
    /\ attempts >= HalfOpenMax
    /\ cooling' = 2
    /\ attempts' = 0
    /\ Enter(c, "fallback")
    /\ probes' = 0
    /\ UNCHANGED <<circuit, failureCount>>

Ask(c) == AskClosed(c) \/ AskCooling(c) \/ AskHalfOpen(c) \/ AskExhausted(c)

-----------------------------------------------------------------------------
\* Defect variant: a success in the closed state does not end the streak.
RecordSuccessOpenOnly ==
    /\ circuit' = "closed"
    /\ failureCount' = IF isOpen THEN 0 ELSE failureCount
    /\ attempts' = IF isOpen THEN 0 ELSE attempts
    /\ streak' = 0
    /\ UNCHANGED <<cooling, probes>>

\* Closes the circuit, whichever state the call was admitted in.
RecordSuccess ==
    /\ circuit' = "closed"
    /\ failureCount' = 0
    /\ attempts' = IF isOpen THEN 0 ELSE attempts
    /\ streak' = 0
    /\ UNCHANGED <<cooling, probes>>

\* Opens the closed circuit at the threshold; a failed probe leaves the open
\* circuit half-open.
RecordFailure ==
    LET opens == ~isOpen /\ OneMore(failureCount) >= FailureThreshold IN
    /\ failureCount' = OneMore(failureCount)
    /\ circuit' = IF opens THEN "open" ELSE circuit
    /\ cooling' = IF opens THEN 1 ELSE cooling
    /\ probes' = IF opens THEN 0 ELSE probes
    /\ streak' = OneMore(streak)
    /\ UNCHANGED attempts

OperationSucceeds(c) ==
    /\ stage[c] = "operation"
    /\ RecordSuccess
    /\ stage' = [stage EXCEPT ![c] = "idle"]

\* Any exception counts, a refusal of the request itself included.
OperationFails(c) ==
    /\ stage[c] = "operation"
    /\ RecordFailure
    /\ stage' = [stage EXCEPT ![c] = "fallback"]

\* The fallback's answer is the call's answer.
FallbackReturns(c) ==
    /\ stage[c] = "fallback"
    /\ stage' = [stage EXCEPT ![c] = "idle"]
    /\ UNCHANGED <<breaker, counted>>

\* POST /escrow/circuit-breaker/reset forgets the breaker.
Reset ==
    /\ circuit' = "closed"
    /\ failureCount' = 0
    /\ cooling' = 0
    /\ attempts' = 0
    /\ streak' = 0
    /\ UNCHANGED <<stage, probes>>

Tick ==
    /\ cooling > 0
    /\ cooling' = cooling - 1
    /\ UNCHANGED <<circuit, failureCount, attempts, stage, counted>>

-----------------------------------------------------------------------------
Returns(c) == OperationSucceeds(c) \/ OperationFails(c) \/ FallbackReturns(c)

BreakerNext ==
    \/ \E c \in Call : Ask(c) \/ Returns(c)
    \/ Reset \/ Tick

\* Calls return and time passes.
BreakerSpec ==
    /\ BreakerInit /\ [][BreakerNext]_breakerVars
    /\ \A c \in Call : WF_breakerVars(Returns(c))
    /\ WF_breakerVars(Tick)

-----------------------------------------------------------------------------
BreakerTypeOK ==
    /\ circuit \in {"open", "closed"}
    /\ failureCount \in 0..FailureThreshold
    /\ cooling \in 0..2
    /\ attempts \in 0..HalfOpenMax
    /\ stage \in [Call -> Stage]
    /\ streak \in 0..FailureThreshold
    /\ probes \in Nat

\* The circuit opens, and stays open, on an unbroken run of failures only,
\* however the results of concurrent calls are ordered.
OpenMeansStreak == isOpen => streak = FailureThreshold

\* A struggling service gets at most HalfOpenMax calls between two cooldowns,
\* and none while the circuit cools down.
ProbesBounded ==
    /\ probes <= HalfOpenMax
    /\ isOpen /\ cooling > 0 => probes = 0

CallsKeepComing == []<><<\E c \in Call : Ask(c)>>_breakerVars

KeepsTrying == []<><<\E c \in Call : AskClosed(c) \/ AskHalfOpen(c)>>_breakerVars

NothingFailsAnyMore == <>[][\A c \in Call : ~OperationFails(c)]_breakerVars

\* As long as calls keep coming, some are let through again and again, whatever
\* fails or is refused and for however long: the half-open circuit never runs
\* dry of attempts.  And once operations have ceased to fail, those of calls
\* admitted long ago and refused requests included, it closes for good.
Recovers ==
    CallsKeepComing =>
        /\ KeepsTrying
        /\ NothingFailsAnyMore => <>[]~isOpen

=============================================================================
