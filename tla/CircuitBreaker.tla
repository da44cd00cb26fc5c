--------------------------- MODULE CircuitBreaker ---------------------------
(***************************************************************************)
(* One circuit breaker and its callers, error-handler/CircuitBreaker,      *)
(* RetryHandler (withRetry) and RetryExecutor (executeWithResult).         *)
(*                                                                         *)
(* Callers share the breaker in three modes: execute goes through its gate *)
(* and counts half-open trials; withRetry and RetryExecutor only ask       *)
(* whether it accepts requests and record the results themselves.  An      *)
(* operation may settle in any later state of the circuit.  A timeout is a *)
(* failed attempt, and what the operation answers later is ignored.        *)
(*                                                                         *)
(* Time is the time since the last failure, capped at resetTimeoutMs; a    *)
(* delay between attempts takes any time.                                  *)
(***************************************************************************)
EXTENDS Naturals, FiniteSets

CONSTANTS Callers,
          FailureThreshold,      \* failureThreshold
          ResetTimeout,          \* resetTimeoutMs, in ticks
          HalfOpenMaxAttempts,   \* halfOpenMaxAttempts
          MaxAttempts,           \* policy.maxAttempts
          Configs                \* the configurations considered, see config

Modes == {"execute", "withRetry", "executor"}

ASSUME BreakerAssumption ==
  /\ IsFiniteSet(Callers)
  /\ FailureThreshold \in Nat \ {0} /\ HalfOpenMaxAttempts \in Nat \ {0}
  /\ ResetTimeout \in Nat
  /\ MaxAttempts \in Nat \ {0}
  /\ Configs \subseteq [mode : [Callers -> Modes], countRetryable : BOOLEAN, ops : SUBSET {"abort", "reset"}]

VARIABLES config,    \* mode of each caller, countRetryableFailures, and the operations used
          breaker,   \* the CircuitBreaker
          caller     \* the call each caller is in

vars == <<config, breaker, caller>>

-----------------------------------------------------------------------------
(* The breaker *)

States == {"CLOSED", "OPEN", "HALF_OPEN"}

\* "failures" counts up to the threshold; "rested" is the time since lastFailureTime
Breaker == [state : States, failures : 0..FailureThreshold, successes : 0..HalfOpenMaxAttempts,
            attempts : 0..HalfOpenMaxAttempts, rested : 0..ResetTimeout]

NewBreaker == [state |-> "CLOSED", failures |-> 0, successes |-> 0, attempts |-> 0,
               rested |-> ResetTimeout]

AtMost(n, cap) == IF n <= cap THEN n ELSE cap

ShouldAttemptReset(b) == b.state = "OPEN" /\ b.rested >= ResetTimeout

IsAcceptingRequests(b) ==
  \/ b.state = "CLOSED"
  \/ ShouldAttemptReset(b)
  \/ b.state = "HALF_OPEN" /\ b.attempts < HalfOpenMaxAttempts

Opened(b) == [b EXCEPT !.state = "OPEN"]

Closed(b) == [b EXCEPT !.state = "CLOSED", !.failures = 0, !.successes = 0, !.attempts = 0]

HalfOpenedOnly(b) == [b EXCEPT !.state = "HALF_OPEN", !.successes = 0]   \* *mutant*: attempts kept

HalfOpened(b) == [b EXCEPT !.state = "HALF_OPEN", !.successes = 0, !.attempts = 0]

EnoughAndOneMore(n) == n > HalfOpenMaxAttempts   \* *mutant*

Enough(n) == n >= HalfOpenMaxAttempts

OnSuccess(b) ==
  CASE b.state = "HALF_OPEN" -> IF Enough(b.successes + 1) THEN Closed(b)
                                ELSE [b EXCEPT !.successes = AtMost(@ + 1, HalfOpenMaxAttempts)]
    [] b.state = "CLOSED" -> [b EXCEPT !.failures = 0]
    [] b.state = "OPEN" -> b

OnFailure(b) ==
  LET f == [b EXCEPT !.failures = AtMost(@ + 1, FailureThreshold), !.rested = 0]
  IN  IF b.state = "HALF_OPEN" \/ (b.state = "CLOSED" /\ b.failures + 1 >= FailureThreshold)
      THEN Opened(f) ELSE f

-----------------------------------------------------------------------------
(* Calls *)

PCs == {"idle", "running", "sleeping", "done"}

Results == {"none", "resolved", "failed", "blocked", "aborted"}

\* "trial": the operation was counted as an attempt since the circuit last went HALF_OPEN
Idle == [pc |-> "idle", attempt |-> 1, trial |-> FALSE, aborted |-> FALSE, result |-> "none"]

Run(r, trial) == [r EXCEPT !.pc = "running", !.trial = trial]

Sleep(r) == [r EXCEPT !.pc = "sleeping", !.attempt = @ + 1, !.trial = FALSE]

End(r, result) == [r EXCEPT !.pc = "done", !.trial = FALSE, !.result = result]

Untried(d) == [caller[d] EXCEPT !.trial = FALSE]

BlockedRests(b) == [b EXCEPT !.rested = 0]   \* *mutant*: a blocked request restarts the timeout

Blocked(b) == b

\* execute: an OPEN circuit that has rested goes HALF_OPEN, and a trial is counted
Execute(c) ==
  /\ config.mode[c] = "execute"
  /\ caller[c].pc = "idle"
  /\ \/ /\ breaker.state = "CLOSED"
        /\ caller' = [caller EXCEPT ![c] = Run(@, FALSE)]
        /\ UNCHANGED breaker
     \/ /\ ShouldAttemptReset(breaker)
        /\ breaker' = [HalfOpened(breaker) EXCEPT !.attempts = @ + 1]
        /\ caller' = [d \in Callers |-> IF d = c THEN Run(caller[c], TRUE) ELSE Untried(d)]
     \/ /\ breaker.state = "HALF_OPEN" /\ IsAcceptingRequests(breaker)
        /\ breaker' = [breaker EXCEPT !.attempts = @ + 1]
        /\ caller' = [caller EXCEPT ![c] = Run(@, TRUE)]
     \/ /\ ~IsAcceptingRequests(breaker)
        /\ breaker' = Blocked(breaker)
        /\ caller' = [caller EXCEPT ![c] = End(@, "blocked")]
  /\ UNCHANGED config

\* The checks before an attempt: r is the call's record, and becomes go if they pass
BeforeAttempt(b, r, go) ==
  IF r.aborted THEN End(r, "aborted")
  ELSE IF ~IsAcceptingRequests(b) THEN End(r, "blocked")
  ELSE go

\* withRetry and executeWithResult, up to the first attempt
Retry(c) ==
  /\ config.mode[c] # "execute"
  /\ caller[c].pc = "idle"
  /\ caller' = [caller EXCEPT ![c] = BeforeAttempt(breaker, @, Run(@, FALSE))]
  /\ breaker' = IF IsAcceptingRequests(breaker) THEN breaker ELSE Blocked(breaker)
  /\ UNCHANGED config

Call(c) == Execute(c) \/ Retry(c)

Succeeds(c) ==
  /\ caller[c].pc = "running"
  /\ breaker' = OnSuccess(breaker)
  /\ caller' = [caller EXCEPT ![c] = End(@, "resolved")]
  /\ UNCHANGED config

\* The attempt of c fails or times out.  withRetry sleeps and checks the breaker after that;
\* the executor checks it first and sleeps then.
Fails(c, retryable) ==
  LET b == IF config.mode[c] = "execute" \/ ~retryable \/ config.countRetryable
           THEN OnFailure(breaker) ELSE breaker
      r == caller[c]
      again == config.mode[c] # "execute" /\ retryable /\ r.attempt < MaxAttempts
  IN  /\ r.pc = "running"
      /\ breaker' = b
      /\ caller' = [caller EXCEPT ![c] =
           IF ~again THEN End(r, "failed")
           ELSE IF config.mode[c] = "withRetry" THEN Sleep(r)
           ELSE BeforeAttempt(b, r, Sleep(r))]
      /\ UNCHANGED config

\* The delay is over, or was aborted
Wake(c) ==
  /\ caller[c].pc = "sleeping"
  /\ caller' = [caller EXCEPT ![c] =
       IF @.aborted THEN End(@, "aborted")
       ELSE IF config.mode[c] = "withRetry" THEN BeforeAttempt(breaker, @, Run(@, FALSE))
       ELSE Run(@, FALSE)]
  /\ UNCHANGED <<config, breaker>>

Abort(c) ==
  /\ "abort" \in config.ops
  /\ config.mode[c] # "execute"
  /\ caller[c].pc \in {"running", "sleeping"} /\ ~caller[c].aborted
  /\ caller' = [caller EXCEPT ![c].aborted = TRUE]
  /\ UNCHANGED <<config, breaker>>

Return(c) ==
  /\ caller[c].pc = "done"
  /\ caller' = [caller EXCEPT ![c] = Idle]
  /\ UNCHANGED <<config, breaker>>

\* reset, by hand
Reset ==
  /\ "reset" \in config.ops
  /\ breaker' = NewBreaker
  /\ UNCHANGED <<config, caller>>

Tick ==
  /\ breaker.rested < ResetTimeout
  /\ breaker' = [breaker EXCEPT !.rested = @ + 1]
  /\ UNCHANGED <<config, caller>>

-----------------------------------------------------------------------------
Init ==
  /\ config \in Configs
  /\ breaker = NewBreaker
  /\ caller = [c \in Callers |-> Idle]

Fail(c) == \E retryable \in BOOLEAN : Fails(c, retryable)

\* What a call does by itself once it was made
CallStep(c) == Succeeds(c) \/ Fail(c) \/ Wake(c) \/ Return(c)

Next ==
  \/ \E c \in Callers : Call(c) \/ CallStep(c) \/ Abort(c)
  \/ Reset
  \/ Tick

\* Operations settle, timers fire and time passes; nothing makes a caller call
Fairness == WF_vars(Tick) /\ \A c \in Callers : WF_vars(CallStep(c))

SafeSpec == Init /\ [][Next]_vars
Spec == SafeSpec /\ Fairness

-----------------------------------------------------------------------------
(* Properties *)

\* Every variable has its type.
TypeOK ==
  /\ config \in Configs
  /\ breaker \in Breaker
  /\ caller \in [Callers -> [pc : PCs, attempt : 1..MaxAttempts, trial : BOOLEAN, aborted : BOOLEAN,
                             result : Results]]

Trials == {c \in Callers : caller[c].pc = "running" /\ caller[c].trial}

\* No timeout leaves HALF_OPEN, so the circuit must never have used up its attempts without
\* one of them still to come back: whatever results of operations admitted earlier, failures,
\* resets by hand and callers that count no attempts come in between.
HalfOpenNeverWedged ==
  breaker.state = "HALF_OPEN" /\ ~IsAcceptingRequests(breaker) => Trials # {}

\* The operations succeed from some time on
Healthy == <>[][~\E c \in Callers : Fail(c)]_vars

CallsForEver(c) == []<><<Call(c)>>_vars

\* When the service has recovered, a circuit that some caller keeps using through execute
\* closes for good.
Recovers ==
  \A c \in Callers :
    Healthy /\ CallsForEver(c) /\ config.mode[c] = "execute" => <>[](breaker.state = "CLOSED")

\* Nor does it lock the callers out when they all retry by themselves: it accepts requests
\* again and again, although it stays OPEN.
AcceptsAgain ==
  Healthy => []<>IsAcceptingRequests(breaker)
=============================================================================
