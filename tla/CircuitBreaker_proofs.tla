------------------------ MODULE CircuitBreaker_proofs ------------------------
(* Proofs about CircuitBreaker: the type invariant, and that a half-open circuit *)
(* always has a trial to come back, for any number of callers in any modes.      *)
EXTENDS CircuitBreaker, FiniteSetTheorems, TLAPS

CallerRecord == [pc : PCs, attempt : 1..MaxAttempts, trial : BOOLEAN, aborted : BOOLEAN,
                 result : Results]

-----------------------------------------------------------------------------
(* The breaker's functions *)

LEMMA Bounds ==
  /\ 0 \in 0..FailureThreshold
  /\ 0 \in 0..HalfOpenMaxAttempts /\ 1 \in 0..HalfOpenMaxAttempts
  /\ 0 \in 0..ResetTimeout
  /\ \A n \in 0..FailureThreshold : AtMost(n + 1, FailureThreshold) \in 0..FailureThreshold
  /\ \A n \in 0..HalfOpenMaxAttempts : AtMost(n + 1, HalfOpenMaxAttempts) \in 0..HalfOpenMaxAttempts
BY BreakerAssumption DEF AtMost

LEMMA NewBreakerType == NewBreaker \in Breaker
BY BreakerAssumption DEF NewBreaker, Breaker, States

LEMMA IdleType == Idle \in CallerRecord
BY BreakerAssumption DEF Idle, CallerRecord, PCs, Results

LEMMA HalfOpenedType ==
  ASSUME NEW b \in Breaker
  PROVE  /\ [HalfOpened(b) EXCEPT !.attempts = @ + 1] \in Breaker
         /\ [HalfOpened(b) EXCEPT !.attempts = @ + 1].state = "HALF_OPEN"
         /\ [HalfOpened(b) EXCEPT !.attempts = @ + 1].attempts = 1
         /\ [HalfOpened(b) EXCEPT !.attempts = @ + 1].successes = 0
<1> DEFINE h == HalfOpened(b)
<1>1. h \in Breaker /\ h.state = "HALF_OPEN" /\ h.attempts = 0 /\ h.successes = 0
  BY Bounds DEF HalfOpened, Breaker, States
<1> HIDE DEF h
<1>2. /\ [h EXCEPT !.attempts = @ + 1] \in Breaker
      /\ [h EXCEPT !.attempts = @ + 1].state = "HALF_OPEN"
      /\ [h EXCEPT !.attempts = @ + 1].attempts = 1
      /\ [h EXCEPT !.attempts = @ + 1].successes = 0
  BY <1>1, Bounds DEF Breaker
<1> QED BY <1>2 DEF h

LEMMA OnSuccessType ==
  ASSUME NEW b \in Breaker PROVE OnSuccess(b) \in Breaker
<1>1. CASE b.state = "HALF_OPEN"
  <2>1. Closed(b) \in Breaker
    BY Bounds DEF Closed, Breaker, States
  <2>2. [b EXCEPT !.successes = AtMost(@ + 1, HalfOpenMaxAttempts)] \in Breaker
    BY Bounds DEF Breaker
  <2> QED BY <1>1, <2>1, <2>2 DEF OnSuccess
<1>2. CASE b.state = "CLOSED"
  <2>1. [b EXCEPT !.failures = 0] \in Breaker
    BY BreakerAssumption DEF Breaker
  <2> QED BY <1>2, <2>1 DEF OnSuccess
<1>3. CASE b.state = "OPEN"
  BY <1>3 DEF OnSuccess
<1> QED BY <1>1, <1>2, <1>3 DEF Breaker, States

LEMMA OnFailureType ==
  ASSUME NEW b \in Breaker PROVE OnFailure(b) \in Breaker /\ (OnFailure(b).state = "HALF_OPEN" => FALSE)
<1> DEFINE f == [b EXCEPT !.failures = AtMost(@ + 1, FailureThreshold), !.rested = 0]
<1>1. f \in Breaker /\ f.state = b.state
  BY Bounds DEF Breaker
<1>2. Opened(f) \in Breaker /\ Opened(f).state = "OPEN"
  BY <1>1 DEF Opened, Breaker, States
<1> HIDE DEF f
<1>3. OnFailure(b) = IF b.state = "HALF_OPEN" \/ (b.state = "CLOSED" /\ b.failures + 1 >= FailureThreshold)
                     THEN Opened(f) ELSE f
  BY DEF OnFailure, f
<1> QED BY <1>1, <1>2, <1>3

\* What a success leaves of a half-open circuit
LEMMA OnSuccessHalfOpen ==
  ASSUME NEW b \in Breaker, OnSuccess(b).state = "HALF_OPEN"
  PROVE  /\ b.state = "HALF_OPEN"
         /\ OnSuccess(b).attempts = b.attempts
         /\ OnSuccess(b).successes = b.successes + 1
         /\ b.successes + 1 < HalfOpenMaxAttempts
<1>1. CASE b.state = "HALF_OPEN"
  <2>1. Closed(b).state = "CLOSED"
    BY DEF Closed, Breaker
  <2>2. ~Enough(b.successes + 1)
    BY <1>1, <2>1 DEF OnSuccess
  <2>3. b.successes + 1 < HalfOpenMaxAttempts
    BY <2>2, BreakerAssumption DEF Enough, Breaker
  <2>4. OnSuccess(b) = [b EXCEPT !.successes = b.successes + 1]
    BY <1>1, <2>2, <2>3, BreakerAssumption DEF OnSuccess, AtMost, Breaker
  <2> QED BY <1>1, <2>3, <2>4 DEF Breaker
<1>2. CASE b.state = "CLOSED"
  BY <1>2 DEF OnSuccess, Breaker
<1>3. CASE b.state = "OPEN"
  BY <1>3 DEF OnSuccess
<1> QED BY <1>1, <1>2, <1>3 DEF Breaker, States

\* The records of a call
LEMMA RecordTypes ==
  ASSUME NEW r \in CallerRecord
  PROVE  /\ \A t \in BOOLEAN : /\ Run(r, t) \in CallerRecord
                              /\ Run(r, t).trial = t /\ Run(r, t).pc = "running"
         /\ \A s \in Results : /\ End(r, s) \in CallerRecord
                              /\ End(r, s).trial = FALSE /\ End(r, s).pc = "done"
         /\ r.attempt < MaxAttempts => Sleep(r) \in CallerRecord
         /\ Sleep(r).trial = FALSE /\ Sleep(r).pc = "sleeping"
         /\ [r EXCEPT !.trial = FALSE] \in CallerRecord
         /\ [r EXCEPT !.trial = FALSE].trial = FALSE
<1>1. "running" \in PCs /\ "done" \in PCs /\ "sleeping" \in PCs
  BY DEF PCs
<1>2. ASSUME NEW t \in BOOLEAN
      PROVE  Run(r, t) \in CallerRecord /\ Run(r, t).trial = t /\ Run(r, t).pc = "running"
  BY <1>1 DEF Run, CallerRecord
<1>3. ASSUME NEW s \in Results
      PROVE  End(r, s) \in CallerRecord /\ End(r, s).trial = FALSE /\ End(r, s).pc = "done"
  BY <1>1 DEF End, CallerRecord
<1>4. r.attempt < MaxAttempts => r.attempt + 1 \in 1..MaxAttempts
  BY BreakerAssumption DEF CallerRecord
<1>5. r.attempt < MaxAttempts => Sleep(r) \in CallerRecord
  BY <1>1, <1>4 DEF Sleep, CallerRecord
<1>6. Sleep(r).trial = FALSE /\ Sleep(r).pc = "sleeping"
  BY DEF Sleep, CallerRecord
<1>7. [r EXCEPT !.trial = FALSE] \in CallerRecord /\ [r EXCEPT !.trial = FALSE].trial = FALSE
  BY DEF CallerRecord
<1> QED BY <1>2, <1>3, <1>5, <1>6, <1>7

LEMMA BeforeAttemptType ==
  ASSUME NEW b, NEW r \in CallerRecord, NEW go \in CallerRecord, go.trial = FALSE
  PROVE  BeforeAttempt(b, r, go) \in CallerRecord /\ BeforeAttempt(b, r, go).trial = FALSE
BY RecordTypes DEF BeforeAttempt, Results

-----------------------------------------------------------------------------
(* The inductive invariant *)

\* Only executing callers that run an operation hold a trial
TrialsExecute ==
  \A c \in Callers : caller[c].trial => caller[c].pc = "running" /\ config.mode[c] = "execute"

\* Every attempt counted since the circuit went half-open succeeded or is still to come back
AttemptsAccounted ==
  breaker.state = "HALF_OPEN" =>
    /\ breaker.successes < HalfOpenMaxAttempts
    /\ breaker.attempts <= breaker.successes + Cardinality(Trials)

Inv == TypeOK /\ TrialsExecute /\ AttemptsAccounted

LEMMA InitInv == Init => Inv
BY NewBreakerType, IdleType DEF Init, Inv, TypeOK, TrialsExecute, AttemptsAccounted, NewBreaker, Idle,
                               CallerRecord

LEMMA TrialsFinite == IsFiniteSet(Trials) /\ Cardinality(Trials) \in Nat
BY BreakerAssumption, FS_Subset, FS_CardinalityType DEF Trials

\* The call of c ends, sleeps or runs without a trial, and the circuit stays as it is
LEMMA NoTrialStep ==
  ASSUME Inv, NEW c \in Callers, NEW r \in CallerRecord, r.trial = FALSE, ~caller[c].trial,
         caller' = [caller EXCEPT ![c] = r], config' = config,
         breaker' \in Breaker,
         breaker'.state = "HALF_OPEN" => /\ breaker.state = "HALF_OPEN"
                                         /\ breaker'.attempts = breaker.attempts
                                         /\ breaker'.successes = breaker.successes
  PROVE  Inv'
<1>1. TypeOK'
  BY DEF Inv, TypeOK, CallerRecord
<1>2. TrialsExecute'
  BY DEF Inv, TypeOK, TrialsExecute
<1>3. Trials' = Trials
  BY DEF Inv, TypeOK, Trials
<1>4. AttemptsAccounted'
  BY <1>3 DEF Inv, AttemptsAccounted
<1> QED BY <1>1, <1>2, <1>4 DEF Inv

LEMMA Parts ==
  ASSUME Inv, NEW c \in Callers
  PROVE  /\ caller[c] \in CallerRecord /\ breaker \in Breaker
         /\ caller \in [Callers -> CallerRecord]
         /\ caller[c].trial => caller[c].pc = "running" /\ config.mode[c] = "execute"
BY DEF Inv, TypeOK, TrialsExecute, CallerRecord

LEMMA ExecuteInv == ASSUME Inv, NEW c \in Callers, Execute(c) PROVE Inv'
<1>1. caller[c] \in CallerRecord /\ breaker \in Breaker /\ ~caller[c].trial /\ c \notin Trials
      /\ caller \in [Callers -> CallerRecord] /\ config' = config /\ config.mode[c] = "execute"
  BY Parts DEF Execute, Trials
<1>2. /\ Run(caller[c], FALSE) \in CallerRecord /\ Run(caller[c], FALSE).trial = FALSE
      /\ Run(caller[c], TRUE) \in CallerRecord /\ Run(caller[c], TRUE).trial = TRUE
      /\ Run(caller[c], TRUE).pc = "running"
      /\ End(caller[c], "blocked") \in CallerRecord /\ End(caller[c], "blocked").trial = FALSE
  BY <1>1, RecordTypes DEF Results
<1>3. CASE breaker.state = "CLOSED" /\ caller' = [caller EXCEPT ![c] = Run(@, FALSE)] /\ UNCHANGED breaker
  BY <1>1, <1>2, <1>3, NoTrialStep
<1>4. CASE /\ ~IsAcceptingRequests(breaker) /\ breaker' = Blocked(breaker)
           /\ caller' = [caller EXCEPT ![c] = End(@, "blocked")]
  BY <1>1, <1>2, <1>4, NoTrialStep DEF Blocked
<1>5. CASE /\ ShouldAttemptReset(breaker)
           /\ breaker' = [HalfOpened(breaker) EXCEPT !.attempts = @ + 1]
           /\ caller' = [d \in Callers |-> IF d = c THEN Run(caller[c], TRUE) ELSE Untried(d)]
  <2>1. breaker' \in Breaker /\ breaker'.attempts = 1 /\ breaker'.successes = 0
    BY <1>1, <1>5, HalfOpenedType
  <2>2. \A d \in Callers : /\ Untried(d) \in CallerRecord /\ Untried(d).trial = FALSE
    BY <1>1, RecordTypes DEF Untried
  <2>3. \A d \in Callers : caller'[d] = IF d = c THEN Run(caller[c], TRUE) ELSE Untried(d)
    BY <1>5
  <2>4. caller' \in [Callers -> CallerRecord]
    BY <1>2, <1>5, <2>2
  <2>5. Trials' = {c}
    BY <1>2, <2>2, <2>3 DEF Trials
  <2>6. Cardinality(Trials') = 1
    BY <2>5, FS_Singleton
  <2>7. AttemptsAccounted'
    BY <2>1, <2>6, BreakerAssumption DEF AttemptsAccounted
  <2>8. TrialsExecute'
    BY <1>1, <1>2, <2>2, <2>3 DEF TrialsExecute
  <2> QED BY <1>1, <2>1, <2>4, <2>7, <2>8 DEF Inv, TypeOK, CallerRecord
<1>6. CASE /\ breaker.state = "HALF_OPEN" /\ IsAcceptingRequests(breaker)
           /\ breaker' = [breaker EXCEPT !.attempts = @ + 1]
           /\ caller' = [caller EXCEPT ![c] = Run(@, TRUE)]
  <2>1. breaker.attempts < HalfOpenMaxAttempts
    BY <1>6 DEF IsAcceptingRequests, ShouldAttemptReset
  <2>2. breaker.attempts + 1 \in 0..HalfOpenMaxAttempts
    BY <1>1, <2>1, BreakerAssumption DEF Breaker
  <2>3. /\ breaker' \in Breaker /\ breaker'.attempts = breaker.attempts + 1
        /\ breaker'.successes = breaker.successes
    BY <1>1, <1>6, <2>2 DEF Breaker
  <2>4. \A d \in Callers : caller'[d] = IF d = c THEN Run(caller[c], TRUE) ELSE caller[d]
    BY <1>1, <1>6
  <2>5. caller' \in [Callers -> CallerRecord]
    BY <1>1, <1>2, <1>6
  <2>6. Trials' = Trials \cup {c}
    BY <1>2, <2>4 DEF Trials
  <2>7. Cardinality(Trials') = Cardinality(Trials) + 1
    BY <1>1, <2>6, TrialsFinite, FS_AddElement
  <2>8. AttemptsAccounted'
    BY <1>1, <1>6, <2>3, <2>7, TrialsFinite, BreakerAssumption DEF AttemptsAccounted, Inv, Breaker
  <2>9. TrialsExecute'
    BY <1>1, <1>2, <2>4 DEF TrialsExecute, Inv
  <2> QED BY <1>1, <2>3, <2>5, <2>8, <2>9 DEF Inv, TypeOK, CallerRecord
<1> QED BY <1>3, <1>4, <1>5, <1>6 DEF Execute

LEMMA SucceedsInv == ASSUME Inv, NEW c \in Callers, Succeeds(c) PROVE Inv'
<1> DEFINE r == End(caller[c], "resolved")
<1>1. /\ caller[c] \in CallerRecord /\ breaker \in Breaker /\ caller \in [Callers -> CallerRecord]
      /\ config' = config /\ breaker' = OnSuccess(breaker) /\ caller' = [caller EXCEPT ![c] = r]
  BY Parts DEF Succeeds
<1>2. r \in CallerRecord /\ r.trial = FALSE /\ breaker' \in Breaker
  BY <1>1, RecordTypes, OnSuccessType DEF Results
<1> HIDE DEF r
<1>3. \A d \in Callers : caller'[d] = IF d = c THEN r ELSE caller[d]
  BY <1>1
<1>4. Trials' = Trials \ {c}
  BY <1>2, <1>3 DEF Trials
<1>5. Cardinality(Trials) <= Cardinality(Trials') + 1 /\ Cardinality(Trials') \in Nat
  <2>1. /\ IsFiniteSet(Trials') /\ Cardinality(Trials) \in Nat
        /\ Cardinality(Trials') = IF c \in Trials THEN Cardinality(Trials) - 1 ELSE Cardinality(Trials)
    BY <1>4, TrialsFinite, FS_RemoveElement
  <2>2. Cardinality(Trials') \in Nat
    BY <2>1, FS_CardinalityType
  <2> QED BY <2>1, <2>2
<1>6. AttemptsAccounted'
  <2> SUFFICES ASSUME breaker'.state = "HALF_OPEN"
               PROVE  /\ breaker'.successes < HalfOpenMaxAttempts
                      /\ breaker'.attempts <= breaker'.successes + Cardinality(Trials')
    BY DEF AttemptsAccounted
  <2>1. /\ breaker.state = "HALF_OPEN" /\ breaker'.attempts = breaker.attempts
        /\ breaker'.successes = breaker.successes + 1 /\ breaker.successes + 1 < HalfOpenMaxAttempts
    BY <1>1, OnSuccessHalfOpen
  <2>2. breaker.attempts <= breaker.successes + Cardinality(Trials)
    BY <2>1 DEF Inv, AttemptsAccounted
  <2>3. breaker.attempts \in Nat /\ breaker.successes \in Nat
    BY <1>1, BreakerAssumption DEF Breaker
  <2> QED BY <1>5, <2>1, <2>2, <2>3, TrialsFinite
<1>7. TrialsExecute'
  BY <1>1, <1>2, <1>3 DEF TrialsExecute, Inv
<1> QED BY <1>1, <1>2, <1>3, <1>6, <1>7 DEF Inv, TypeOK, CallerRecord

\* Steps of callers that hold no trial, and failures
LEMMA RetryInv == ASSUME Inv, NEW c \in Callers, Retry(c) \/ Wake(c) \/ Return(c) PROVE Inv'
<1>1. /\ caller[c] \in CallerRecord /\ breaker \in Breaker /\ ~caller[c].trial /\ config' = config
      /\ breaker' = breaker
  BY Parts DEF Retry, Wake, Return, Blocked
<1>2. /\ Run(caller[c], FALSE) \in CallerRecord /\ Run(caller[c], FALSE).trial = FALSE
      /\ End(caller[c], "aborted") \in CallerRecord /\ End(caller[c], "aborted").trial = FALSE
  BY <1>1, RecordTypes DEF Results
<1> DEFINE before == BeforeAttempt(breaker, caller[c], Run(caller[c], FALSE))
<1>3. before \in CallerRecord /\ before.trial = FALSE
  BY <1>1, <1>2, BeforeAttemptType
<1> HIDE DEF before
<1>4. \E r \in CallerRecord : r.trial = FALSE /\ caller' = [caller EXCEPT ![c] = r]
  <2>1. CASE Retry(c)
    BY <1>3, <2>1 DEF Retry, before
  <2>2. CASE Wake(c)
    BY <1>2, <1>3, <2>2 DEF Wake, before
  <2>3. CASE Return(c)
    BY <2>3, IdleType DEF Return, Idle
  <2> QED BY <2>1, <2>2, <2>3
<1> QED BY <1>1, <1>4, NoTrialStep

LEMMA FailsInv == ASSUME Inv, NEW c \in Callers, NEW retryable \in BOOLEAN, Fails(c, retryable) PROVE Inv'
<1>1. /\ caller[c] \in CallerRecord /\ breaker \in Breaker /\ config' = config
      /\ caller \in [Callers -> CallerRecord]
      /\ caller[c].trial => config.mode[c] = "execute"
  BY Parts DEF Fails
<1> DEFINE counted == config.mode[c] = "execute" \/ ~retryable \/ config.countRetryable
           again == config.mode[c] # "execute" /\ retryable /\ caller[c].attempt < MaxAttempts
<1>2. breaker' = IF counted THEN OnFailure(breaker) ELSE breaker
  BY DEF Fails
<1>3. breaker' \in Breaker /\ (breaker'.state = "HALF_OPEN" => breaker' = breaker /\ ~counted)
  BY <1>1, <1>2, OnFailureType
<1>4. PICK r \in CallerRecord : r.trial = FALSE /\ caller' = [caller EXCEPT ![c] = r]
  <2>1. End(caller[c], "failed") \in CallerRecord /\ End(caller[c], "failed").trial = FALSE
    BY <1>1, RecordTypes DEF Results
  <2>2. again => /\ Sleep(caller[c]) \in CallerRecord /\ Sleep(caller[c]).trial = FALSE
                 /\ BeforeAttempt(breaker', caller[c], Sleep(caller[c])) \in CallerRecord
                 /\ BeforeAttempt(breaker', caller[c], Sleep(caller[c])).trial = FALSE
    <3>1. again => Sleep(caller[c]) \in CallerRecord
      BY <1>1, RecordTypes
    <3>2. Sleep(caller[c]).trial = FALSE
      BY <1>1, RecordTypes
    <3> HIDE DEF again
    <3> QED BY <1>1, <3>1, <3>2, BeforeAttemptType
  <2>3. caller' = [caller EXCEPT ![c] = IF ~again THEN End(caller[c], "failed")
                     ELSE IF config.mode[c] = "withRetry" THEN Sleep(caller[c])
                     ELSE BeforeAttempt(breaker', caller[c], Sleep(caller[c]))]
    BY DEF Fails
  <2> HIDE DEF again
  <2> QED BY <2>1, <2>2, <2>3
<1>5. CASE caller[c].trial
  <2>1. breaker'.state # "HALF_OPEN"
    BY <1>1, <1>3, <1>5
  <2>2. \A d \in Callers : caller'[d] = IF d = c THEN r ELSE caller[d]
    BY <1>1, <1>4
  <2>3. TrialsExecute'
    BY <1>1, <1>4, <2>2 DEF TrialsExecute, Inv
  <2> QED BY <1>1, <1>3, <1>4, <2>1, <2>3 DEF Inv, TypeOK, CallerRecord, AttemptsAccounted
<1>6. CASE ~caller[c].trial
  BY <1>1, <1>3, <1>4, <1>6, NoTrialStep
<1> QED BY <1>5, <1>6

LEMMA AbortInv == ASSUME Inv, NEW c \in Callers, Abort(c) PROVE Inv'
<1> DEFINE r == [caller[c] EXCEPT !.aborted = TRUE]
<1>1. /\ caller[c] \in CallerRecord /\ ~caller[c].trial /\ config' = config
      /\ breaker' = breaker /\ breaker \in Breaker /\ caller' = [caller EXCEPT ![c] = r]
  BY Parts DEF Abort
<1>2. r \in CallerRecord /\ r.trial = FALSE
  BY <1>1 DEF CallerRecord
<1> HIDE DEF r
<1> QED BY <1>1, <1>2, NoTrialStep

LEMMA ClockInv == ASSUME Inv, Reset \/ Tick PROVE Inv'
<1>1. caller' = caller /\ config' = config /\ Trials' = Trials
  BY DEF Reset, Tick, Trials
<1>2. CASE Reset
  BY <1>1, <1>2, NewBreakerType DEF Reset, NewBreaker, Inv, TypeOK, TrialsExecute, AttemptsAccounted
<1>3. CASE Tick
  <2>1. breaker \in Breaker /\ breaker.rested + 1 \in 0..ResetTimeout
    BY <1>3, BreakerAssumption DEF Tick, Inv, TypeOK, Breaker
  <2>2. /\ breaker' \in Breaker /\ breaker'.state = breaker.state
        /\ breaker'.attempts = breaker.attempts /\ breaker'.successes = breaker.successes
    BY <1>3, <2>1 DEF Tick, Breaker
  <2> QED BY <1>1, <2>2 DEF Inv, TypeOK, TrialsExecute, AttemptsAccounted
<1> QED BY <1>2, <1>3

LEMMA NextInv == Inv /\ [Next]_vars => Inv'
<1> SUFFICES ASSUME Inv, [Next]_vars PROVE Inv'
  OBVIOUS
<1>1. CASE UNCHANGED vars
  BY <1>1 DEF vars, Inv, TypeOK, TrialsExecute, AttemptsAccounted, Trials
<1>2. ASSUME NEW c \in Callers, Call(c) \/ CallStep(c) \/ Abort(c) PROVE Inv'
  BY <1>2, ExecuteInv, RetryInv, SucceedsInv, FailsInv, AbortInv DEF Call, CallStep, Fail
<1>3. CASE Next
  BY <1>2, <1>3, ClockInv DEF Next
<1> QED BY <1>1, <1>3

-----------------------------------------------------------------------------
\* Every variable has its type in every reachable state.
THEOREM TypeCorrect == SafeSpec => []TypeOK
<1>1. Inv => TypeOK
  BY DEF Inv
<1> QED BY <1>1, InitInv, NextInv, PTL DEF SafeSpec

\* A half-open circuit that has used up its attempts always has a trial to come back, for
\* any number of callers in any modes, any threshold and any number of attempts.
THEOREM NeverWedged == SafeSpec => []HalfOpenNeverWedged
<1>1. Inv => HalfOpenNeverWedged
  <2> SUFFICES ASSUME Inv, breaker.state = "HALF_OPEN", ~IsAcceptingRequests(breaker), Trials = {}
               PROVE  FALSE
    BY DEF HalfOpenNeverWedged
  <2>1. breaker \in Breaker /\ breaker.attempts >= HalfOpenMaxAttempts
    BY BreakerAssumption DEF IsAcceptingRequests, Inv, TypeOK, Breaker
  <2>2. Cardinality(Trials) = 0
    BY FS_EmptySet
  <2> QED BY <2>1, <2>2, BreakerAssumption DEF Inv, AttemptsAccounted, Breaker
<1> QED BY <1>1, InitInv, NextInv, PTL DEF SafeSpec
=============================================================================
