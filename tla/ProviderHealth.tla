--------------------------- MODULE ProviderHealth ---------------------------
(***************************************************************************)
(* The health of one HTTP provider (pkg/providers/http_provider.go and     *)
(* health.go): callers run DoRequest with its retry loop, the checker      *)
(* goroutine runs periodic checks through the same DoRequest, and all of   *)
(* them update ProviderHealth, each update behind healthMu.                *)
(*                                                                         *)
(* recordRequest and updateHealth are separate critical sections, and so   *)
(* are the IsHealthy and GetHealth of the checker.  The totals that        *)
(* recordRequest keeps are metrics that no code reads and are left out.    *)
(* Durations are in small units and an int has IntBits bits.               *)
(***************************************************************************)
EXTENDS Integers

CONSTANTS
    Callers,        \* goroutines that send requests to the provider
    Checker,        \* the goroutine of runHealthChecker
    MaxRetries,     \* config.MaxRetries
    Interval,       \* config.HealthCheckInterval
    MaxBackoff,     \* the five minutes of calculateBackoff
    IntBits,        \* width of int and of time.Duration
    MaxFailures     \* ConsecutiveFailures is counted up to here

ASSUME HealthAssumption ==
    /\ Checker \notin Callers
    /\ MaxRetries \in Nat
    /\ Interval \in Nat \ {0}
    /\ MaxBackoff \in Nat \ {0}
    /\ Interval <= MaxBackoff /\ 10 * Interval < 2^(IntBits - 1)
    /\ IntBits \in 5..31
    /\ MaxFailures \in 3..31

Actors == Callers \cup {Checker}
Threshold == 3

VARIABLES
    pc,         \* where each goroutine is
    attempt,    \* attempt of each DoRequest
    healthy,    \* health.IsHealthy
    failures,   \* health.ConsecutiveFailures
    ticker,     \* the period of the checker's ticker
    upstream,   \* what the provider would answer now
    closer      \* HTTPProvider.Close

vars == <<pc, attempt, healthy, failures, ticker, upstream, closer>>

Answers == {"up", "down", "denies", "refuses"}

States == {"idle", "send", "backoff", "credit", "blame", "ok", "failed",
           "judge", "reset", "stopped", "panicked"}

(* Health record, callers and checker keep their types. *)
TypeOK ==
    /\ pc \in [Actors -> States]
    /\ attempt \in [Actors -> 0..MaxRetries]
    /\ healthy \in BOOLEAN
    /\ failures \in 0..MaxFailures
    /\ ticker \in Int
    /\ upstream \in Answers
    /\ closer \in {"open", "waiting", "closed"}

Init ==
    /\ pc = [a \in Actors |-> "idle"]
    /\ attempt = [a \in Actors |-> 0]
    /\ healthy = TRUE
    /\ failures = 0
    /\ ticker = Interval
    /\ upstream \in Answers
    /\ closer = "open"

-----------------------------------------------------------------------------
Capped(n) == IF n < MaxFailures THEN n ELSE MaxFailures

(* Faulty variants *)

(* a loop that counts only answered attempts *)
NextAttemptForever(a) ==
    /\ pc' = [pc EXCEPT ![a] = "backoff"]
    /\ UNCHANGED attempt

(* a success clears the counter but leaves the circuit open *)
UpdateHealthSticky(success) ==
    IF success THEN failures' = 0 /\ UNCHANGED healthy
    ELSE /\ failures' = Capped(failures + 1)
         /\ healthy' = (healthy /\ failures' < Threshold)

-----------------------------------------------------------------------------
(* updateHealth *)
UpdateHealth(success) ==
    IF success THEN healthy' = TRUE /\ failures' = 0
    ELSE /\ failures' = Capped(failures + 1)
         /\ healthy' = (healthy /\ failures' < Threshold)

(* A panic in the checker's goroutine ends the process. *)
Alive == pc[Checker] # "panicked"

Move(a, from, to) ==
    /\ Alive
    /\ pc[a] = from
    /\ pc' = [pc EXCEPT ![a] = to]

(* The end of the loop body of DoRequest. *)
NextAttempt(a) ==
    IF attempt[a] < MaxRetries
    THEN /\ attempt' = [attempt EXCEPT ![a] = @ + 1]
         /\ pc' = [pc EXCEPT ![a] = "backoff"]
    ELSE /\ pc' = [pc EXCEPT ![a] = "blame"]
         /\ UNCHANGED attempt

(* A call of DoRequest; for the checker, a tick that starts a check. *)
Begin(a) ==
    /\ Move(a, "idle", "send")
    /\ attempt' = [attempt EXCEPT ![a] = 0]
    /\ UNCHANGED <<healthy, failures, ticker, upstream, closer>>

(* 2xx; updateHealth(true) is a step of its own. *)
Answered(a) ==
    /\ upstream = "up"
    /\ Move(a, "send", "credit")
    /\ UNCHANGED <<attempt, healthy, failures, ticker, upstream, closer>>

(* 400 or 429: no retry, not held against the provider by DoRequest.  A     *)
(* provider that is up may still refuse what a caller asks.                 *)
Refused(a) ==
    /\ upstream = "refuses" \/ (upstream = "up" /\ a # Checker)
    /\ Move(a, "send", "failed")
    /\ UNCHANGED <<attempt, healthy, failures, ticker, upstream, closer>>

(* 401 or 403: no retry, updateHealth(false) in a step of its own. *)
Denied(a) ==
    /\ upstream = "denies"
    /\ Move(a, "send", "blame")
    /\ UNCHANGED <<attempt, healthy, failures, ticker, upstream, closer>>

(* A network error or a 5xx: the next attempt, or all are used up. *)
Failed(a) ==
    /\ Alive
    /\ upstream = "down"
    /\ pc[a] = "send"
    /\ NextAttempt(a)
    /\ UNCHANGED <<healthy, failures, ticker, upstream, closer>>

(* The context ends while sending or backing off.  The five seconds of a   *)
(* check are enough for a provider that is up.                             *)
ContextDone(a) ==
    /\ Alive
    /\ pc[a] \in {"send", "backoff"}
    /\ a = Checker /\ pc[a] = "send" => upstream # "up"
    /\ pc' = [pc EXCEPT ![a] = "failed"]
    /\ UNCHANGED <<attempt, healthy, failures, ticker, upstream, closer>>

BackoffOver(a) ==
    /\ Move(a, "backoff", "send")
    /\ UNCHANGED <<attempt, healthy, failures, ticker, upstream, closer>>

Credit(a) ==
    /\ Move(a, "credit", "ok")
    /\ UpdateHealth(TRUE)
    /\ UNCHANGED <<attempt, ticker, upstream, closer>>

Blame(a) ==
    /\ Move(a, "blame", "failed")
    /\ UpdateHealth(FALSE)
    /\ UNCHANGED <<attempt, ticker, upstream, closer>>

(* DoRequest has returned to a caller. *)
Return(c) ==
    /\ Alive
    /\ pc[c] \in {"ok", "failed"}
    /\ pc' = [pc EXCEPT ![c] = "idle"]
    /\ UNCHANGED <<attempt, healthy, failures, ticker, upstream, closer>>

DoRequest(a) ==
    \/ Begin(a) \/ Answered(a) \/ Refused(a) \/ Denied(a) \/ Failed(a)
    \/ ContextDone(a) \/ BackoffOver(a) \/ Credit(a) \/ Blame(a)

-----------------------------------------------------------------------------
(* The checker goroutine *)

(* performHealthCheck updates the health once more with the result. *)
CheckDone ==
    \/ /\ Move(Checker, "ok", "judge")
       /\ UpdateHealth(TRUE)
          /\ UNCHANGED <<attempt, ticker, upstream, closer>>
    \/ /\ Move(Checker, "failed", "judge")
       /\ UpdateHealth(FALSE)
          /\ UNCHANGED <<attempt, ticker, upstream, closer>>

(* IsHealthy *)
Judge ==
    /\ pc[Checker] = "judge"
    /\ pc' = [pc EXCEPT ![Checker] = IF healthy THEN "idle" ELSE "reset"]
    /\ ticker' = IF healthy THEN Interval ELSE ticker
    /\ UNCHANGED <<attempt, healthy, failures, upstream, closer>>

(* calculateBackoff, with Go's shift and wrap-around *)
Wrap(n) == LET m == n % 2^IntBits IN IF m < 2^(IntBits - 1) THEN m ELSE m - 2^IntBits

Multiplier(n) ==
    LET shifted == IF n >= IntBits THEN 0 ELSE Wrap(2^n)
    IN  IF shifted > 10 THEN 10 ELSE shifted

CalculateBackoff(n) ==
    LET backoff == Wrap(Interval * Multiplier(n))
    IN  IF n = 0 THEN Interval ELSE IF backoff > MaxBackoff THEN MaxBackoff ELSE backoff

(* GetHealth and ticker.Reset, which panics unless the period is positive; *)
(* the panic ends the process.                                             *)
ResetTicker ==
    /\ pc[Checker] = "reset"
    /\ ticker' = CalculateBackoff(failures)
    /\ pc' = [pc EXCEPT ![Checker] = IF ticker' > 0 THEN "idle" ELSE "panicked"]
    /\ UNCHANGED <<attempt, healthy, failures, upstream, closer>>

(* The select finds stopHealthCheck closed. *)
StopChecker ==
    /\ closer # "open"
    /\ Move(Checker, "idle", "stopped")
    /\ UNCHANGED <<attempt, healthy, failures, ticker, upstream, closer>>

-----------------------------------------------------------------------------
(* Close: signal, then wait for the checker or for five seconds. *)
CloseSignal ==
    /\ Alive
    /\ closer = "open"
    /\ closer' = "waiting"
    /\ UNCHANGED <<pc, attempt, healthy, failures, ticker, upstream>>

CloseReturn ==
    /\ Alive
    /\ closer = "waiting"
    /\ closer' = "closed"
    /\ UNCHANGED <<pc, attempt, healthy, failures, ticker, upstream>>

(* The provider goes down, comes back, revokes the API key or refuses. *)
UpstreamChanges ==
    /\ Alive
    /\ upstream' \in Answers \ {upstream}
    /\ UNCHANGED <<pc, attempt, healthy, failures, ticker, closer>>

CheckerStep == DoRequest(Checker) \/ CheckDone \/ Judge \/ ResetTicker \/ StopChecker

Next ==
    \/ \E c \in Callers : DoRequest(c) \/ Return(c)
    \/ CheckerStep
    \/ CloseSignal
    \/ CloseReturn
    \/ UpstreamChanges

Spec == Init /\ [][Next]_vars

(* Requests end (http.Client has a timeout), timers fire, and the ticker   *)
(* keeps ticking.                                                          *)
Fairness ==
    /\ \A c \in Callers : WF_vars(pc[c] # "idle" /\ (DoRequest(c) \/ Return(c)))
    /\ WF_vars(CheckerStep)
    /\ WF_vars(CloseReturn)

FairSpec == Spec /\ Fairness

-----------------------------------------------------------------------------
(* Properties *)

(* Once the provider stays up, it is eventually considered healthy for     *)
(* good: failures that callers report late, of requests they sent before,  *)
(* cannot keep the circuit open.                                           *)
RecoversWhenUp ==
    <>[](upstream = "up") => <>[](healthy \/ closer # "open")

(* Every DoRequest returns, whatever the provider answers in between.      *)
RequestsReturn == \A c \in Callers : pc[c] # "idle" ~> pc[c] = "idle"

-----------------------------------------------------------------------------
(* What the comments say and the code does not do *)

(* health.go:12, "The health checker runs until the provider is closed or  *)
(* the context is cancelled": it does not end in a panic.                  *)
CheckerSurvives == Alive
=============================================================================
