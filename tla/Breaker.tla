------------------------------- MODULE Breaker -------------------------------
(***************************************************************************)
(* Calls to the remote cache: the retry loop of retryRPCWithCtx and        *)
(* retryRPCNoResultWithCtx, the CircuitBreaker they share, and the         *)
(* downloads that use neither.  Time is kept as the age of the last        *)
(* recorded failure, which stops growing at the cooldown.                  *)
(***************************************************************************)
EXTENDS Integers

CONSTANTS
  Caller,       \* goroutines that call the remote
  Background,   \* those on context.WithoutCancel: the remote populates
  Threshold,    \* failures that open the circuit (5)
  Cooldown,     \* how long it then stays open (30 s)
  MaxAttempts,  \* attempts of one call (3)
  MaxFailures   \* bound: cb.failures counts no further than this

ASSUME BreakerAssumption ==
  /\ Background \subseteq Caller
  /\ Threshold \in Nat \ {0}
  /\ Cooldown \in Nat
  /\ MaxAttempts \in Nat \ {0}
  /\ MaxFailures \in Nat /\ MaxFailures >= Threshold

VARIABLES
  failures, tripped, age,  \* the breaker; age stands for time.Since(lastFailure)
  pc,                      \* where each caller is
  attempt,                 \* attempt[c]: attempts begun before the current one
  sent,                    \* history: sent[c], requests sent in the current call, as far
                           \* as one more than MaxAttempts
  probe,                   \* history: probe[c], the call was let in by an open circuit
  cancelled,               \* SIGINT or SIGTERM: the context of main is done
  remote                   \* external: how the server answers

breaker == <<failures, tripped, age>>
calls   == <<pc, attempt, sent, probe>>
vars    == <<breaker, calls, cancelled, remote>>

\* up: answers; down: UNAVAILABLE, RESOURCE_EXHAUSTED or DEADLINE_EXCEEDED;
\* refusing: any other error.
Health == {"up", "down", "refusing"}

TypeOK ==
  /\ failures \in 0..MaxFailures
  /\ tripped \in BOOLEAN
  /\ age \in 0..Cooldown
  /\ pc \in [Caller -> {"idle", "check", "rpc", "sleep", "good", "bad", "raw"}]
  /\ attempt \in [Caller -> 0..MaxAttempts - 1]
  /\ sent \in [Caller -> 0..MaxAttempts + 1]
  /\ probe \in [Caller -> BOOLEAN]
  /\ cancelled \in BOOLEAN
  /\ remote \in Health

Init ==
  /\ failures = 0
  /\ tripped = FALSE
  /\ age = Cooldown
  /\ pc = [c \in Caller |-> "idle"]
  /\ attempt = [c \in Caller |-> 0]
  /\ sent = [c \in Caller |-> 0]
  /\ probe = [c \in Caller |-> FALSE]
  /\ cancelled = FALSE
  /\ remote = "up"

Goto(c, step) == pc' = [pc EXCEPT ![c] = step]

\* Mutant: an open circuit lets nothing through, whatever its age.
Allow_NoProbe == ~tripped

Allow == ~tripped \/ age >= Cooldown

\* A call of a retry function, up to its loop: fails at once, or enters it.
Call(c) ==
  /\ pc[c] = "idle"
  /\ Goto(c, IF Allow THEN "check" ELSE "idle")
  /\ attempt' = [attempt EXCEPT ![c] = 0]
  /\ sent' = [sent EXCEPT ![c] = 0]
  /\ probe' = [probe EXCEPT ![c] = Allow /\ tripped]
  /\ UNCHANGED <<breaker, cancelled, remote>>

\* The head of the loop: return when the context is done, else send the request.
Send(c) ==
  /\ pc[c] = "check"
  /\ LET done == cancelled /\ c \notin Background
     IN /\ Goto(c, IF done THEN "idle" ELSE "rpc")
        /\ sent' = [sent EXCEPT ![c] = IF done \/ @ > MaxAttempts THEN @ ELSE @ + 1]
  /\ UNCHANGED <<breaker, attempt, probe, cancelled, remote>>

\* Mutant: one attempt more.
LastAttempt_Late(c) == attempt[c] = MaxAttempts

LastAttempt(c) == attempt[c] = MaxAttempts - 1

\* fn() returns: success is recorded, a permanent error is returned as it is, a
\* transient one is tried again or, after the last attempt, recorded.
Reply(c) ==
  /\ pc[c] = "rpc"
  /\ Goto(c, CASE remote = "up" -> "good"
               [] remote = "refusing" -> "idle"
               [] remote = "down" -> IF LastAttempt(c) THEN "bad" ELSE "sleep")
  /\ UNCHANGED <<breaker, attempt, sent, probe, cancelled, remote>>

\* Mutant: the attempts are not counted.
Wake_NoCount(c) ==
  /\ pc[c] = "sleep"
  /\ Goto(c, "check")
  /\ UNCHANGED <<breaker, attempt, sent, probe, cancelled, remote>>

\* time.Sleep(delay + jitter) is over; the next attempt.
Wake(c) ==
  /\ pc[c] = "sleep"
  /\ attempt' = [attempt EXCEPT ![c] = @ + 1]
  /\ Goto(c, "check")
  /\ UNCHANGED <<breaker, sent, probe, cancelled, remote>>

RecordSuccess(c) ==
  /\ pc[c] = "good"
  /\ failures' = 0
  /\ tripped' = FALSE
  /\ Goto(c, "idle")
  /\ UNCHANGED <<age, attempt, sent, probe, cancelled, remote>>

\* Mutant: the circuit opens one failure too late.
TripsAt_Above(n) == n > Threshold

TripsAt(n) == n >= Threshold

RecordFailure(c) ==
  /\ pc[c] = "bad"
  /\ LET n == failures + 1
     IN /\ failures' = IF n <= MaxFailures THEN n ELSE MaxFailures
        /\ tripped' = (tripped \/ TripsAt(n))
  /\ age' = 0
  /\ Goto(c, "idle")
  /\ UNCHANGED <<attempt, sent, probe, cancelled, remote>>

\* batchDownload, byteStreamDownload, byteStreamUpload: one request, no breaker.
Direct(c) ==
  /\ pc[c] = "idle"
  /\ Goto(c, "raw")
  /\ attempt' = [attempt EXCEPT ![c] = 0]
  /\ sent' = [sent EXCEPT ![c] = 1]
  /\ probe' = [probe EXCEPT ![c] = FALSE]
  /\ UNCHANGED <<breaker, cancelled, remote>>

DirectReply(c) ==
  /\ pc[c] = "raw"
  /\ Goto(c, "idle")
  /\ UNCHANGED <<breaker, attempt, sent, probe, cancelled, remote>>

Tick ==
  /\ age < Cooldown
  /\ age' = age + 1
  /\ UNCHANGED <<failures, tripped, calls, cancelled, remote>>

Cancel ==
  /\ ~cancelled
  /\ cancelled' = TRUE
  /\ UNCHANGED <<breaker, calls, remote>>

RemoteChanges ==
  /\ remote' \in Health \ {remote}
  /\ UNCHANGED <<breaker, calls, cancelled>>

\* The rest of a call once it has begun.
Continue(c) ==
  Send(c) \/ Reply(c) \/ Wake(c) \/ RecordSuccess(c) \/ RecordFailure(c) \/ DirectReply(c)

Next ==
  \/ \E c \in Caller : Call(c) \/ Direct(c) \/ Continue(c)
  \/ Tick \/ Cancel \/ RemoteChanges

Spec == Init /\ [][Next]_vars

\* Goroutines run, every request is bounded by requestTimeout, sleeps end and time
\* passes.  A build that goes on keeps storing: every populate begins with
\* FindMissingBlobs, whatever requests without a breaker come in between.
Fairness ==
  /\ WF_vars(Tick)
  /\ \A c \in Caller : WF_vars(Continue(c))
  /\ \A c \in Background : SF_vars(Call(c))

FairSpec == Spec /\ Fairness

-----------------------------------------------------------------------------
(* Properties *)

\* The circuit is open exactly when Threshold failures were recorded since the
\* last recorded success, in whatever order the callers get to record theirs; no
\* call sends more than MaxAttempts requests, and a failure is recorded only for
\* one that sent them all.
OpenAfterThreshold ==
  /\ tripped <=> failures >= Threshold
  /\ \A c \in Caller : sent[c] <= MaxAttempts
  /\ \A c \in Caller : pc[c] = "bad" => sent[c] = MaxAttempts

\* Once the remote answers for good, the circuit closes for good: the probe after
\* the cooldown gets through although failed calls are still being recorded.
Recovers == <>[](remote = "up") => <>[](~tripped)

\* Every call ends, whatever the remote does.
CallsEnd == \A c \in Caller : pc[c] # "idle" ~> pc[c] = "idle"

-----------------------------------------------------------------------------
(* A statement of a comment in the source, which the code does not keep. *)

\* "it allows one probe request after the cooldown": no two calls that an open
\* circuit let in run at the same time.
OneProbe ==
  \A c, d \in Caller :
    probe[c] /\ probe[d] /\ pc[c] # "idle" /\ pc[d] # "idle" => c = d

=============================================================================
