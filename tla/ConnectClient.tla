--------------------------- MODULE ConnectClient ---------------------------
(***************************************************************************)
(* Concurrent requests to one Connect profile: the client cache of the     *)
(* service (workflow/service.go), the request loop with its retries        *)
(* (connect/client.go) and the token bucket they all wait for              *)
(* (connect/limiter.go).                                                   *)
(*                                                                         *)
(* Time is a global tick.  The unit of the bucket is what the rate adds in *)
(* one tick, so a token is Interval units.  A tick lets every timer, and   *)
(* every bucket's age, advance together; between two ticks the goroutines  *)
(* run in any order, and any number of ticks may pass before one that is   *)
(* due gets to run.  A caller makes one request and stops.                 *)
(***************************************************************************)
EXTENDS Integers, Sequences

CONSTANTS
  Callers,            \* the goroutines with a request for the profile
  ConfiguredRetries,  \* rest.retries of the profile; 0 when it is not set
  ConfiguredBurst,    \* rest.burst of the profile; 0 when it is not set
  Interval,           \* ticks per token, from rest.requestsPerSecond
  Base,               \* the first backoff (150 ms)
  MaxDelay,           \* the longest backoff (30 s)
  Timeout,            \* the timeout of the HTTP client; 0 is none
  Hints               \* the Retry-After values servers send, in ticks

ASSUME RetriesAssumption  == ConfiguredRetries \in Nat
ASSUME BurstAssumption    == ConfiguredBurst \in Nat
ASSUME IntervalAssumption == Interval \in Nat \ {0}
ASSUME DelayAssumption    == Base \in Nat /\ MaxDelay \in Nat
ASSUME TimeoutAssumption  == Timeout \in Nat
ASSUME HintsAssumption    == Hints \subseteq Nat

\* NewClient takes a value that is not positive for one that is not set.
Retries == IF ConfiguredRetries = 0 THEN 4 ELSE ConfiguredRetries
Burst   == IF ConfiguredBurst = 0 THEN 10 ELSE ConfiguredBurst

Capacity == Burst * Interval

VARIABLES
  clients,    \* the limiters of the clients NewClient made, oldest first
  cached,     \* s.clients: the client cached for the profile, 0 for none
  pc,         \* where each caller is
  client,     \* the client a caller got from ClientFor
  attempt,    \* the loop variable of doJSON
  timer,      \* ticks until the timer a caller waits for fires
  quiet,      \* ticks of silence the last answer to a caller still asks for
  result,     \* what doJSON returned
  passed,     \* how many tokens a caller took: one for each request it sent
  cancelled   \* the context is done

vars == <<clients, cached, pc, client, attempt, timer, quiet, result, passed,
          cancelled>>

Min(a, b) == IF a < b THEN a ELSE b
Max(a, b) == IF a > b THEN a ELSE b

\* A bucket is refilled when it is looked at: tokens is what it held at `last`,
\* age the time since, which counts up to what fills any bucket.
Bucket == [tokens : 0..Capacity, age : 0..Capacity]

Full == [tokens |-> Capacity, age |-> 0]

Level(b) == Min(Capacity, b.tokens + b.age)

TypeOK ==
  /\ clients \in Seq(Bucket)
  /\ cached \in 0..Len(clients)
  /\ pc \in [Callers -> {"start", "limit", "token", "send", "answer",
                         "backoff", "done"}]
  /\ client \in [Callers -> 0..Len(clients)]
  /\ \A c \in Callers : pc[c] \notin {"start", "done"} => client[c] # 0
  /\ attempt \in [Callers -> 0..Retries]
  /\ timer \in [Callers -> Nat]
  /\ quiet \in [Callers -> Nat]
  /\ result \in [Callers -> {"none", "ok", "error", "exhausted", "cancelled"}]
  /\ passed \in [Callers -> Nat]
  /\ cancelled \in BOOLEAN

Init ==
  /\ clients = << >>
  /\ cached = 0
  /\ pc = [c \in Callers |-> "start"]
  /\ client = [c \in Callers |-> 0]
  /\ attempt = [c \in Callers |-> 0]
  /\ timer = [c \in Callers |-> 0]
  /\ quiet = [c \in Callers |-> 0]
  /\ result = [c \in Callers |-> "none"]
  /\ passed = [c \in Callers |-> 0]
  /\ cancelled = FALSE

Goto(c, l) == pc' = [pc EXCEPT ![c] = l]
Return(c, r) == Goto(c, "done") /\ result' = [result EXCEPT ![c] = r]

-----------------------------------------------------------------------------
(* ClientFor: lookup, creation and caching under the service's mutex.      *)

\* Mutant of ClientFor: every call makes a client of its own.
ClientForUncached(c) ==
  /\ pc[c] = "start"
  /\ clients' = Append(clients, Full)
  /\ cached' = Len(clients) + 1
  /\ client' = [client EXCEPT ![c] = cached']
  /\ Goto(c, "limit")
  /\ UNCHANGED <<attempt, timer, quiet, result, passed, cancelled>>

ClientFor(c) ==
  /\ pc[c] = "start"
  /\ IF cached = 0
     THEN /\ clients' = Append(clients, Full)
          /\ cached' = Len(clients) + 1
     ELSE UNCHANGED <<clients, cached>>
  /\ client' = [client EXCEPT ![c] = cached']
  /\ Goto(c, "limit")
  /\ UNCHANGED <<attempt, timer, quiet, result, passed, cancelled>>

\* Credentials or certificates are missing; the failure is not cached.
ClientForFails(c) ==
  /\ pc[c] = "start" /\ cached = 0
  /\ Return(c, "error")
  /\ UNCHANGED <<clients, cached, client, attempt, timer, quiet, passed, cancelled>>

-----------------------------------------------------------------------------
(* tokenBucket.Wait.  One turn of its loop under the mutex, then a sleep.  *)

Refilled(c) == Level(clients[client[c]])

\* The bucket is not FIFO, and nobody looks at the context when it has a token.
Grant(c) ==
  /\ pc[c] = "limit" /\ Refilled(c) >= Interval
  /\ clients' = [clients EXCEPT ![client[c]] =
                   [tokens |-> Refilled(c) - Interval, age |-> 0]]
  /\ passed' = [passed EXCEPT ![c] = @ + 1]
  /\ Goto(c, "send")
  /\ UNCHANGED <<cached, client, attempt, timer, quiet, result, cancelled>>

\* Until the token is due; a fraction of a tick may be cut off, but a caller
\* never waits less than the shortest wait (1 ms).
Waits(level) == {Interval - level, Max(1, Interval - level - 1)}

\* Mutant of Empty: the time is noted, what it refilled is not.
EmptyForgets(c) ==
  /\ pc[c] = "limit" /\ Refilled(c) < Interval
  /\ clients' = [clients EXCEPT ![client[c]].age = 0]
  /\ \E t \in Waits(Refilled(c)) : timer' = [timer EXCEPT ![c] = t]
  /\ Goto(c, "token")
  /\ UNCHANGED <<cached, client, attempt, quiet, result, passed, cancelled>>

Empty(c) ==
  /\ pc[c] = "limit" /\ Refilled(c) < Interval
  /\ clients' = [clients EXCEPT ![client[c]] = [tokens |-> Refilled(c), age |-> 0]]
  /\ \E t \in Waits(Refilled(c)) : timer' = [timer EXCEPT ![c] = t]
  /\ Goto(c, "token")
  /\ UNCHANGED <<cached, client, attempt, quiet, result, passed, cancelled>>

TokenDue(c) ==
  /\ pc[c] = "token" /\ timer[c] = 0
  /\ Goto(c, "limit")
  /\ UNCHANGED <<clients, cached, client, attempt, timer, quiet, result, passed, cancelled>>

Abandon(c, at) ==
  /\ pc[c] = at /\ cancelled
  /\ Return(c, "cancelled")
  /\ UNCHANGED <<clients, cached, client, attempt, timer, quiet, passed, cancelled>>

\* Mutant of WaitCancelled: a plain sleep.
WaitSleeps(c) == Abandon(c, "token") /\ FALSE

WaitCancelled(c) == Abandon(c, "token")

-----------------------------------------------------------------------------
(* doJSON.  What the server, or the network, does to a request is a choice.*)

Send(c) ==
  /\ pc[c] = "send" /\ ~cancelled
  /\ timer' = [timer EXCEPT ![c] = Timeout]
  /\ Goto(c, "answer")
  /\ UNCHANGED <<clients, cached, client, attempt, quiet, result, passed, cancelled>>

\* Do returns the context's error, before it sends anything or while it waits;
\* that is not a network error to retry.
RequestCancelled(c) == Abandon(c, "send") \/ Abandon(c, "answer")

\* A final answer: the response, or a status that is not retried, a body that
\* cannot be read or decoded.
Answer(c) ==
  /\ pc[c] = "answer"
  /\ \E r \in {"ok", "error"} : Return(c, r)
  /\ UNCHANGED <<clients, cached, client, attempt, timer, quiet, passed, cancelled>>

\* The HTTP client's own timeout, if it has one, is a DeadlineExceeded: it is
\* not retried either.
TimeOut(c) ==
  /\ pc[c] = "answer" /\ timer[c] = 0 /\ Timeout > 0
  /\ Return(c, "error")
  /\ UNCHANGED <<clients, cached, client, attempt, timer, quiet, passed, cancelled>>

\* 150 ms << min(attempt, 4)
Backoff(a) == Base * <<1, 2, 4, 8, 16>>[Min(a, 4) + 1]

\* Mutant of Delay: the header is not looked at.
DelayFixed(a, hint) == Min(Backoff(a), MaxDelay)

\* sleepRetry: the longer of the backoff and Retry-After (0 when there is none
\* or it cannot be parsed), within the longest delay.  A Retry-After of centuries, which
\* overflows when it becomes a duration (client.go:254), is not among the hints.
Delay(a, hint) == Min(Max(Backoff(a), hint), MaxDelay)

\* Status 409, 429 or 500, 502, 503, 504, or a network error, which has no
\* Retry-After.
Again(c) ==
  /\ pc[c] = "answer" /\ attempt[c] < Retries
  /\ \E hint \in Hints \cup {0} :
       /\ timer' = [timer EXCEPT ![c] = Delay(attempt[c], hint)]
       /\ quiet' = [quiet EXCEPT ![c] = Min(hint, MaxDelay)]
  /\ Goto(c, "backoff")
  /\ UNCHANGED <<clients, cached, client, attempt, result, passed, cancelled>>

\* The last attempt returns its own error: the loop is never left at the top.
Exhausted(c) ==
  /\ pc[c] = "answer" /\ attempt[c] >= Retries
  /\ Return(c, "exhausted")
  /\ UNCHANGED <<clients, cached, client, attempt, timer, quiet, passed, cancelled>>

\* The loop goes round: the next attempt queues for a token of its own.
Retry(c) ==
  /\ pc[c] = "backoff" /\ timer[c] = 0
  /\ attempt' = [attempt EXCEPT ![c] = @ + 1]
  /\ Goto(c, "limit")
  /\ UNCHANGED <<clients, cached, client, timer, quiet, result, passed, cancelled>>

BackoffCancelled(c) == Abandon(c, "backoff")

-----------------------------------------------------------------------------
(* The environment.                                                        *)

Cancel ==
  /\ ~cancelled
  /\ cancelled' = TRUE
  /\ UNCHANGED <<clients, cached, pc, client, attempt, timer, quiet, result, passed>>

Tick ==
  /\ timer' = [c \in Callers |-> Max(0, timer[c] - 1)]
  /\ quiet' = [c \in Callers |-> Max(0, quiet[c] - 1)]
  /\ clients' = [k \in DOMAIN clients |->
                   [clients[k] EXCEPT !.age = Min(@ + 1, Capacity)]]
  /\ UNCHANGED <<cached, pc, client, attempt, result, passed, cancelled>>

Stop(c) == WaitCancelled(c) \/ RequestCancelled(c) \/ BackoffCancelled(c)

Step(c) == \/ ClientFor(c) \/ ClientForFails(c)
           \/ Grant(c) \/ Empty(c) \/ TokenDue(c)
           \/ Send(c) \/ TimeOut(c) \/ Retry(c) \/ Stop(c)

Next == (\E c \in Callers : Step(c) \/ Answer(c) \/ Again(c) \/ Exhausted(c))
        \/ Cancel \/ Tick

Spec == Init /\ [][Next]_vars

\* The scheduler runs a caller that can go on.  A select with two ready cases
\* picks one at random, so a caller that keeps finding the context done does
\* not for ever take the timer.  Nobody promises that a server answers.
FairSpec == /\ Spec
            /\ \A c \in Callers : WF_vars(Step(c)) /\ SF_vars(Stop(c))

-----------------------------------------------------------------------------
(* All callers of the profile together stay within its rate and burst: the *)
(* client cache, the lazy refill and the retries implement one limiter     *)
(* (ClientFor, tokenBucket.Wait).                                          *)
Limiter == INSTANCE RateLimit
             WITH credit <- IF clients = << >> THEN Capacity ELSE Level(clients[1])
Limited == Limiter!Spec

(* A request is attempted at most Retries + 1 times, each attempt with a   *)
(* token of its own, and the client reports exhaustion only after all of   *)
(* them (the loop of doJSON).                                              *)
AttemptsBounded ==
  \A c \in Callers : /\ passed[c] <= Retries + 1
                     /\ result[c] = "exhausted" => passed[c] = Retries + 1

(* A request is not repeated before the time its last answer asked for has *)
(* passed, up to the longest delay (sleepRetry).                           *)
RetryAfterHonoured == [][\A c \in Callers : Send(c) => quiet[c] = 0]_vars

(* Every call returns, whether or not the server answers and however the   *)
(* callers compete for tokens, if time goes on and the client has a        *)
(* timeout (validateREST accepts "0s", and then nothing bounds a request). *)
Returns ==
  Timeout > 0 /\ WF_vars(Tick) => <>(\A c \in Callers : pc[c] = "done")

(* Once the context is done every call returns, and not because a timer    *)
(* runs out: no time has to pass for it.                                   *)
CancelEnds == cancelled ~> (\A c \in Callers : pc[c] = "done")
=============================================================================
