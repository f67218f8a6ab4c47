----------------------- MODULE SelectionClientProofs -----------------------
(***************************************************************************)
(* Proofs about the two ends of a command: Selection, which connectors it  *)
(* works on, and ConnectClient, how it asks Kafka Connect about them.  The *)
(* two share neither state nor steps, and nothing here relates them.       *)
(*                                                                         *)
(* Selection: for any listing, policy, batch size and selection, and any   *)
(* number of changes by others.  ConnectClient: for every number of        *)
(* callers and every setting of a profile, types, the bound on attempts,   *)
(* Retry-After, and that all callers together implement one rate limiter.  *)
(***************************************************************************)
EXTENDS Selection, ConnectClient, FiniteSetTheorems, SequenceTheorems, TLAPS

-----------------------------------------------------------------------------
(* ConnectClient: the invariant.                                           *)

InFlight == {"limit", "token", "send", "answer", "backoff"}

(* ClientFor makes at most one client, and whoever is past it has that one.*)
OneClient ==
  /\ cached = Len(clients) /\ Len(clients) <= 1
  /\ \A c \in Callers : pc[c] \in InFlight => client[c] = 1 /\ cached = 1

(* Where a caller is in its attempts, from its place in the loop.          *)
Attempts(c) ==
  /\ pc[c] = "start" => attempt[c] = 0 /\ passed[c] = 0
  /\ pc[c] \in {"limit", "token"} => passed[c] = attempt[c]
  /\ pc[c] \in {"send", "answer", "backoff"} => passed[c] = attempt[c] + 1
  /\ pc[c] = "backoff" => attempt[c] < Retries
  /\ passed[c] <= Retries + 1
  /\ result[c] = "exhausted" => passed[c] = Retries + 1

(* A backoff covers what the server asked for, and nothing asks in between.*)
Quiet(c) ==
  /\ pc[c] = "backoff" => quiet[c] <= timer[c]
  /\ pc[c] \in {"start", "limit", "token", "send", "answer"} => quiet[c] = 0

(* The inductive invariant. *)
IInv == TypeOK /\ OneClient /\ (\A c \in Callers : Attempts(c) /\ Quiet(c))

-----------------------------------------------------------------------------
(* The numbers.                                                            *)

(* A profile has retries, and its bucket holds at least one token.         *)
LEMMA Settings == Retries \in Nat \ {0} /\ Capacity \in Nat /\ Interval <= Capacity
<1>1. Retries \in Nat \ {0}
  BY RetriesAssumption DEF Retries
<1>2. Burst \in Nat \ {0}
  BY BurstAssumption DEF Burst
<1>3. \A n, m \in Nat \ {0} : n * m \in Nat /\ m <= n * m
  <2>1. SUFFICES ASSUME NEW n \in Nat \ {0}, NEW m \in Nat \ {0}
                 PROVE  n * m \in Nat /\ m <= n * m
    OBVIOUS
  <2>2. n * m = (n - 1) * m + m
    OBVIOUS
  <2>3. (n - 1) * m \in Nat
    OBVIOUS
  <2>. QED BY <2>2, <2>3
<1>. QED BY <1>1, <1>2, <1>3, IntervalAssumption DEF Capacity

(* A bucket's level is between empty and full.                             *)
LEMMA LevelType ==
  ASSUME NEW b \in Bucket
  PROVE  Level(b) \in 0..Capacity
BY Settings DEF Bucket, Level, Min

(* The backoff is a number for every attempt.                              *)
LEMMA BackoffType ==
  ASSUME NEW a \in Nat
  PROVE  Backoff(a) \in Nat
<1>1. Min(a, 4) \in 0..4
  BY DEF Min
<1>2. /\ Base * 1 \in Nat /\ Base * 2 \in Nat /\ Base * 4 \in Nat
      /\ Base * 8 \in Nat /\ Base * 16 \in Nat
  BY DelayAssumption
<1>3. <<1, 2, 4, 8, 16>>[Min(a, 4) + 1] \in {1, 2, 4, 8, 16}
  BY <1>1
<1>. QED BY <1>2, <1>3 DEF Backoff

(* The delay covers what the server asked for, up to the longest delay.    *)
LEMMA DelayCovers ==
  ASSUME NEW a \in Nat, NEW hint \in Nat
  PROVE  /\ Delay(a, hint) \in Nat
         /\ Min(hint, MaxDelay) \in Nat
         /\ Min(hint, MaxDelay) <= Delay(a, hint)
<1>1. Backoff(a) \in Nat
  BY BackoffType
<1>. QED BY <1>1, DelayAssumption DEF Delay, Min, Max

-----------------------------------------------------------------------------
(* Invariance.                                                             *)

(* The initial states satisfy the invariant.                               *)
LEMMA InitInv == Init => IInv
<1>. SUFFICES ASSUME Init PROVE IInv
  OBVIOUS
<1>. USE DEF Init
<1>0. Retries \in Nat \ {0}
  BY Settings
<1>1. clients \in Seq(Bucket) /\ Len(clients) = 0
  OBVIOUS
<1>2. TypeOK
  <2>1. cached \in 0..Len(clients) /\ client \in [Callers -> 0..Len(clients)]
    BY <1>1
  <2>2. attempt \in [Callers -> 0..Retries] /\ passed \in [Callers -> Nat]
    BY <1>0
  <2>3. timer \in [Callers -> Nat] /\ quiet \in [Callers -> Nat]
    OBVIOUS
  <2>4. /\ pc \in [Callers -> {"start", "limit", "token", "send", "answer",
                              "backoff", "done"}]
        /\ \A c \in Callers : pc[c] = "start"
    OBVIOUS
  <2>5. result \in [Callers -> {"none", "ok", "error", "exhausted", "cancelled"}]
    OBVIOUS
  <2>. QED BY <1>1, <2>1, <2>2, <2>3, <2>4, <2>5 DEF TypeOK
<1>3. OneClient
  BY <1>1 DEF OneClient, InFlight
<1>4. \A c \in Callers : Attempts(c) /\ Quiet(c)
  <2>1. SUFFICES ASSUME NEW c \in Callers PROVE Attempts(c) /\ Quiet(c)
    OBVIOUS
  <2>2. /\ pc[c] = "start" /\ attempt[c] = 0 /\ passed[c] = 0 /\ quiet[c] = 0
        /\ result[c] = "none"
    OBVIOUS
  <2>. QED BY <1>0, <2>2 DEF Attempts, Quiet
<1>. QED BY <1>2, <1>3, <1>4 DEF IInv

(* A caller's step keeps the invariant.                                    *)
LEMMA CallerInv ==
  ASSUME IInv, NEW c \in Callers,
         Step(c) \/ Answer(c) \/ Again(c) \/ Exhausted(c)
  PROVE  IInv'
<1>. USE Settings DEF IInv, TypeOK, OneClient, Attempts, Quiet, InFlight, Goto, Return
<1>1. CASE ClientFor(c)
  <2>1. Full \in Bucket
    BY DEF Full, Bucket
  <2>2. CASE cached = 0
    <3>1. clients = << >>
      BY <2>2, EmptySeq
    <3>2. clients' = <<Full>> /\ cached' = 1
      BY <1>1, <2>2, <3>1 DEF ClientFor
    <3>3. clients' \in Seq(Bucket) /\ Len(clients') = 1
      BY <3>2, <2>1
    <3>. QED BY <1>1, <2>2, <3>2, <3>3 DEF ClientFor
  <2>3. CASE cached # 0
    BY <1>1, <2>3 DEF ClientFor
  <2>. QED BY <2>2, <2>3
<1>2. CASE ClientForFails(c)
  BY <1>2 DEF ClientForFails
<1>3. ASSUME pc[c] = "limit", NEW l \in 0..Capacity,
             clients' = [clients EXCEPT ![client[c]] = [tokens |-> l, age |-> 0]]
      PROVE  clients' \in Seq(Bucket) /\ Len(clients') = Len(clients)
  <2>1. [tokens |-> l, age |-> 0] \in Bucket
    BY DEF Bucket
  <2>2. clients \in Seq(Bucket)
    OBVIOUS
  <2>. QED BY <1>3, <2>1, <2>2
<1>4. ASSUME pc[c] = "limit" PROVE Refilled(c) \in 0..Capacity
  <2>1. client[c] = 1 /\ Len(clients) = 1
    BY <1>4
  <2>2. clients \in Seq(Bucket)
    OBVIOUS
  <2>3. clients[1] \in Bucket
    <3>1. 1 \in 1..Len(clients)
      BY <2>1
    <3>. QED BY <2>2, <3>1, ElementOfSeq
  <2>. QED BY <2>1, <2>3, LevelType DEF Refilled
<1>5. CASE Grant(c)
  <2>1. Refilled(c) - Interval \in 0..Capacity
    BY <1>4, <1>5, IntervalAssumption DEF Grant
  <2>2. clients' \in Seq(Bucket) /\ Len(clients') = Len(clients)
    BY <1>3, <1>5, <2>1 DEF Grant
  <2>. QED BY <1>5, <2>2 DEF Grant
<1>6. CASE Empty(c)
  <2>1. clients' \in Seq(Bucket) /\ Len(clients') = Len(clients)
    BY <1>3, <1>4, <1>6 DEF Empty
  <2>2. Waits(Refilled(c)) \subseteq Nat
    BY <1>4, <1>6, IntervalAssumption DEF Empty, Waits, Max
  <2>3. timer' \in [Callers -> Nat]
    BY <1>6, <2>2 DEF Empty
  <2>. QED BY <1>6, <2>1, <2>3 DEF Empty
<1>7. CASE TokenDue(c)
  BY <1>7 DEF TokenDue
<1>8. CASE Stop(c)
  <2>1. \E at \in InFlight : Abandon(c, at)
    BY <1>8 DEF Stop, WaitCancelled, RequestCancelled, BackoffCancelled
  <2>. QED BY <2>1 DEF Abandon
<1>9. CASE Send(c)
  BY <1>9, TimeoutAssumption DEF Send
<1>10. CASE TimeOut(c)
  BY <1>10 DEF TimeOut
<1>11. CASE Retry(c)
  BY <1>11 DEF Retry
<1>12. CASE Answer(c)
  BY <1>12 DEF Answer
<1>13. CASE Again(c)
  <2>1. PICK hint \in Hints \cup {0} :
          /\ timer' = [timer EXCEPT ![c] = Delay(attempt[c], hint)]
          /\ quiet' = [quiet EXCEPT ![c] = Min(hint, MaxDelay)]
    BY <1>13 DEF Again
  <2>2. /\ Delay(attempt[c], hint) \in Nat /\ Min(hint, MaxDelay) \in Nat
        /\ Min(hint, MaxDelay) <= Delay(attempt[c], hint)
    <3>1. attempt[c] \in Nat /\ hint \in Nat
      BY HintsAssumption
    <3>. QED BY <3>1, DelayCovers
  <2>. QED BY <1>13, <2>1, <2>2 DEF Again
<1>14. CASE Exhausted(c)
  BY <1>14 DEF Exhausted
<1>. QED BY <1>1, <1>2, <1>5, <1>6, <1>7, <1>8, <1>9, <1>10, <1>11, <1>12, <1>13, <1>14
       DEF Step

(* So does the passing of time.                                            *)
LEMMA TickInv == IInv /\ Tick => IInv'
<1>. SUFFICES ASSUME IInv, Tick PROVE IInv'
  OBVIOUS
<1>. USE Settings DEF IInv, TypeOK, OneClient, Attempts, Quiet, InFlight
<1>1. clients' \in Seq(Bucket) /\ Len(clients') = Len(clients)
  <2>1. ASSUME NEW k \in DOMAIN clients
        PROVE  [clients[k] EXCEPT !.age = Min(@ + 1, Capacity)] \in Bucket
    <3>1. clients[k] \in Bucket
      BY ElementOfSeq
    <3>2. Min(clients[k].age + 1, Capacity) \in 0..Capacity
      BY <3>1 DEF Bucket, Min
    <3>. QED BY <3>1, <3>2 DEF Bucket
  <2>2. clients' = [k \in 1..Len(clients) |->
                      [clients[k] EXCEPT !.age = Min(@ + 1, Capacity)]]
    BY DEF Tick
  <2>. QED BY <2>1, <2>2
<1>2. \A n \in Nat : Max(0, n - 1) \in Nat
  BY DEF Max
<1>3. \A n, m \in Nat : n <= m => Max(0, n - 1) <= Max(0, m - 1)
  BY DEF Max
<1>4. /\ timer' \in [Callers -> Nat] /\ quiet' \in [Callers -> Nat]
      /\ \A c \in Callers : quiet[c] = 0 => quiet'[c] = 0
      /\ \A c \in Callers : quiet[c] <= timer[c] => quiet'[c] <= timer'[c]
  BY <1>2, <1>3 DEF Tick, Max
<1>. QED BY <1>1, <1>4 DEF Tick

(* Every step keeps the invariant.                                         *)
LEMMA NextInv == IInv /\ [Next]_vars => IInv'
<1>. SUFFICES ASSUME IInv, [Next]_vars PROVE IInv'
  OBVIOUS
<1>1. CASE Cancel
  BY <1>1 DEF Cancel, IInv, TypeOK, OneClient, Attempts, Quiet, InFlight
<1>2. CASE UNCHANGED vars
  BY <1>2 DEF vars, IInv, TypeOK, OneClient, Attempts, Quiet, InFlight
<1>. QED BY <1>1, <1>2, CallerInv, TickInv DEF Next

(* The invariant holds in every reachable state.                           *)
THEOREM Invariant == Spec => []IInv
BY InitInv, NextInv, PTL DEF Spec

(* The variables keep their types.                                         *)
THEOREM TypeCorrect == Spec => []TypeOK
<1>1. IInv => TypeOK
  BY DEF IInv
<1>. QED BY <1>1, Invariant, PTL

(* At most Retries + 1 attempts per request, and exhaustion only after all *)
(* of them (the loop of doJSON).                                           *)
THEOREM BoundedAttempts == Spec => []AttemptsBounded
<1>1. IInv => AttemptsBounded
  BY DEF IInv, AttemptsBounded, Attempts
<1>. QED BY <1>1, Invariant, PTL

(* No request is repeated before the server's Retry-After (sleepRetry).    *)
THEOREM HonoursRetryAfter == Spec => RetryAfterHonoured
<1>1. IInv /\ [Next]_vars => [\A c \in Callers : Send(c) => quiet[c] = 0]_vars
  BY DEF IInv, Quiet, Send
<1>. QED BY <1>1, Invariant, PTL DEF Spec, RetryAfterHonoured

-----------------------------------------------------------------------------
(* Refinement.                                                             *)

Credit == IF clients = << >> THEN Capacity ELSE Level(clients[1])

(* The callers start with a full burst.                                    *)
LEMMA LimiterInit == Init => Limiter!Init
BY DEF Init, Limiter!Init

(* Each step takes a token against the shared credit, adds what one tick   *)
(* earns, or leaves the credit alone.                                      *)
LEMMA LimiterNext == IInv /\ [Next]_vars => [Limiter!Next]_Limiter!vars
<1>. SUFFICES ASSUME IInv, [Next]_vars PROVE [Limiter!Next]_Limiter!vars
  OBVIOUS
<1>. USE Settings
<1>. DEFINE Kept == Credit' = Credit /\ passed' = passed
<1>1. ASSUME Kept PROVE UNCHANGED Limiter!vars
  BY <1>1 DEF Limiter!vars, Credit
<1>2. ASSUME UNCHANGED <<clients, passed>> PROVE Kept
  BY <1>2 DEF Credit, Level
<1>3. ASSUME NEW c \in Callers, pc[c] = "limit"
      PROVE  /\ client[c] = 1 /\ Len(clients) = 1 /\ clients # << >>
             /\ clients \in Seq(Bucket) /\ clients[1] \in Bucket
             /\ Credit = Refilled(c) /\ Credit \in 0..Capacity
  <2>1. client[c] = 1 /\ Len(clients) = 1 /\ clients \in Seq(Bucket)
    BY <1>3 DEF IInv, TypeOK, OneClient, InFlight
  <2>2. clients # << >> /\ clients[1] \in Bucket
    BY <2>1, ElementOfSeq
  <2>. QED BY <2>1, <2>2, LevelType DEF Credit, Refilled
<1>4. ASSUME NEW c \in Callers, pc[c] = "limit", NEW l \in 0..Capacity,
             clients' = [clients EXCEPT ![client[c]] = [tokens |-> l, age |-> 0]]
      PROVE  Credit' = l
  <2>1. clients' # << >> /\ clients'[1] = [tokens |-> l, age |-> 0]
    BY <1>3, <1>4
  <2>. QED BY <2>1 DEF Credit, Level, Min
<1>5. ASSUME NEW c \in Callers, ClientFor(c) PROVE Kept
  <2>1. CASE cached = 0
    <3>1. clients = << >>
      BY <2>1, EmptySeq DEF IInv, TypeOK, OneClient
    <3>2. clients' = <<Full>> /\ passed' = passed
      BY <1>5, <2>1, <3>1 DEF ClientFor
    <3>3. Level(Full) = Capacity
      BY DEF Level, Full, Min
    <3>. QED BY <3>1, <3>2, <3>3 DEF Credit, Level
  <2>2. CASE cached # 0
    BY <1>2, <1>5, <2>2 DEF ClientFor
  <2>. QED BY <2>1, <2>2
<1>6. ASSUME NEW c \in Callers, Grant(c) PROVE Limiter!Take(c)
  <2>. pc[c] = "limit"
    BY <1>6 DEF Grant
  <2>1. Credit' = Refilled(c) - Interval
    <3>1. Refilled(c) - Interval \in 0..Capacity
      BY <1>3, <1>6, IntervalAssumption DEF Grant
    <3>. QED BY <1>4, <1>6, <3>1 DEF Grant
  <2>2. Credit = Refilled(c) /\ Credit >= Interval
    BY <1>3, <1>6 DEF Grant
  <2>. QED BY <1>6, <2>1, <2>2 DEF Limiter!Take, Credit, Grant
<1>7. ASSUME NEW c \in Callers, Empty(c) PROVE Kept
  BY <1>3, <1>4, <1>7 DEF Empty
<1>8. ASSUME Tick PROVE Limiter!Tick \/ Kept
  <2>1. CASE clients = << >>
    <3>1. clients' = << >>
      BY <1>8, <2>1 DEF Tick
    <3>. QED BY <1>8, <2>1, <3>1 DEF Tick, Credit, Level
  <2>2. CASE clients # << >>
    <3>. DEFINE b == clients[1]
    <3>1. Len(clients) = 1 /\ b \in Bucket
      BY <2>2 DEF IInv, TypeOK, OneClient
    <3>2. clients' = [k \in 1..1 |->
                        [clients[k] EXCEPT !.age = Min(@ + 1, Capacity)]]
      BY <1>8, <3>1 DEF Tick
    <3>3. clients' # << >> /\ clients'[1] = [b EXCEPT !.age = Min(@ + 1, Capacity)]
      BY <3>2
    <3>4. Credit = Level(b) /\ Credit' = Level([b EXCEPT !.age = Min(@ + 1, Capacity)])
      BY <2>2, <3>3 DEF Credit, Level
    <3>5. Credit' = Min(Credit + 1, Capacity) /\ Credit \in 0..Capacity
      BY <3>1, <3>4 DEF Level, Min, Bucket
    <3>6. passed' = passed
      BY <1>8 DEF Tick
    <3>. QED BY <3>5, <3>6 DEF Limiter!Tick, Credit, Min
  <2>. QED BY <2>1, <2>2
<1>9. ASSUME NEW c \in Callers,
             \/ ClientForFails(c) \/ TokenDue(c) \/ Stop(c) \/ Send(c) \/ TimeOut(c)
             \/ Retry(c) \/ Answer(c) \/ Again(c) \/ Exhausted(c)
      PROVE  UNCHANGED <<clients, passed>>
  BY <1>9 DEF ClientForFails, TokenDue, Stop, WaitCancelled, RequestCancelled,
              BackoffCancelled, Abandon, Send, TimeOut, Retry, Answer, Again, Exhausted
<1>10. Cancel \/ UNCHANGED vars => UNCHANGED <<clients, passed>>
  BY DEF Cancel, vars
<1>. QED
  BY <1>1, <1>2, <1>5, <1>6, <1>7, <1>8, <1>9, <1>10 DEF Next, Step, Limiter!Next

(* However many callers share a profile, they implement one limiter with   *)
(* its rate and burst (ClientFor, tokenBucket.Wait).                       *)
THEOREM ImplementsLimiter == Spec => Limited
BY LimiterInit, LimiterNext, Invariant, PTL DEF Spec, Limited, Limiter!Spec

-----------------------------------------------------------------------------
(* Selection: pages.                                                       *)

LEMMA Finite ==
  ASSUME NEW S \in SUBSET Names
  PROVE  IsFiniteSet(S) /\ Cardinality(S) \in Nat /\ Cardinality(S) <= Cardinality(Names)
         /\ Cardinality(Names) \in Nat
BY NamesAssumption, FS_Subset, FS_CardinalityType

\* The rank of a name is an index into the list, in the order of the names, and only
\* grows with the list.
LEMMA Ranks ==
  ASSUME NEW S \in SUBSET Names, NEW n \in Names
  PROVE  /\ Rank(n, S) \in Nat
         /\ n \in S => Rank(n, S) < Cardinality(S)
         /\ \A m \in Names : n \in S /\ n < m => Rank(n, S) < Rank(m, S)
         /\ \A T \in SUBSET Names : S \subseteq T => Rank(n, S) <= Rank(n, T)
<1> DEFINE Below(k, X) == {x \in X : x < k}
<1>1. \A k \in Names, X \in SUBSET Names :
         Below(k, X) \in SUBSET Names /\ Rank(k, X) = Cardinality(Below(k, X))
  BY DEF Rank
<1>2. Rank(n, S) \in Nat
  BY <1>1, Finite
<1>3. ASSUME n \in S PROVE Rank(n, S) < Cardinality(S)
  <2>1. Below(n, S) \in SUBSET S /\ Below(n, S) # S
    BY <1>3, NamesAssumption
  <2> HIDE DEF Below
  <2>2. Cardinality(Below(n, S)) <= Cardinality(S) /\ Cardinality(Below(n, S)) # Cardinality(S)
    BY <2>1, Finite, FS_Subset
  <2> QED
    BY <1>1, <1>2, <2>2, Finite
<1>4. ASSUME NEW m \in Names, n \in S, n < m PROVE Rank(n, S) < Rank(m, S)
  <2>1. Below(n, S) \in SUBSET Below(m, S) /\ Below(n, S) # Below(m, S)
    <3>1. n \in Below(m, S) /\ n \notin Below(n, S)
      BY <1>4, NamesAssumption
    <3>2. \A x \in S : x < n => x < m
      BY <1>4, NamesAssumption
    <3>3. Below(n, S) \subseteq Below(m, S)
      BY <3>2
    <3> QED
      BY <3>1, <3>3
  <2> HIDE DEF Below
  <2>2. /\ Cardinality(Below(n, S)) <= Cardinality(Below(m, S))
        /\ Cardinality(Below(n, S)) # Cardinality(Below(m, S))
    BY <1>1, <2>1, Finite, FS_Subset
  <2> QED
    BY <1>1, <2>2, Finite
<1>5. ASSUME NEW T \in SUBSET Names, S \subseteq T PROVE Rank(n, S) <= Rank(n, T)
  <2>1. Below(n, S) \in SUBSET Below(n, T)
    BY <1>5
  <2> HIDE DEF Below
  <2> QED
    BY <1>1, <2>1, Finite, FS_Subset
<1> QED
  BY <1>2, <1>3, <1>4, <1>5

\* Names with ranks in an interval are not more than the interval has.
LEMMA Between ==
  ASSUME NEW S \in SUBSET Names, NEW a \in Nat, NEW size \in Nat,
         NEW P \in SUBSET S, \A n \in P : a <= Rank(n, S) /\ Rank(n, S) < a + size
  PROVE  Cardinality(P) <= size
<1> DEFINE f == [n \in P |-> Rank(n, S)]
           T == a..(a + size - 1)
<1>1. \A n \in P : f[n] \in T
  <2> SUFFICES ASSUME NEW n \in P PROVE Rank(n, S) \in a..(a + size - 1)
    OBVIOUS
  <2>1. Rank(n, S) \in Nat
    BY Ranks
  <2> QED
    BY <2>1
<1>2. \A n, m \in P : f[n] = f[m] => n = m
  BY Ranks, NamesAssumption
<1>3. f \in Injection(P, T)
  BY <1>1, <1>2 DEF Injection, IsInjective
<1>4. IsFiniteSet(T) /\ Cardinality(T) = size
  BY FS_Interval
<1> HIDE DEF f, T
<1> QED
  BY <1>3, <1>4, FS_Injection

\* A page has at most as many names as it may have.
LEMMA PageSize ==
  ASSUME NEW S \in SUBSET Names, NEW size \in Nat, NEW from \in Nat
  PROVE  /\ Page(S, size, from) \in SUBSET S
         /\ size > 0 => Cardinality(Page(S, size, from)) <= size
<1>1. Page(S, size, from) \in SUBSET S
  BY DEF Page
<1>2. ASSUME size > 0
      PROVE  Cardinality(Page(S, size, from)) <= size
  <2>1. \A n \in Page(S, size, from) : from <= Rank(n, S) /\ Rank(n, S) < from + size
    BY <1>2 DEF Page
  <2> QED
    BY <1>1, <2>1, Between
<1> QED
  BY <1>1, <1>2

\* The rest of a list has as many names as come after the offset.
LEMMA PageRest ==
  ASSUME NEW S \in SUBSET Names, NEW from \in Nat
  PROVE  Cardinality(S) <= from + Cardinality(Page(S, 0, from))
<1> DEFINE Rest == Page(S, 0, from)
           First == {n \in S : Rank(n, S) < from}
<1>1. S = First \cup Rest /\ First \in SUBSET S /\ Rest \in SUBSET S
  BY Ranks DEF Page
<1>2. \A n \in First : 0 <= Rank(n, S) /\ Rank(n, S) < 0 + from
  BY Ranks
<1> HIDE DEF First, Rest
<1>3. Cardinality(First) <= from
  BY <1>1, <1>2, Between
<1>4. Cardinality(S) = Cardinality(First) + Cardinality(Rest) - Cardinality(First \cap Rest)
  BY <1>1, Finite, FS_Union
<1>5. /\ Cardinality(First) \in Nat /\ Cardinality(Rest) \in Nat
      /\ Cardinality(First \cap Rest) \in Nat
  BY <1>1, Finite
<1>6. Cardinality(S) <= from + Cardinality(Rest)
  BY <1>3, <1>4, <1>5
<1> QED
  BY <1>6 DEF Rest

-----------------------------------------------------------------------------
(* The inductive invariant.                                                *)

C == Chosen(git, options)
B == Batch(command, options)

\* DELETE --all-env pages through what is left; all other sweeps advance an offset.
Shrinking == command = "delete" /\ options.allEnv

\* A sweep with a successful run can only be refused for its offset or its listing.
AcceptedInv ==
  /\ command = "create" => ~options.allEnv
  /\ handled # {} =>
       /\ command = "adopt" => ~options.allEnv /\ ~options.unsafeAll /\ options.names # {}
       /\ command = "create" => options.names # {}
       /\ command # "create" => (options.allEnv => Allow(command)) /\ options.names \subseteq Env
       /\ B >= 0
       /\ options.unsafeAll => Allow(command)
       /\ options.unsafeAll \/ B <= MaxBatch
       /\ options.unsafeAll \/ B > 0 \/ (~options.allEnv /\ Cardinality(options.names) <= MaxBatch)

\* What the sweep had to reach has been handled or is still ahead of it.
CoverInv ==
  /\ Shrinking => offset = 0 /\ target \ removed \subseteq handled \cup C
  /\ ~Shrinking /\ removed = {} =>
       handled \subseteq C /\ \A n \in target \ handled : n \in C /\ offset <= Rank(n, C)

\* Without changes by others, what has been handled is behind the sweep.
OnceInv ==
  changes = 0 =>
    /\ command = "delete" => handled \cap git = {}
    /\ ~Shrinking => \A n \in handled : n \in C /\ Rank(n, C) < offset

SweepInv == BlastRadius /\ AcceptedInv /\ CoverInv /\ OnceInv

\* The set that is paged, and the size of a page.
LEMMA BatchTypes ==
  ASSUME options \in Options, git \in SUBSET Names
  PROVE  B \in Int /\ C \in SUBSET Names
<1>1. options.size \in Int /\ options.names \subseteq Names
  BY SweepAssumption DEF Options
<1>2. B \in Int
  BY <1>1, PolicyAssumption DEF B, Batch
<1>3. C \in SUBSET Names
  BY <1>1, NamesAssumption DEF C, Chosen
<1> QED
  BY <1>2, <1>3

LEMMA SweepInvInit == SweepInit => SweepInv
<1> SUFFICES ASSUME SweepInit PROVE SweepInv
  OBVIOUS
<1>1. PICK o \in Options : /\ command = "create" => ~o.allEnv
                           /\ options = Defaulted(command, o)
  BY DEF SweepInit
<1>2. options \in Options /\ (command = "create" => ~options.allEnv)
  BY <1>1 DEF Defaulted, Options
<1>3. B \in Int /\ C \in SUBSET Names
  BY <1>2, BatchTypes DEF SweepInit
<1>4. SweepTypeOK
  <2>1. B > 0 => offset < Cardinality(Names) + B
    BY <1>3, Finite DEF SweepInit
  <2>2. 0 \in 0..MaxChanges
    BY SweepAssumption
  <2> QED
    BY <1>2, <1>3, <2>1, <2>2 DEF SweepInit, SweepTypeOK, B, C
<1>5. BlastRadius
  BY <1>4, FS_EmptySet, PolicyAssumption DEF SweepInit, BlastRadius
<1>6. \A n \in C : 0 <= Rank(n, C)
  BY <1>3, Ranks
<1> QED
  BY <1>2, <1>5, <1>6 DEF SweepInit, SweepInv, AcceptedInv, CoverInv, OnceInv, C

-----------------------------------------------------------------------------
(* A successful run.                                                       *)

LEMMA RunFacts ==
  ASSUME SweepInv, Accepted(command, git, options, offset)
  PROVE  /\ C \in SUBSET Names /\ C # {} /\ B \in Nat
         /\ PageOf(command) = Page(C, B, offset) /\ PageOf(command) \in SUBSET C
         /\ offset \in Nat /\ offset < Cardinality(C)
         /\ ~options.unsafeAll => B <= MaxBatch /\ (B > 0 \/ Cardinality(C) <= MaxBatch)
<1>1. command \in Commands /\ options \in Options /\ git \in SUBSET Names /\ offset \in Nat
  BY DEF SweepInv, BlastRadius, SweepTypeOK
<1>2. C \in SUBSET Names /\ B \in Int
  BY <1>1, BatchTypes
<1>3. C # {}
  BY <1>1 DEF Accepted, C, Chosen, Commands
<1>4. PageAllowed(Cardinality(C), B, offset, options.unsafeAll, Allow(command))
  BY DEF Accepted, B, C
<1>5. Cardinality(C) # 0 /\ Cardinality(C) \in Nat
  BY <1>2, <1>3, Finite, FS_EmptySet
<1>6. PageOf(command) = Page(C, B, offset) /\ PageOf(command) \in SUBSET C
  BY DEF PageOf, Selected, Page, B, C
<1> QED
  BY <1>1, <1>2, <1>3, <1>4, <1>5, <1>6 DEF PageAllowed

LEMMA RunStep == ASSUME SweepInv, Run PROVE SweepInv' /\ (changes = 0 => page' \cap handled = {})
<1>1. /\ Accepted(command, git, options, offset)
      /\ command \in NeedsManifest => PageOf(command) \subseteq git
      /\ command = "create" => PageOf(command) \subseteq Env
      /\ page' = PageOf(command) /\ handled' = handled \cup page'
      /\ git' = CASE command = "delete"             -> git \ page'
                  [] command \in {"adopt", "create"} -> git \cup page'
                  [] OTHER                           -> git
      /\ offset' = IF Shrinking THEN 0
                   ELSE offset + (IF B > 0 THEN B ELSE Cardinality(page'))
      /\ UNCHANGED <<command, options, state, target, removed, changes>>
  BY DEF Run, Succeeds, Shrinking, B
<1>2. /\ C \in SUBSET Names /\ C # {} /\ B \in Nat
      /\ page' = Page(C, B, offset) /\ page' \in SUBSET C
      /\ offset \in Nat /\ offset < Cardinality(C)
      /\ ~options.unsafeAll => B <= MaxBatch /\ (B > 0 \/ Cardinality(C) <= MaxBatch)
  BY <1>1, RunFacts
<1>3. /\ command \in Commands /\ options \in Options /\ git \in SUBSET Names
      /\ handled \in SUBSET Names
  BY DEF SweepInv, BlastRadius, SweepTypeOK
<1>4. page' \in SUBSET Names /\ Cardinality(page') \in Nat /\ Cardinality(C) \in Nat
      /\ Cardinality(C) <= Cardinality(Names) /\ Cardinality(Names) \in Nat
      /\ Cardinality(page') <= Cardinality(C)
  BY <1>2, Finite, FS_Subset
<1>5. AcceptedInv'
  <2>1. /\ command = "adopt" => ~options.allEnv /\ ~options.unsafeAll /\ options.names # {}
        /\ command = "create" => options.names # {}
    BY <1>1 DEF Accepted
  <2>2. /\ command = "create" => ~options.allEnv
        /\ options.unsafeAll => Allow(command)
        /\ command # "create" => (options.allEnv => Allow(command)) /\ options.names \subseteq Env
    BY <1>1 DEF SweepInv, AcceptedInv, Accepted, PageAllowed, Chosen
  <2>3. options.unsafeAll \/ B > 0 \/ (~options.allEnv /\ Cardinality(options.names) <= MaxBatch)
    <3>1. ~options.unsafeAll /\ options.allEnv => B > 0
      BY <1>2, <2>2, PolicyAssumption DEF B, Batch
    <3>2. ~options.allEnv => C = options.names
      BY DEF C, Chosen
    <3> QED
      BY <1>2, <3>1, <3>2
  <2>4. B' = B /\ Allow(command)' = Allow(command)
    BY <1>1 DEF B, Allow
  <2> QED
    BY <1>1, <1>2, <2>1, <2>2, <2>3, <2>4 DEF AcceptedInv
<1>6. SweepTypeOK'
  <2>1. B' = B /\ (B > 0 => offset' < Cardinality(Names) + B) /\ offset' \in Nat
    BY <1>1, <1>2, <1>4 DEF B
  <2>2. Batch(command, options)' = B
    BY <2>1 DEF B
  <2>3. {git, handled, target, removed}' \subseteq SUBSET Names
    BY <1>1, <1>3, <1>4 DEF SweepInv, BlastRadius, SweepTypeOK
  <2> QED
    BY <1>1, <1>4, <2>1, <2>2, <2>3 DEF SweepInv, BlastRadius, SweepTypeOK
<1>7. BlastRadius'
  <2>1. ~options.unsafeAll => Cardinality(page') <= MaxBatch
    BY <1>2, <1>4, PageSize, PolicyAssumption
  <2> QED
    BY <1>1, <1>6, <2>1 DEF BlastRadius
<1>8. ~Shrinking => C' = C
  BY <1>1, <1>3, <1>5 DEF AcceptedInv, Shrinking, C, Chosen, Commands
<1>9. ~Shrinking => \A n \in C : /\ n \in page' => Rank(n, C) < offset'
                                 /\ n \notin page' => Rank(n, C) < offset \/ offset' <= Rank(n, C)
  <2> SUFFICES ASSUME ~Shrinking, NEW n \in C
               PROVE  /\ n \in page' => Rank(n, C) < offset'
                      /\ n \notin page' => Rank(n, C) < offset \/ offset' <= Rank(n, C)
    OBVIOUS
  <2>1. Rank(n, C) \in Nat /\ Rank(n, C) < Cardinality(C)
    BY <1>2, Ranks
  <2>2. CASE B > 0
    BY <1>1, <1>2, <2>1, <2>2 DEF Page
  <2>3. CASE B = 0
    <3>1. Cardinality(C) <= offset + Cardinality(page')
      BY <1>2, <2>3, PageRest
    <3> QED
      BY <1>1, <1>2, <1>4, <2>1, <2>3, <3>1 DEF Page
  <2> QED
    BY <1>2, <2>2, <2>3
<1>10. CoverInv'
  <2>1. CASE Shrinking
    <3>1. offset' = 0 /\ Shrinking'
      BY <1>1, <2>1 DEF Shrinking
    <3>2. C \subseteq handled' \cup C'
      BY <1>1, <2>1 DEF Shrinking, C, Chosen
    <3> QED
      BY <1>1, <2>1, <3>1, <3>2 DEF SweepInv, CoverInv
  <2>2. CASE ~Shrinking
    <3>1. ~Shrinking'
      BY <1>1, <2>2 DEF Shrinking
    <3>2. removed = {} => \A n \in target \ handled' : n \in C /\ offset' <= Rank(n, C)
      <4> SUFFICES ASSUME removed = {}, NEW n \in target \ handled'
                   PROVE  n \in C /\ offset' <= Rank(n, C)
        OBVIOUS
      <4>1. n \in C /\ offset <= Rank(n, C) /\ n \notin page'
        BY <1>1, <2>2 DEF SweepInv, CoverInv
      <4>2. Rank(n, C) \in Nat
        BY <1>2, <4>1, Ranks
      <4> QED
        BY <1>2, <1>9, <2>2, <4>1, <4>2
    <3> QED
      BY <1>1, <1>2, <1>8, <2>2, <3>1, <3>2 DEF SweepInv, CoverInv
  <2> QED
    BY <2>1, <2>2
<1>11. changes = 0 => page' \cap handled = {}
  <2>1. CASE command = "delete"
    BY <1>1, <2>1 DEF SweepInv, OnceInv, NeedsManifest
  <2>2. CASE ~Shrinking
    <3>1. \A n \in page' : n \in C /\ offset <= Rank(n, C) /\ Rank(n, C) \in Nat
      BY <1>2, Ranks DEF Page
    <3> QED
      BY <1>2, <2>2, <3>1 DEF SweepInv, OnceInv
  <2> QED
    BY <2>1, <2>2 DEF Shrinking
<1>12. OnceInv'
  <2> SUFFICES ASSUME changes = 0
               PROVE  /\ command = "delete" => handled' \cap git' = {}
                      /\ ~Shrinking => \A n \in handled' : n \in C /\ Rank(n, C) < offset'
    BY <1>1, <1>8 DEF OnceInv, Shrinking
  <2>1. command = "delete" => handled' \cap git' = {}
    BY <1>1 DEF SweepInv, OnceInv
  <2>2. ASSUME ~Shrinking, NEW n \in handled' PROVE n \in C /\ Rank(n, C) < offset'
    <3>1. CASE n \in page'
      BY <1>2, <1>9, <2>2, <3>1
    <3>2. CASE n \in handled
      <4>1. n \in C /\ Rank(n, C) < offset
        BY <2>2, <3>2 DEF SweepInv, OnceInv
      <4>2. Rank(n, C) \in Nat /\ offset <= offset' /\ offset' \in Nat
        BY <1>1, <1>2, <1>4, <2>2, <4>1, Ranks
      <4> QED
        BY <1>2, <4>1, <4>2
    <3> QED
      BY <1>1, <2>2, <3>1, <3>2
  <2> QED
    BY <2>1, <2>2
<1> QED
  BY <1>5, <1>7, <1>10, <1>11, <1>12 DEF SweepInv

-----------------------------------------------------------------------------
(* The other steps.                                                        *)

\* Nothing but the last state of the operator changes.
LEMMA StopStep ==
  ASSUME SweepInv, state' \in {"running", "refused", "failed"},
         UNCHANGED <<command, options, offset, git, page, handled, target, removed, changes>>
  PROVE  SweepInv'
<1>1. SweepTypeOK'
  BY DEF SweepInv, BlastRadius, SweepTypeOK, Batch
<1>2. B' = B /\ C' = C /\ (Shrinking' <=> Shrinking)
  BY DEF B, C, Shrinking
<1>3. AcceptedInv'
  BY <1>2 DEF SweepInv, AcceptedInv, Allow
<1> QED
  BY <1>1, <1>2, <1>3 DEF SweepInv, BlastRadius, CoverInv, OnceInv

\* Others change one manifest.
LEMMA OthersStep ==
  ASSUME SweepInv, NEW n \in Names,
         \/ git' = git \cup {n} /\ removed' = removed
         \/ git' = git \ {n} /\ removed' = removed \cup {n},
         changes < MaxChanges, changes' = changes + 1,
         UNCHANGED <<command, options, offset, page, handled, state, target>>
  PROVE  SweepInv'
<1>1. /\ git \in SUBSET Names /\ removed \in SUBSET Names /\ options \in Options
      /\ offset \in Nat /\ changes \in 0..MaxChanges
  BY DEF SweepInv, BlastRadius, SweepTypeOK
<1>2. SweepTypeOK'
  <2>1. changes' \in 0..MaxChanges
    BY <1>1, SweepAssumption
  <2>2. {git, handled, target, removed}' \subseteq SUBSET Names
    BY <1>1 DEF SweepInv, BlastRadius, SweepTypeOK
  <2> QED
    BY <2>1, <2>2 DEF SweepInv, BlastRadius, SweepTypeOK, Batch
<1>3. AcceptedInv'
  BY DEF SweepInv, AcceptedInv, B, Allow
<1>4. C \in SUBSET Names /\ C' \in SUBSET Names /\ (Shrinking' <=> Shrinking)
  BY <1>1, NamesAssumption DEF C, Chosen, Options, Shrinking
<1>5. CoverInv'
  <2>1. CASE Shrinking
    <3>1. C \subseteq C' \cup removed'
      BY DEF C, Chosen
    <3> QED
      BY <1>4, <2>1, <3>1 DEF SweepInv, CoverInv
  <2>2. CASE ~Shrinking /\ removed' = {}
    <3>1. removed = {} /\ C \subseteq C'
      BY <2>2 DEF C, Chosen
    <3>2. \A x \in C : Rank(x, C) \in Nat /\ Rank(x, C') \in Nat /\ Rank(x, C) <= Rank(x, C')
      BY <1>4, <3>1, Ranks
    <3> QED
      BY <1>1, <1>4, <2>2, <3>1, <3>2 DEF SweepInv, CoverInv
  <2> QED
    BY <1>4, <2>1, <2>2 DEF CoverInv
<1>6. OnceInv'
  BY <1>1 DEF OnceInv
<1> QED
  BY <1>2, <1>3, <1>5, <1>6 DEF SweepInv, BlastRadius

LEMMA SweepInvStep == SweepInv /\ [SweepNext]_sweepVars => SweepInv'
<1> SUFFICES ASSUME SweepInv, [SweepNext]_sweepVars PROVE SweepInv'
  OBVIOUS
<1>1. CASE Run
  BY <1>1, RunStep
<1>2. CASE Refused \/ Fails
  BY <1>2, StopStep DEF Refused, Fails
<1>3. ASSUME NEW n \in Names, Appear(n) \/ Disappear(n) PROVE SweepInv'
  BY <1>3, OthersStep DEF Appear, Disappear
<1>4. CASE UNCHANGED sweepVars
  BY <1>4, StopStep DEF sweepVars, SweepInv, BlastRadius, SweepTypeOK
<1> QED
  BY <1>1, <1>2, <1>3, <1>4 DEF SweepNext

\* What a refusal of a sweep that has begun means: nothing is left for it.
LEMMA RefusedStep ==
  ASSUME SweepInv, Refused, handled # {}, removed = {} \/ Shrinking
  PROVE  target \ removed \subseteq handled
<1>1. /\ command \in Commands /\ options \in Options /\ git \in SUBSET Names
      /\ offset \in Nat /\ ~Accepted(command, git, options, offset)
  BY DEF SweepInv, BlastRadius, SweepTypeOK, Refused
<1>2. C \in SUBSET Names
  BY <1>1, NamesAssumption DEF C, Chosen, Options
<1>3. Cardinality(C) \in Nat /\ (Cardinality(C) = 0 <=> C = {})
  BY <1>2, Finite, FS_EmptySet
<1>4. C # {} => ~PageAllowed(Cardinality(C), B, offset, options.unsafeAll, Allow(command))
  <2>1. command # "create" => C \subseteq Env
    BY DEF SweepInv, AcceptedInv, C, Chosen
  <2> QED
    BY <1>1, <2>1 DEF SweepInv, AcceptedInv, Accepted, B, C
<1>5. C # {} => Cardinality(C) <= offset
  <2>1. options.unsafeAll \/ B > 0 \/ Cardinality(C) <= MaxBatch
    BY DEF SweepInv, AcceptedInv, C, Chosen
  <2> QED
    BY <1>1, <1>3, <1>4, <2>1 DEF SweepInv, AcceptedInv, PageAllowed
<1>6. CASE Shrinking
  <2>1. C = {}
    BY <1>3, <1>5, <1>6 DEF SweepInv, CoverInv
  <2> QED
    BY <1>6, <2>1 DEF SweepInv, CoverInv
<1>7. CASE ~Shrinking
  <2>1. \A n \in C : Rank(n, C) \in Nat /\ Rank(n, C) < Cardinality(C)
    BY <1>2, Ranks
  <2> QED
    BY <1>1, <1>3, <1>5, <1>7, <2>1 DEF SweepInv, CoverInv
<1> QED
  BY <1>6, <1>7

-----------------------------------------------------------------------------
(* The theorems.                                                           *)

\* The inductive invariant of a sweep.
THEOREM Invariance == SweepSpec => []SweepInv
BY SweepInvInit, SweepInvStep, PTL DEF SweepSpec

\* No run without --unsafe-all works on more than the policy's maximum
\* (applyBatchLimits, selection.go), and the sweep keeps its types.
THEOREM RadiusIsBounded == SweepSpec => []BlastRadius
<1>1. SweepInv => BlastRadius
  BY DEF SweepInv
<1> QED
  BY <1>1, Invariance, PTL

\* A sweep reaches every connector that was there when it began (selectNames and
\* applyBatchLimits, over all pages).
THEOREM SweepReachesAll == SweepSpec => []SweepCovers
<1>1. SweepInit => SweepCovers
  BY DEF SweepInit, SweepCovers
<1>2. SweepInv /\ SweepCovers /\ [SweepNext]_sweepVars => SweepCovers'
  <2> SUFFICES ASSUME SweepInv, SweepCovers, [SweepNext]_sweepVars PROVE SweepCovers'
    OBVIOUS
  <2>1. CASE Refused
    BY <2>1, RefusedStep DEF Refused, SweepCovers, Shrinking
  <2>2. CASE UNCHANGED sweepVars
    BY <2>2 DEF sweepVars, SweepCovers
  <2>3. CASE Run \/ Fails \/ \E n \in Names : Appear(n) \/ Disappear(n)
    BY <2>3 DEF Run, Fails, Appear, Disappear, SweepCovers
  <2> QED
    BY <2>1, <2>2, <2>3 DEF SweepNext
<1> QED
  BY <1>1, <1>2, Invariance, PTL DEF SweepSpec

\* No connector is in two pages (the offset of selection.go:97 counts from a new
\* listing in each run).
THEOREM PagesAreDisjoint == SweepSpec => NoneTwice
<1>1. SweepInv /\ [SweepNext]_sweepVars => [Run /\ changes = 0 => page' \cap handled = {}]_sweepVars
  BY RunStep
<1> QED
  BY <1>1, Invariance, PTL DEF SweepSpec, NoneTwice
=============================================================================
