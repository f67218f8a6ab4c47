--------------------------- MODULE BatchRunProofs ---------------------------
(***************************************************************************)
(* Proofs about BatchRun, for every number of connectors and of workers:   *)
(* its invariant IInv is inductive, and what follows from it.              *)
(***************************************************************************)
EXTENDS BatchRun, FiniteSetTheorems, TLAPS

-----------------------------------------------------------------------------
(* The constants and the counting of results.                              *)

LEMMA WorkersFacts == /\ 1 \in Workers
                      /\ NoWorker \notin Workers
BY NAssumption, ConcurrencyAssumption, NoWorkerAssumption DEF Workers, NumWorkers

LEMMA ResultFacts ==
  /\ Failed.status = "failed" /\ Skipped.status = "skipped"
  /\ Unchanged.status = "succeeded" /\ Changed.status = "succeeded"
  /\ NotApplied.status = "failed"
  /\ Changed \notin {Failed, Skipped, Unchanged, NotApplied}
  /\ Failed # Skipped
BY DEF Failed, Skipped, Unchanged, Changed, NotApplied

LEMMA ByStatusFinite ==
  ASSUME NEW it, DOMAIN it \subseteq 1..N, NEW s
  PROVE  IsFiniteSet({n \in DOMAIN it : it[n].status = s})
<1>1. IsFiniteSet(1..N)
  BY NAssumption, FS_Interval
<1>2. {n \in DOMAIN it : it[n].status = s} \subseteq 1..N
  OBVIOUS
<1> QED
  BY <1>1, <1>2, FS_Subset

LEMMA CountType ==
  ASSUME NEW it, DOMAIN it \subseteq 1..N
  PROVE  Count(it) \in [Statuses -> Nat]
<1>1. \A s \in Statuses :
        Cardinality({n \in DOMAIN it : it[n].status = s}) \in Nat
  BY ByStatusFinite, FS_CardinalityType
<1> QED
  BY <1>1 DEF Count

\* The total of failures is 0 exactly if no item failed.
LEMMA CountFailed ==
  ASSUME NEW it, DOMAIN it \subseteq 1..N
  PROVE  /\ Count(it)["failed"] \in Nat
         /\ Count(it)["failed"] = 0
            <=> \A n \in DOMAIN it : it[n].status # "failed"
<1> DEFINE S == {n \in DOMAIN it : it[n].status = "failed"}
<1>1. Count(it)["failed"] = Cardinality(S)
  BY DEF Count, Statuses
<1>2. IsFiniteSet(S)
  BY ByStatusFinite
<1>3. Cardinality(S) = 0 <=> S = {}
  BY <1>2, FS_EmptySet
<1>4. Cardinality(S) \in Nat
  BY <1>2, FS_CardinalityType
<1>5. S = {} <=> \A n \in DOMAIN it : it[n].status # "failed"
  OBVIOUS
<1> QED
  BY <1>1, <1>3, <1>4, <1>5

\* The update of one worker's place.
LEMMA PointUpdate ==
  ASSUME NEW S, NEW T, NEW f \in [S -> T], NEW x \in S, NEW y, NEW g,
         g = [f EXCEPT ![x] = y]
  PROVE  /\ g[x] = y
         /\ \A v \in S : v # x => g[v] = f[v]
         /\ y \in T => g \in [S -> T]
OBVIOUS

\* The results channel after a send.
LEMMA AppendFacts ==
  ASSUME NEW S, NEW s \in Seq(S), NEW e \in S
  PROVE  /\ Append(s, e) \in Seq(S)
         /\ DOMAIN Append(s, e) = DOMAIN s \cup {Len(s) + 1}
         /\ Len(s) + 1 \notin DOMAIN s
         /\ Append(s, e)[Len(s) + 1] = e
         /\ \A x \in DOMAIN s : Append(s, e)[x] = s[x]
OBVIOUS

LEMMA ElementType ==
  ASSUME NEW S, NEW s \in Seq(S), NEW x \in DOMAIN s
  PROVE  s[x] \in S
OBVIOUS

LEMMA ResultTypes ==
  ASSUME TypeOK
  PROVE  \A x \in DOMAIN results :
           /\ results[x].item \in 1..N /\ results[x].res \in Result
           /\ results[x] = [item |-> results[x].item, res |-> results[x].res]
<1> SUFFICES ASSUME NEW x \in DOMAIN results
             PROVE  results[x] \in [item : 1..N, res : Result]
  OBVIOUS
<1>1. results \in Seq([item : 1..N, res : Result]) /\ x \in DOMAIN results
  BY DEF TypeOK
<1> QED
  BY <1>1, ElementType

-----------------------------------------------------------------------------
(* The initial states.                                                     *)

LEMMA InitInv == Init => IInv
<1> SUFFICES ASSUME Init PROVE IInv
  OBVIOUS
<1>1. /\ DOMAIN results = {} /\ DOMAIN items = {}
      /\ results \in Seq([item : 1..N, res : Result])
  BY DEF Init
<1>2. worker \in [Workers -> Busy \cup {"recv", "done"}]
      /\ \A w \in Workers : worker[w] = "recv"
  BY DEF Init
<1>3. TypeOK
  <2>1. counts \in [Statuses -> Nat]
    BY DEF Init
  <2>2. result \in [Workers -> Result]
    BY DEF Init, Result
  <2>3. snapshot \in [Workers -> SUBSET (1..N)]
    BY DEF Init
  <2>4. job \in [Workers -> 0..N]
    BY NAssumption DEF Init
  <2>5. feeder \in 1..(N + 2)
    BY NAssumption DEF Init
  <2> QED
    BY <1>1, <1>2, <2>1, <2>2, <2>3, <2>4, <2>5 DEF TypeOK, Init
<1>4. PoolInv
  BY <1>1, <1>2, NAssumption DEF PoolInv, Busy, Holds, Init
<1>5. CollectorInv
  BY <1>1, <1>2 DEF CollectorInv, Init
<1>6. MainInv
  BY <1>1 DEF MainInv, Init, BatchAllOrNothing, ReportTruthful, ExitTruthful
<1> QED
  BY <1>3, <1>4, <1>5, <1>6 DEF IInv

-----------------------------------------------------------------------------
(* The pool: every item is held by one worker or delivered once.           *)

\* Steps of a worker between its receive and its send, and steps of others.
LEMMA PoolSame ==
  ASSUME PoolInv, UNCHANGED <<feeder, job, results>>,
         \A v \in Workers : worker'[v] \in Busy <=> worker[v] \in Busy,
         \A v \in Workers : worker'[v] = "done" <=> worker[v] = "done",
         main' # "wait" => main # "wait" \/ \A v \in Workers : worker[v] = "done"
  PROVE  PoolInv'
BY DEF PoolInv, Holds, Delivered

LEMMA PoolStep == IInv /\ [Next]_vars => PoolInv'
<1> SUFFICES ASSUME IInv, [Next]_vars PROVE PoolInv'
  OBVIOUS
<1> USE DEF IInv
<1>1. CASE \E w \in Workers : Work(w)
  <2> SUFFICES ASSUME NEW w \in Workers, Work(w) PROVE PoolInv'
    BY <1>1
  <2>1. worker \in [Workers -> Busy \cup {"recv", "done"}] /\ job \in [Workers -> 0..N]
        /\ results \in Seq([item : 1..N, res : Result])
    BY DEF TypeOK
  <2>2. ASSUME NEW l \in Busy, worker[w] \in Busy, Goto(w, l),
               UNCHANGED <<feeder, job, results, main>>
        PROVE  PoolInv'
    <3>1. worker'[w] = l /\ \A v \in Workers : v # w => worker'[v] = worker[v]
      BY <2>1, <2>2, PointUpdate DEF Goto
    <3>2. \A v \in Workers : worker'[v] \in Busy <=> worker[v] \in Busy
      BY <3>1, <2>2
    <3>3. \A v \in Workers : worker'[v] = "done" <=> worker[v] = "done"
      BY <3>1, <2>2 DEF Busy
    <3> QED
      BY <3>2, <3>3, <2>2, PoolSame
  <2>3. CASE Receive(w)
    <3>1. /\ worker'[w] = "check" /\ job'[w] = feeder
          /\ \A v \in Workers : v # w => worker'[v] = worker[v] /\ job'[v] = job[v]
      BY <2>1, <2>3, PointUpdate DEF Receive, Goto
    <3>2. worker[w] = "recv" /\ feeder <= N /\ feeder' = feeder + 1
          /\ feeder \in 1..(N + 2) /\ results' = results /\ main' = main
      BY <2>3 DEF Receive, mainVars, TypeOK
    <3>3. main = "wait"
      BY <3>2 DEF PoolInv
    <3>4. \A v \in Workers : Holds(v, job[v]) => job[v] # feeder
      BY <3>2 DEF PoolInv, Holds
    <3>5. \A v \in Workers, n \in 1..N :
            Holds(v, n)' <=> (v = w /\ n = feeder) \/ (v # w /\ Holds(v, n))
      BY <3>1 DEF Holds, Busy
    <3>6. \A v \in Workers : worker'[v] \in Busy => job'[v] \in 1..N /\ job'[v] < feeder'
      BY <3>1, <3>2, NAssumption DEF PoolInv, Busy
    <3>7. \A u, v \in Workers : worker'[u] \in Busy /\ worker'[v] \in Busy
                                /\ job'[u] = job'[v] => u = v
      BY <3>1, <3>2, NAssumption DEF PoolInv, Busy
    <3>8. \A x \in DOMAIN results, v \in Workers : ~Holds(v, results[x].item)'
      BY <3>1, <3>2, NAssumption DEF PoolInv, Holds
    <3>9. \A n \in 1..N : n < feeder' => Delivered(n)' \/ \E v \in Workers : Holds(v, n)'
      <4> SUFFICES ASSUME NEW n \in 1..N, n < feeder'
                   PROVE  Delivered(n)' \/ \E v \in Workers : Holds(v, n)'
        OBVIOUS
      <4>1. CASE n = feeder
        BY <4>1, <3>5
      <4>2. CASE n < feeder
        <5>1. Delivered(n) \/ \E v \in Workers : Holds(v, n)
          BY <4>2 DEF PoolInv
        <5>2. Delivered(n) => Delivered(n)'
          BY <3>2 DEF Delivered
        <5>3. ~Holds(w, n)
          BY <3>2 DEF Holds, Busy
        <5> QED
          BY <5>1, <5>2, <5>3, <3>5
      <4> QED
        BY <4>1, <4>2, <3>2, NAssumption
    <3>10. \A v \in Workers : worker'[v] = "done" => feeder' = N + 2
      BY <3>1, <3>2, NAssumption DEF PoolInv
    <3>11. \A x \in DOMAIN results : results[x].item < feeder'
      <4>1. \A x \in DOMAIN results : results[x].item < feeder /\ results[x].item \in 1..N
        BY ResultTypes DEF PoolInv
      <4> QED
        BY <4>1, <3>2, NAssumption
    <3>12. \A x, y \in DOMAIN results : results[x].item = results[y].item => x = y
      BY DEF PoolInv
    <3> QED
      BY <3>2, <3>3, <3>6, <3>7, <3>8, <3>9, <3>10, <3>11, <3>12 DEF PoolInv
  <2>4. CASE Exit(w)
    <3>1. /\ worker'[w] = "done"
          /\ \A v \in Workers : v # w => worker'[v] = worker[v]
      BY <2>1, <2>4, PointUpdate DEF Exit, Goto
    <3>2. worker[w] = "recv" /\ feeder = N + 2 /\ UNCHANGED <<feeder, job, results, main>>
      BY <2>4 DEF Exit, mainVars
    <3>3. \A v \in Workers, n \in 1..N : Holds(v, n)' <=> Holds(v, n)
      BY <3>1, <3>2 DEF Holds, Busy
    <3>4. \A v \in Workers : worker'[v] \in Busy <=> worker[v] \in Busy
      BY <3>1, <3>2 DEF Busy
    <3> QED
      BY <3>1, <3>2, <3>4 DEF PoolInv, Holds, Delivered
  <2>5. CASE Check(w)
    <3>1. Goto(w, "send") \/ Goto(w, "call")
      BY <2>5 DEF Check
    <3> QED
      BY <3>1, <2>2, <2>5 DEF Check, Busy, mainVars
  <2>6. CASE CallWithoutMutation(w)
    BY <2>2, <2>6 DEF CallWithoutMutation, Busy, mainVars
  <2>7. CASE CallWithMutation(w)
    BY <2>2, <2>7 DEF CallWithMutation, Busy, mainVars
  <2>8. CASE Lock(w)
    BY <2>2, <2>8 DEF Lock, Busy, mainVars
  <2>9. CASE AddMutation(w)
    BY <2>2, <2>9 DEF AddMutation, Busy, mainVars
  <2>10. CASE Return(w)
    BY <2>2, <2>10 DEF Return, Busy, mainVars
  <2>11. CASE Send(w)
    <3> DEFINE e == [item |-> job[w], res |-> result[w]]
    <3>1. /\ worker'[w] = "recv" /\ worker[w] = "send"
          /\ \A v \in Workers : v # w => worker'[v] = worker[v]
          /\ UNCHANGED <<feeder, job, main>>
          /\ results' = Append(results, e)
      BY <2>1, <2>11, PointUpdate DEF Send, Goto, mainVars
    <3>2. job[w] \in 1..N /\ job[w] < feeder
      BY <3>1 DEF PoolInv, Busy
    <3>3. e \in [item : 1..N, res : Result]
      BY <3>2 DEF TypeOK
    <3>4. /\ DOMAIN results' = DOMAIN results \cup {Len(results) + 1}
          /\ Len(results) + 1 \notin DOMAIN results
          /\ results'[Len(results) + 1].item = job[w]
          /\ \A x \in DOMAIN results : results'[x] = results[x]
      BY <2>1, <3>1, <3>3, AppendFacts
    <3>5. \A v \in Workers, n \in 1..N : Holds(v, n)' <=> v # w /\ Holds(v, n)
      BY <3>1 DEF Holds, Busy
    <3>6. \A v \in Workers : worker'[v] \in Busy => v # w /\ worker[v] \in Busy
      BY <3>1 DEF Busy
    <3>7. \A x \in DOMAIN results : results[x].item # job[w] /\ results[x].item \in 1..N
      <4>1. \A x \in DOMAIN results : ~Holds(w, results[x].item)
        BY DEF PoolInv
      <4> QED
        BY <4>1, <3>1, ResultTypes DEF Holds, Busy
    <3>8. \A v \in Workers : v # w => ~Holds(v, job[w])
      BY <3>1 DEF PoolInv, Holds, Busy
    <3>9. \A n \in 1..N : Delivered(n)' <=> Delivered(n) \/ n = job[w]
      BY <3>4 DEF Delivered
    <3>10. \A x \in DOMAIN results' : results'[x].item < feeder'
      BY <3>1, <3>2, <3>4 DEF PoolInv
    <3>11. \A x \in DOMAIN results', v \in Workers :
             ~(worker'[v] \in Busy /\ job'[v] = results'[x].item)
      <4>1. \A x \in DOMAIN results, v \in Workers :
              ~(worker[v] \in Busy /\ job[v] = results[x].item)
        BY DEF PoolInv, Holds
      <4>2. \A v \in Workers : v # w => ~(worker[v] \in Busy /\ job[v] = job[w])
        BY <3>8 DEF Holds
      <4> QED
        BY <3>1, <3>4, <3>6, <4>1, <4>2
    <3>12. \A x, y \in DOMAIN results' : results'[x].item = results'[y].item => x = y
      BY <3>4, <3>7 DEF PoolInv
    <3>13. \A n \in 1..N : n < feeder' => Delivered(n)' \/ \E v \in Workers : Holds(v, n)'
      <4>1. \A n \in 1..N : Holds(w, n) => n = job[w]
        BY DEF Holds
      <4> QED
        BY <3>1, <3>5, <3>9, <4>1 DEF PoolInv
    <3>14. main = "wait"
      BY <3>1 DEF PoolInv
    <3>15. \A v \in Workers : worker'[v] = "done" => feeder' = N + 2
      BY <3>1 DEF PoolInv
    <3>16. \A v \in Workers : worker'[v] \in Busy => job'[v] \in 1..N /\ job'[v] < feeder'
      BY <3>1, <3>6 DEF PoolInv
    <3>17. \A u, v \in Workers : worker'[u] \in Busy /\ worker'[v] \in Busy
                                 /\ job'[u] = job'[v] => u = v
      BY <3>1, <3>6 DEF PoolInv
    <3> QED
      BY <3>1, <3>10, <3>11, <3>12, <3>13, <3>14, <3>15, <3>16, <3>17 DEF PoolInv, Holds
  <2> QED
    BY <2>3, <2>4, <2>5, <2>6, <2>7, <2>8, <2>9, <2>10, <2>11 DEF Work
<1>2. CASE CloseJobs
  <2>1. /\ feeder = N + 1 /\ feeder' = N + 2
        /\ UNCHANGED <<worker, job, results, main>>
    BY <1>2 DEF CloseJobs, mainVars
  <2>2. \A v \in Workers : worker[v] \in Busy => job[v] \in 1..N /\ job[v] < N + 2
    BY <2>1, NAssumption DEF PoolInv
  <2>3. \A x \in DOMAIN results : results[x].item < N + 2
    BY NAssumption, ResultTypes
  <2>4. \A n \in 1..N : Delivered(n) \/ \E v \in Workers : Holds(v, n)
    BY <2>1, NAssumption DEF PoolInv
  <2> QED
    BY <2>1, <2>2, <2>3, <2>4 DEF PoolInv, Holds, Delivered
<1>3. CASE Finish
  <2>1. UNCHANGED <<feeder, worker, job, results>>
    BY <1>3 DEF Finish, Wait, ApplyNothing, Withhold, Apply, ApplyError,
                WriteReport, WriteReportError, poolVars
  <2>2. main' # "wait" => main # "wait" \/ \A v \in Workers : worker[v] = "done"
    BY <1>3 DEF Finish, Wait, ApplyNothing, Withhold, Apply, ApplyError,
                WriteReport, WriteReportError
  <2> QED
    BY <2>1, <2>2, PoolSame
<1>4. CASE Cancel \/ UNCHANGED vars
  <2>1. UNCHANGED <<feeder, worker, job, results, main>>
    BY <1>4 DEF Cancel, vars, poolVars, mainVars
  <2> QED
    BY <2>1, PoolSame
<1> QED
  BY <1>1, <1>2, <1>3, <1>4 DEF Next, Terminated

-----------------------------------------------------------------------------
(* Type correctness of each step.                                          *)

LEMMA DrainTypes ==
  ASSUME TypeOK, Wait
  PROVE  /\ DOMAIN items' = {results[x].item : x \in DOMAIN results}
         /\ DOMAIN items' \subseteq 1..N
         /\ \A n \in DOMAIN items' : \E x \in DOMAIN results :
              results[x].item = n /\ items'[n] = results[x].res
         /\ counts' = Count(items')
<1> DEFINE done == {results[x].item : x \in DOMAIN results}
           pick(n) == CHOOSE x \in DOMAIN results : results[x].item = n
<1>1. items' = [n \in done |-> results[pick(n)].res] /\ counts' = Count(items')
  BY DEF Wait
<1>2. \A n \in done : pick(n) \in DOMAIN results /\ results[pick(n)].item = n
  OBVIOUS
<1> HIDE DEF pick
<1> QED
  BY <1>1, <1>2, ResultTypes

LEMMA RelabelFacts ==
  ASSUME NEW r
  PROVE  /\ DOMAIN Relabel(r) = DOMAIN items
         /\ \A n \in DOMAIN items :
              Relabel(r)[n] = IF items[n] = Changed THEN r ELSE items[n]
BY DEF Relabel

LEMMA TypeStep == IInv /\ [Next]_vars => TypeOK'
<1> SUFFICES ASSUME IInv, [Next]_vars PROVE TypeOK'
  OBVIOUS
<1>0. TypeOK /\ PoolInv
  BY DEF IInv
<1>1. CASE \E w \in Workers : Work(w)
  <2> SUFFICES ASSUME NEW w \in Workers, Work(w) PROVE TypeOK'
    BY <1>1
  <2>1. /\ worker \in [Workers -> Busy \cup {"recv", "done"}]
        /\ job \in [Workers -> 0..N]
        /\ result \in [Workers -> Result]
        /\ snapshot \in [Workers -> SUBSET (1..N)]
        /\ feeder \in 1..(N + 2)
        /\ results \in Seq([item : 1..N, res : Result])
        /\ mutex \in Workers \cup {NoWorker} /\ collector \subseteq 1..N
    BY <1>0 DEF TypeOK
  <2>2. UNCHANGED mainVars /\ UNCHANGED dryRun /\ UNCHANGED cancelled
    BY DEF Work, Receive, Exit, Check, CallWithoutMutation, CallWithMutation,
           Lock, AddMutation, Return, Send
  <2>3. \A l \in Busy \cup {"recv", "done"} :
          Goto(w, l) => worker' \in [Workers -> Busy \cup {"recv", "done"}]
    BY <2>1, PointUpdate DEF Goto
  <2>4. \A r \in Result : result' = [result EXCEPT ![w] = r]
                          => result' \in [Workers -> Result]
    BY <2>1, PointUpdate
  <2>5. worker[w] \in Busy => job[w] \in 1..N
    BY <1>0 DEF PoolInv
  <2>6. ASSUME worker' \in [Workers -> Busy \cup {"recv", "done"}],
               job' \in [Workers -> 0..N], result' \in [Workers -> Result],
               snapshot' \in [Workers -> SUBSET (1..N)], feeder' \in 1..(N + 2),
               results' \in Seq([item : 1..N, res : Result]),
               mutex' \in Workers \cup {NoWorker}, collector' \subseteq 1..N
        PROVE  TypeOK'
    BY <1>0, <2>2, <2>6 DEF TypeOK, mainVars
  <2>7. CASE Receive(w)
    <3>1. feeder \in 0..N /\ job' = [job EXCEPT ![w] = feeder] /\ feeder' = feeder + 1
      BY <2>1, <2>7 DEF Receive
    <3>2. job' \in [Workers -> 0..N]
      BY <2>1, <3>1, PointUpdate
    <3>3. worker' \in [Workers -> Busy \cup {"recv", "done"}]
      BY <2>3, <2>7 DEF Receive, Busy
    <3> QED
      BY <2>1, <2>6, <2>7, <3>1, <3>2, <3>3, NAssumption DEF Receive
  <2>8. CASE Exit(w)
    <3>1. worker' \in [Workers -> Busy \cup {"recv", "done"}]
      BY <2>3, <2>8 DEF Exit, Busy
    <3> QED
      BY <2>1, <2>6, <2>8, <3>1 DEF Exit
  <2>9. CASE Check(w) \/ CallWithoutMutation(w) \/ CallWithMutation(w) \/ Return(w)
    <3>1. \/ UNCHANGED result
          \/ \E r \in Result : result' = [result EXCEPT ![w] = r]
      BY <2>9 DEF Check, CallWithoutMutation, CallWithMutation, Return, Result
    <3>2. \E l \in Busy : Goto(w, l)
      BY <2>9 DEF Check, CallWithoutMutation, CallWithMutation, Return, Busy
    <3>3. UNCHANGED <<feeder, job, mutex, snapshot, collector, results>>
      BY <2>9 DEF Check, CallWithoutMutation, CallWithMutation, Return
    <3>4. result' \in [Workers -> Result]
      BY <3>1, <2>4, <2>1
    <3>5. worker' \in [Workers -> Busy \cup {"recv", "done"}]
      BY <3>2, <2>3
    <3> QED
      BY <2>1, <2>6, <3>3, <3>4, <3>5
  <2>10. CASE Lock(w)
    <3>1. worker' \in [Workers -> Busy \cup {"recv", "done"}]
      BY <2>3, <2>10 DEF Lock, Busy
    <3>2. snapshot' \in [Workers -> SUBSET (1..N)]
      BY <2>1, <2>10, PointUpdate DEF Lock
    <3> QED
      BY <2>1, <2>6, <2>10, <3>1, <3>2 DEF Lock
  <2>11. CASE AddMutation(w)
    <3>1. worker' \in [Workers -> Busy \cup {"recv", "done"}]
      BY <2>3, <2>11 DEF AddMutation, Busy
    <3>2. snapshot[w] \subseteq 1..N /\ job[w] \in 1..N
      BY <2>1, <2>5, <2>11 DEF AddMutation, Busy
    <3>3. collector' \subseteq 1..N
      BY <3>2, <2>11 DEF AddMutation
    <3> QED
      BY <2>1, <2>6, <2>11, <3>1, <3>3 DEF AddMutation
  <2>12. CASE Send(w)
    <3>1. worker' \in [Workers -> Busy \cup {"recv", "done"}]
      BY <2>3, <2>12 DEF Send, Busy
    <3>2. job[w] \in 1..N /\ result[w] \in Result
      BY <2>1, <2>5, <2>12 DEF Send, Busy
    <3>3. results' \in Seq([item : 1..N, res : Result])
      BY <2>1, <3>2, <2>12, AppendFacts DEF Send
    <3> QED
      BY <2>1, <2>6, <2>12, <3>1, <3>3 DEF Send
  <2> QED
    BY <2>7, <2>8, <2>9, <2>10, <2>11, <2>12 DEF Work
<1>2. CASE CloseJobs
  BY <1>0, <1>2, NAssumption DEF TypeOK, CloseJobs, mainVars
<1>3. CASE Finish
  <2>1. UNCHANGED poolVars /\ UNCHANGED dryRun /\ UNCHANGED cancelled
    BY <1>3 DEF Finish, Wait, ApplyNothing, Withhold, Apply, ApplyError,
                WriteReport, WriteReportError
  <2>2. ASSUME main' \in {"wait", "apply", "report", "exit"},
               DOMAIN items' \subseteq 1..N,
               \A n \in DOMAIN items' : items'[n] \in Item,
               counts' \in [Statuses -> Nat], applied' \subseteq 1..N,
               applyErr' \in {"nil", "error"},
               exit' \in {"none", "ok", "batch", "apply", "report"}
        PROVE  TypeOK'
    BY <1>0, <2>1, <2>2 DEF TypeOK, poolVars
  <2>3. /\ DOMAIN items \subseteq 1..N
        /\ \A n \in DOMAIN items : items[n] \in Item
        /\ counts \in [Statuses -> Nat] /\ applied \subseteq 1..N
        /\ applyErr \in {"nil", "error"} /\ collector \subseteq 1..N
        /\ exit \in {"none", "ok", "batch", "apply", "report"}
    BY <1>0 DEF TypeOK
  <2>4. CASE Wait
    <3>1. /\ DOMAIN items' \subseteq 1..N
          /\ \A n \in DOMAIN items' : items'[n] \in Item
          /\ counts' = Count(items')
      BY <1>0, <2>4, DrainTypes, ResultTypes DEF Item
    <3>2. counts' \in [Statuses -> Nat]
      BY <3>1, CountType
    <3> QED
      BY <2>2, <2>3, <2>4, <3>1, <3>2 DEF Wait
  <2>5. CASE ApplyNothing
    BY <2>2, <2>3, <2>5 DEF ApplyNothing
  <2>6. ASSUME NEW r \in Item, items' = Relabel(r), counts' = Count(Relabel(r))
        PROVE  /\ DOMAIN items' \subseteq 1..N
               /\ \A n \in DOMAIN items' : items'[n] \in Item
               /\ counts' \in [Statuses -> Nat]
    <3>1. DOMAIN items' \subseteq 1..N /\ \A n \in DOMAIN items' : items'[n] \in Item
      BY <2>3, <2>6, RelabelFacts
    <3> QED
      BY <2>6, <3>1, CountType
  <2>7. CASE Withhold
    <3>1. Skipped \in Item
      BY DEF Item, Result
    <3> QED
      BY <2>2, <2>3, <2>6, <2>7, <3>1 DEF Withhold
  <2>8. CASE Apply
    BY <2>2, <2>3, <2>8 DEF Apply
  <2>9. CASE ApplyError
    <3>1. NotApplied \in Item
      BY DEF Item
    <3>2. applied' \subseteq 1..N
      BY <2>3, <2>9 DEF ApplyError
    <3> QED
      BY <2>2, <2>3, <2>6, <2>9, <3>1, <3>2 DEF ApplyError
  <2>10. CASE WriteReport \/ WriteReportError
    BY <2>2, <2>3, <2>10 DEF WriteReport, WriteReportError
  <2> QED
    BY <1>3, <2>4, <2>5, <2>7, <2>8, <2>9, <2>10 DEF Finish
<1>4. CASE Cancel
  BY <1>0, <1>4 DEF TypeOK, Cancel, poolVars, mainVars
<1>5. CASE UNCHANGED vars
  BY <1>0, <1>5 DEF TypeOK, vars
<1> QED
  BY <1>1, <1>2, <1>3, <1>4, <1>5 DEF Next, Terminated

-----------------------------------------------------------------------------
(* The collector: concurrent Adds lose nothing and invent nothing.         *)

\* The evidence for an item of the collector.
Evidence(n, v) == /\ job[v] = n
                  /\ \/ worker[v] = "return"
                     \/ worker[v] = "send" /\ result[v] \in {Changed, Failed}
Reported(n) == ResultOf(n, Changed) \/ ResultOf(n, Failed)

LEMMA CollectorStep == IInv /\ [Next]_vars => CollectorInv'
<1> SUFFICES ASSUME IInv, [Next]_vars PROVE CollectorInv'
  OBVIOUS
<1>0. TypeOK /\ PoolInv /\ CollectorInv
  BY DEF IInv
<1>1. CASE \E w \in Workers : Work(w)
  <2> SUFFICES ASSUME NEW w \in Workers, Work(w) PROVE CollectorInv'
    BY <1>1
  <2>1. /\ worker \in [Workers -> Busy \cup {"recv", "done"}]
        /\ job \in [Workers -> 0..N]
        /\ result \in [Workers -> Result]
        /\ snapshot \in [Workers -> SUBSET (1..N)]
        /\ results \in Seq([item : 1..N, res : Result])
    BY <1>0 DEF TypeOK
  <2>2. \A v \in Workers :
          /\ worker[v] = "append" => mutex = v /\ snapshot[v] = collector
          /\ worker[v] = "return" => job[v] \in collector
          /\ worker[v] = "send" /\ result[v] = Changed /\ ~dryRun => job[v] \in collector
    BY <1>0 DEF CollectorInv
  <2>3. \A x \in DOMAIN results :
          results[x].res = Changed /\ ~dryRun => results[x].item \in collector
    BY <1>0 DEF CollectorInv
  <2>4. \A n \in collector : Reported(n) \/ \E v \in Workers : Evidence(n, v)
    BY <1>0 DEF CollectorInv, Evidence, Reported
  <2>5. dryRun => /\ collector = {}
                  /\ \A v \in Workers : worker[v] \notin {"lock", "append", "return"}
    BY <1>0 DEF CollectorInv
  <2>6. dryRun' = dryRun
    BY DEF Work, Receive, Exit, Check, CallWithoutMutation, CallWithMutation,
           Lock, AddMutation, Return, Send
  \* The worker's new place and the place of the others.
  <2>7. ASSUME NEW l, Goto(w, l)
        PROVE  worker'[w] = l /\ \A v \in Workers : v # w => worker'[v] = worker[v]
    BY <2>1, <2>7, PointUpdate DEF Goto
  \* What has to be shown when nothing is collected or delivered.
  <2>8. ASSUME UNCHANGED <<collector, results>>,
               \A v \in Workers : v # w =>
                 UNCHANGED <<worker[v], job[v], result[v], snapshot[v]>>,
               \A v \in Workers : v # w /\ worker[v] = "append" => mutex' = mutex,
               worker'[w] = "append" => mutex' = w /\ snapshot'[w] = collector,
               worker'[w] = "return" => job'[w] \in collector,
               worker'[w] = "send" /\ result'[w] = Changed /\ ~dryRun
                 => job'[w] \in collector,
               \A n \in 1..N : Evidence(n, w) => Evidence(n, w)',
               dryRun => worker'[w] \notin {"lock", "append", "return"}
        PROVE  CollectorInv'
    <3>1. \A v \in Workers :
            /\ worker'[v] = "append" => mutex' = v /\ snapshot'[v] = collector'
            /\ worker'[v] = "return" => job'[v] \in collector'
            /\ worker'[v] = "send" /\ result'[v] = Changed /\ ~dryRun'
               => job'[v] \in collector'
      BY <2>2, <2>6, <2>8
    <3>2. \A n \in collector : Reported(n)' <=> Reported(n)
      BY <2>8 DEF Reported, ResultOf
    <3>3. \A n \in 1..N, v \in Workers : Evidence(n, v) => Evidence(n, v)'
      BY <2>8 DEF Evidence
    <3>4. \A n \in collector' : Reported(n)' \/ \E v \in Workers : Evidence(n, v)'
      BY <1>0, <2>4, <2>8, <3>2, <3>3 DEF TypeOK
    <3>5. dryRun' => /\ collector' = {}
                     /\ \A v \in Workers : worker'[v] \notin {"lock", "append", "return"}
      BY <2>5, <2>6, <2>8
    <3>6. \A x \in DOMAIN results' : results'[x].res = Changed /\ ~dryRun'
                                     => results'[x].item \in collector'
      BY <2>3, <2>6, <2>8
    <3> QED
      BY <3>1, <3>4, <3>5, <3>6 DEF CollectorInv, Evidence, Reported
  <2>9. CASE Receive(w)
    <3>1. /\ worker[w] = "recv" /\ worker'[w] = "check"
          /\ \A v \in Workers : v # w => worker'[v] = worker[v] /\ job'[v] = job[v]
          /\ UNCHANGED <<collector, results, mutex, result, snapshot>>
      BY <2>1, <2>7, <2>9, PointUpdate DEF Receive
    <3> QED
      BY <2>8, <3>1 DEF Evidence
  <2>10. CASE Exit(w) \/ CallWithMutation(w)
    <3>1. /\ worker[w] \in {"recv", "call"} /\ worker'[w] \in {"done", "lock"}
          /\ \A v \in Workers : v # w => worker'[v] = worker[v]
          /\ UNCHANGED <<collector, results, mutex, result, job, snapshot>>
          /\ dryRun => worker'[w] = "done"
      BY <2>7, <2>10 DEF Exit, CallWithMutation
    <3> QED
      BY <2>8, <3>1 DEF Evidence
  <2>11. CASE Check(w) \/ CallWithoutMutation(w)
    <3>1. /\ worker[w] \in {"check", "call"}
          /\ UNCHANGED <<collector, results, mutex, job, snapshot>>
          /\ \/ worker'[w] = "call" /\ UNCHANGED result
             \/ /\ worker'[w] = "send"
                /\ \E r \in Result : /\ result' = [result EXCEPT ![w] = r]
                                     /\ r = Changed => dryRun
          /\ \A v \in Workers : v # w => worker'[v] = worker[v]
      BY <2>7, <2>11, ResultFacts DEF Check, CallWithoutMutation, Result
    <3>2. /\ \A v \in Workers : v # w => result'[v] = result[v]
          /\ worker'[w] = "send" => (result'[w] = Changed => dryRun)
      BY <2>1, <3>1, PointUpdate
    <3>3. worker'[w] \in {"call", "send"}
      BY <3>1
    <3>5. \A n \in 1..N : ~Evidence(n, w)
      BY <3>1 DEF Evidence
    <3> QED
      BY <2>8, <3>1, <3>2, <3>3, <3>5
  <2>12. CASE Lock(w)
    <3>1. /\ worker[w] = "lock" /\ mutex = NoWorker /\ mutex' = w
          /\ worker'[w] = "append" /\ snapshot'[w] = collector
          /\ \A v \in Workers : v # w => /\ worker'[v] = worker[v]
                                         /\ snapshot'[v] = snapshot[v]
          /\ UNCHANGED <<collector, results, result, job>>
      BY <2>1, <2>7, <2>12, PointUpdate DEF Lock
    <3>2. \A v \in Workers : worker[v] # "append"
      BY <2>2, <3>1, WorkersFacts
    <3>3. ~dryRun
      BY <2>5, <3>1
    <3>4. \A n \in 1..N : ~Evidence(n, w)
      BY <3>1 DEF Evidence
    <3> QED
      BY <2>8, <3>1, <3>2, <3>3, <3>4
  <2>13. CASE AddMutation(w)
    <3>1. /\ worker[w] = "append" /\ worker'[w] = "return"
          /\ collector' = snapshot[w] \cup {job[w]}
          /\ \A v \in Workers : v # w => worker'[v] = worker[v]
          /\ UNCHANGED <<results, result, job, snapshot>>
      BY <2>7, <2>13 DEF AddMutation
    <3>2. collector' = collector \cup {job[w]} /\ ~dryRun
      BY <2>2, <2>5, <3>1
    <3>3. \A v \in Workers : v # w => worker[v] # "append"
      BY <2>2, <3>1
    <3>4. \A n \in 1..N, v \in Workers : Evidence(n, v) => Evidence(n, v)'
      BY <3>1 DEF Evidence
    <3>6. \A n : Reported(n)' <=> Reported(n)
      BY <3>1 DEF Reported, ResultOf
    <3>7. \A n \in collector' : Reported(n)' \/ \E v \in Workers : Evidence(n, v)'
      <4> SUFFICES ASSUME NEW n \in collector'
                   PROVE  Reported(n)' \/ \E v \in Workers : Evidence(n, v)'
        OBVIOUS
      <4>1. CASE n \in collector
        <5>1. n \in 1..N
          BY <1>0, <4>1 DEF TypeOK
        <5> QED
          BY <2>4, <3>4, <3>6, <4>1, <5>1
      <4>2. CASE n = job[w]
        <5>1. job'[w] = n /\ worker'[w] = "return"
          BY <3>1, <4>2
        <5> QED
          BY <5>1 DEF Evidence
      <4> QED
        BY <3>2, <4>1, <4>2
    <3>8. \A v \in Workers :
            /\ worker'[v] = "append" => mutex' = v /\ snapshot'[v] = collector'
            /\ worker'[v] = "return" => job'[v] \in collector'
            /\ worker'[v] = "send" /\ result'[v] = Changed /\ ~dryRun'
               => job'[v] \in collector'
      BY <2>2, <2>6, <3>1, <3>2, <3>3
    <3>9. \A x \in DOMAIN results' : results'[x].res = Changed /\ ~dryRun'
                                     => results'[x].item \in collector'
      BY <2>3, <2>6, <3>1, <3>2
    <3>10. ~dryRun'
      BY <2>6, <3>2
    <3> QED
      BY <3>7, <3>8, <3>9, <3>10 DEF CollectorInv, Evidence, Reported
  <2>14. CASE Return(w)
    <3>1. /\ worker[w] = "return" /\ worker'[w] = "send"
          /\ UNCHANGED <<collector, results, mutex, job, snapshot>>
          /\ \A v \in Workers : v # w => worker'[v] = worker[v] /\ result'[v] = result[v]
          /\ result'[w] \in {Changed, Failed}
      BY <2>1, <2>7, <2>14, PointUpdate DEF Return
    <3>2. job[w] \in collector
      BY <2>2, <3>1
    <3>3. \A n \in 1..N : Evidence(n, w) => Evidence(n, w)'
      BY <3>1 DEF Evidence
    <3> QED
      BY <2>8, <3>1, <3>2, <3>3
  <2>15. CASE Send(w)
    <3> DEFINE e == [item |-> job[w], res |-> result[w]]
    <3>1. /\ worker[w] = "send" /\ worker'[w] = "recv"
          /\ UNCHANGED <<collector, mutex, job, result, snapshot>>
          /\ \A v \in Workers : v # w => worker'[v] = worker[v]
          /\ results' = Append(results, e)
      BY <2>7, <2>15 DEF Send
    <3>2. job[w] \in 1..N /\ result[w] \in Result
      BY <1>0, <2>1, <3>1 DEF PoolInv, Busy
    <3>3. /\ DOMAIN results' = DOMAIN results \cup {Len(results) + 1}
          /\ results'[Len(results) + 1] = e
          /\ \A x \in DOMAIN results : results'[x] = results[x]
      BY <2>1, <3>1, <3>2, AppendFacts
    <3>4. \A n : Reported(n) => Reported(n)'
      BY <3>3 DEF Reported, ResultOf
    <3>5. \A n \in 1..N : Evidence(n, w) => Reported(n)'
      BY <3>1, <3>3 DEF Evidence, Reported, ResultOf
    <3>6. \A n \in 1..N, v \in Workers : v # w /\ Evidence(n, v) => Evidence(n, v)'
      BY <3>1 DEF Evidence
    <3>7. \A n \in collector' : Reported(n)' \/ \E v \in Workers : Evidence(n, v)'
      BY <1>0, <2>4, <3>1, <3>4, <3>5, <3>6 DEF TypeOK
    <3>8. \A v \in Workers :
            /\ worker'[v] = "append" => mutex' = v /\ snapshot'[v] = collector'
            /\ worker'[v] = "return" => job'[v] \in collector'
            /\ worker'[v] = "send" /\ result'[v] = Changed /\ ~dryRun'
               => job'[v] \in collector'
      BY <2>2, <2>6, <3>1
    <3>9. \A x \in DOMAIN results' : results'[x].res = Changed /\ ~dryRun'
                                     => results'[x].item \in collector'
      BY <2>2, <2>3, <2>6, <3>1, <3>3
    <3>10. dryRun' => /\ collector' = {}
                      /\ \A v \in Workers : worker'[v] \notin {"lock", "append", "return"}
      BY <2>5, <2>6, <3>1
    <3> QED
      BY <3>7, <3>8, <3>9, <3>10 DEF CollectorInv, Evidence, Reported
  <2> QED
    BY <2>9, <2>10, <2>11, <2>12, <2>13, <2>14, <2>15 DEF Work
<1>2. CASE ~(\E w \in Workers : Work(w))
  <2>1. UNCHANGED <<dryRun, worker, job, result, mutex, snapshot, collector, results>>
    BY <1>2 DEF Next, CloseJobs, Finish, Wait, ApplyNothing, Withhold, Apply, ApplyError,
                WriteReport, WriteReportError, Cancel, Terminated, poolVars, vars
  <2> QED
    BY <1>0, <2>1 DEF CollectorInv, ResultOf
<1> QED
  BY <1>1, <1>2

-----------------------------------------------------------------------------
(* What the invariant says once the pool is done.                          *)

LEMMA PoolDone ==
  ASSUME IInv, \A w \in Workers : worker[w] = "done"
  PROVE  /\ \A n \in 1..N : Delivered(n)
         /\ \A n \in collector : ResultOf(n, Changed) \/ ResultOf(n, Failed)
         /\ ~dryRun => ChangedItems \subseteq collector
<1>1. feeder = N + 2
  BY WorkersFacts DEF IInv, PoolInv
<1>2. \A n \in 1..N, w \in Workers : ~Holds(w, n)
  BY DEF Holds, Busy
<1>3. \A n \in 1..N : Delivered(n)
  <2>1. \A n \in 1..N : n < N + 2
    BY NAssumption
  <2> QED
    BY <1>1, <1>2, <2>1 DEF IInv, PoolInv
<1>4. \A n \in collector : ResultOf(n, Changed) \/ ResultOf(n, Failed)
  BY DEF IInv, CollectorInv
<1>5. ~dryRun => ChangedItems \subseteq collector
  BY DEF IInv, CollectorInv, ChangedItems, ResultOf
<1> QED
  BY <1>3, <1>4, <1>5

LEMMA ExactlyOnceInv == IInv => ExactlyOnce
BY PoolDone DEF IInv, PoolInv, Delivered, ExactlyOnce

LEMMA CollectorExactInv == IInv => CollectorExact
BY PoolDone DEF IInv, PoolInv, CollectorExact

\* What the command sees when it decides about the batch.
LEMMA Decision ==
  ASSUME IInv, main = "apply"
  PROVE  /\ \A n \in 1..N : items[n] = Changed <=> n \in ChangedItems
         /\ \A n \in 1..N : items[n] = Failed <=> ResultOf(n, Failed)
         /\ \A n \in 1..N : items[n] \in Result
         /\ counts["failed"] \in Nat
         /\ counts["failed"] = 0 <=> ~SomeFailed
         /\ ~dryRun /\ ~SomeFailed => collector = ChangedItems
         /\ ~dryRun => ChangedItems \subseteq collector
<1>1. /\ DOMAIN items = 1..N /\ counts = Count(items)
      /\ \A x \in DOMAIN results : items[results[x].item] = results[x].res
  BY DEF IInv, MainInv
<1>2. \A w \in Workers : worker[w] = "done"
  BY DEF IInv, PoolInv
<1>3. \A n \in 1..N : \E x \in DOMAIN results : results[x].item = n
  BY <1>2, PoolDone DEF Delivered
<1>4. \A x \in DOMAIN results :
        /\ results[x].item \in 1..N /\ results[x].res \in Result
        /\ results[x] = [item |-> results[x].item, res |-> results[x].res]
  BY ResultTypes DEF IInv
<1>5. \A n \in 1..N, r \in Result : items[n] = r <=> ResultOf(n, r)
  <2>1. \A n \in 1..N, r \in Result : ResultOf(n, r) => items[n] = r
    BY <1>1 DEF ResultOf
  <2>2. \A n \in 1..N : ResultOf(n, items[n])
    BY <1>1, <1>3, <1>4 DEF ResultOf
  <2> QED
    BY <2>1, <2>2
<1>6. \A n \in 1..N : items[n] \in Result
  BY <1>1, <1>3, <1>4
<1>7. \A n \in 1..N : items[n].status = "failed" <=> items[n] = Failed
  BY <1>6, ResultFacts DEF Result
<1>8. counts["failed"] \in Nat /\ (counts["failed"] = 0 <=> ~SomeFailed)
  <2>1. counts["failed"] = 0 <=> \A n \in 1..N : items[n].status # "failed"
    BY <1>1, CountFailed
  <2>2. \A n \in 1..N : items[n] = Failed <=> ResultOf(n, Failed)
    BY <1>5 DEF Result
  <2> QED
    BY <1>1, <1>7, <2>1, <2>2, CountFailed DEF SomeFailed
<1>9. \A n \in 1..N : items[n] = Changed <=> n \in ChangedItems
  BY <1>5 DEF ChangedItems, Result
<1>10. \A n \in 1..N : items[n] = Failed <=> ResultOf(n, Failed)
  BY <1>5 DEF Result
<1>11. ~dryRun => ChangedItems \subseteq collector
  BY <1>2, PoolDone
<1>12. ~dryRun /\ ~SomeFailed => collector = ChangedItems
  <2>1. collector \subseteq 1..N
    BY DEF IInv, TypeOK
  <2>2. ~SomeFailed => collector \subseteq ChangedItems
    BY <1>2, <2>1, PoolDone DEF SomeFailed, ChangedItems
  <2> QED
    BY <1>11, <2>2
<1> QED
  BY <1>6, <1>8, <1>9, <1>10, <1>11, <1>12

-----------------------------------------------------------------------------
(* The command: what is applied, reported and returned.                    *)

LEMMA MainStep == IInv /\ [Next]_vars => MainInv'
<1> SUFFICES ASSUME IInv, [Next]_vars PROVE MainInv'
  OBVIOUS
<1>0. TypeOK /\ PoolInv /\ CollectorInv /\ MainInv
  BY DEF IInv
<1>1. CASE (\E w \in Workers : Work(w)) \/ CloseJobs
  <2>1. ~(\A w \in Workers : worker[w] = "done")
    <3>1. CASE CloseJobs
      BY <1>0, <3>1, WorkersFacts, NAssumption DEF CloseJobs, PoolInv
    <3>2. CASE \E w \in Workers : Work(w)
      BY <3>2 DEF Work, Receive, Exit, Check, CallWithoutMutation, CallWithMutation,
                  Lock, AddMutation, Return, Send
    <3> QED
      BY <1>1, <3>1, <3>2
  <2>2. main = "wait" /\ items = << >> /\ applied = {} /\ applyErr = "nil" /\ exit = "none"
    BY <1>0, <2>1 DEF PoolInv, MainInv
  <2>3. UNCHANGED mainVars
    BY <1>1 DEF Work, Receive, Exit, Check, CallWithoutMutation, CallWithMutation,
                Lock, AddMutation, Return, Send, CloseJobs
  <2> QED
    BY <2>2, <2>3 DEF mainVars, MainInv, BatchAllOrNothing, ReportTruthful, ExitTruthful
<1>2. CASE Finish
  <2>1. UNCHANGED poolVars /\ UNCHANGED dryRun
    BY <1>2 DEF Finish, Wait, ApplyNothing, Withhold, Apply, ApplyError,
                WriteReport, WriteReportError
  <2>2. /\ SomeFailed' <=> SomeFailed
        /\ ChangedItems' = ChangedItems
        /\ UNCHANGED <<results, collector, dryRun>>
    BY <2>1 DEF poolVars, SomeFailed, ChangedItems, ResultOf
  <2>3. CASE Wait
    <3>1. /\ \A w \in Workers : worker[w] = "done"
          /\ main = "wait" /\ main' = "apply" /\ UNCHANGED <<applied, applyErr, exit>>
      BY <2>3 DEF Wait
    <3>2. DOMAIN items' = 1..N
      <4>1. \A n \in 1..N : \E x \in DOMAIN results : results[x].item = n
        BY <3>1, PoolDone DEF Delivered
      <4> QED
        BY <1>0, <2>3, <4>1, DrainTypes
    <3>3. \A x \in DOMAIN results : items'[results[x].item] = results[x].res
      <4>1. \A x, y \in DOMAIN results : results[x].item = results[y].item => x = y
        BY <1>0 DEF PoolInv
      <4> QED
        BY <1>0, <2>3, <4>1, DrainTypes
    <3>4. counts' = Count(items')
      BY <1>0, <2>3, DrainTypes
    <3>5. applied' = {} /\ applyErr' = "nil" /\ exit' = "none"
      BY <1>0, <3>1 DEF MainInv
    <3> QED
      BY <2>2, <3>1, <3>2, <3>3, <3>4, <3>5
         DEF MainInv, BatchAllOrNothing, ReportTruthful, ExitTruthful
  <2>4. CASE ApplyNothing \/ Withhold \/ Apply \/ ApplyError
    <3>1. main = "apply" /\ main' = "report" /\ exit' = exit
      BY <2>4 DEF ApplyNothing, Withhold, Apply, ApplyError
    <3>2. /\ \A n \in 1..N : items[n] = Changed <=> n \in ChangedItems
          /\ \A n \in 1..N : items[n] = Failed <=> ResultOf(n, Failed)
          /\ \A n \in 1..N : items[n] \in Result
          /\ counts["failed"] \in Nat
          /\ counts["failed"] = 0 <=> ~SomeFailed
          /\ ~dryRun /\ ~SomeFailed => collector = ChangedItems
          /\ ~dryRun => ChangedItems \subseteq collector
      BY <3>1, Decision
    <3>3. /\ DOMAIN items = 1..N /\ counts = Count(items)
          /\ applied = {} /\ applyErr = "nil" /\ exit = "none"
      BY <1>0, <3>1 DEF MainInv
    <3>4. ChangedItems \subseteq 1..N
      BY DEF ChangedItems
    \* What has to be shown of the state in which the report is written.
    <3>5. ASSUME DOMAIN items' = 1..N, counts' = Count(items'),
                 ~dryRun => {n \in 1..N : items'[n] = Changed}
                            = IF applyErr' = "nil" THEN applied' ELSE {},
                 applyErr' = "nil" /\ counts'["failed"] = 0 =>
                   ~SomeFailed /\ (~dryRun => applied' = ChangedItems),
                 applyErr' = "nil" /\ counts'["failed"] > 0 => SomeFailed /\ applied' = {},
                 applyErr' = "error" => ~SomeFailed /\ (~RollbackFails => applied' = {}),
                 applied' # {} => /\ ~dryRun /\ ~SomeFailed
                                  /\ applyErr' = "nil" => applied' = ChangedItems
          PROVE  MainInv'
      BY <2>2, <3>1, <3>3, <3>5
         DEF MainInv, BatchAllOrNothing, ReportTruthful, ExitTruthful
    <3>6. CASE ApplyNothing
      <4>1. /\ UNCHANGED <<items, counts, applied, applyErr>>
            /\ dryRun \/ (counts["failed"] = 0 /\ collector = {})
        BY <3>6 DEF ApplyNothing
      <4>2. ~dryRun => ChangedItems = {}
        BY <3>2, <4>1
      <4>3. ~dryRun => {n \in 1..N : items[n] = Changed} = {}
        BY <3>2, <4>2
      <4> QED
        BY <3>2, <3>3, <3>5, <4>1, <4>2, <4>3
    <3>7. CASE Withhold
      <4>1. /\ items' = Relabel(Skipped) /\ counts' = Count(items')
            /\ UNCHANGED <<applied, applyErr>> /\ SomeFailed
        BY <3>2, <3>7 DEF Withhold
      <4>2. /\ DOMAIN items' = 1..N
            /\ \A n \in 1..N : items'[n] = IF items[n] = Changed THEN Skipped ELSE items[n]
        BY <3>3, <4>1, RelabelFacts
      <4>3. {n \in 1..N : items'[n] = Changed} = {}
        BY <4>2, ResultFacts
      <4>4. PICK n \in 1..N : items[n] = Failed
        BY <3>2, <4>1 DEF SomeFailed
      <4>5. items'[n].status = "failed"
        BY <4>2, <4>4, ResultFacts
      <4>6. counts'["failed"] # 0
        BY <4>1, <4>2, <4>5, CountFailed
      <4> QED
        BY <3>3, <3>5, <4>1, <4>2, <4>3, <4>6
    <3>8. CASE Apply
      <4>1. /\ UNCHANGED <<items, counts, applyErr>>
            /\ counts["failed"] = 0 /\ applied' = collector /\ ~dryRun
        BY <3>8 DEF Apply
      <4>2. ~SomeFailed /\ applied' = ChangedItems
        BY <3>2, <4>1
      <4>3. {n \in 1..N : items'[n] = Changed} = ChangedItems
        BY <3>2, <3>4, <4>1
      <4> QED
        BY <3>3, <3>5, <4>1, <4>2, <4>3
    <3>9. CASE ApplyError
      <4>1. /\ items' = Relabel(NotApplied) /\ counts' = Count(items')
            /\ applyErr' = "error" /\ ~dryRun /\ ~SomeFailed
            /\ ~RollbackFails => applied' = {}
        BY <3>2, <3>9 DEF ApplyError
      <4>2. /\ DOMAIN items' = 1..N
            /\ \A n \in 1..N : items'[n] = IF items[n] = Changed THEN NotApplied ELSE items[n]
        BY <3>3, <4>1, RelabelFacts
      <4>3. {n \in 1..N : items'[n] = Changed} = {}
        BY <4>2, ResultFacts
      <4> QED
        BY <3>5, <4>1, <4>2, <4>3
    <3> QED
      BY <2>4, <3>6, <3>7, <3>8, <3>9
  <2>5. CASE WriteReport \/ WriteReportError
    <3>1. /\ main = "report" /\ main' = "exit"
          /\ UNCHANGED <<items, counts, applied, applyErr>>
      BY <2>5 DEF WriteReport, WriteReportError
    <3>2. exit' \in {"ok", "batch", "apply", "report"}
      BY <2>5 DEF WriteReport, WriteReportError
    <3>3. ReportTruthful' /\ BatchAllOrNothing'
      BY <1>0, <2>2, <3>1 DEF MainInv, ReportTruthful, BatchAllOrNothing
    <3>4. /\ applyErr = "nil" /\ counts["failed"] = 0 =>
               ~SomeFailed /\ (~dryRun => applied = ChangedItems)
          /\ applyErr = "nil" /\ counts["failed"] > 0 => SomeFailed /\ applied = {}
          /\ applyErr = "error" => ~SomeFailed /\ (~RollbackFails => applied = {})
      BY <1>0, <3>1 DEF MainInv
    <3>5. counts["failed"] \in Nat /\ applyErr \in {"nil", "error"}
      BY <1>0 DEF TypeOK, Statuses
    <3>6. ExitTruthful'
      <4>1. CASE WriteReport
        BY <2>2, <3>1, <3>4, <3>5, <4>1 DEF WriteReport, ExitTruthful
      <4>2. CASE WriteReportError
        BY <4>2 DEF WriteReportError, ExitTruthful
      <4> QED
        BY <2>5, <4>1, <4>2
    <3> QED
      BY <3>1, <3>2, <3>3, <3>6 DEF MainInv
  <2> QED
    BY <1>2, <2>3, <2>4, <2>5 DEF Finish
<1>3. CASE Cancel \/ UNCHANGED vars
  <2>1. /\ UNCHANGED <<dryRun, main, items, counts, applied, applyErr, exit>>
        /\ UNCHANGED <<results, collector>>
    BY <1>3 DEF Cancel, vars, poolVars, mainVars
  <2>2. (SomeFailed' <=> SomeFailed) /\ ChangedItems' = ChangedItems
    BY <2>1 DEF SomeFailed, ChangedItems, ResultOf
  <2> QED
    BY <1>0, <2>1, <2>2 DEF MainInv, BatchAllOrNothing, ReportTruthful, ExitTruthful
<1> QED
  BY <1>1, <1>2, <1>3 DEF Next, Terminated

-----------------------------------------------------------------------------
(* The theorems.                                                           *)

\* IInv holds in every reachable state, whatever the interleaving of the
\* workers, for every number of connectors and every requested concurrency.
THEOREM Invariance == Spec => []IInv
<1>1. IInv /\ [Next]_vars => IInv'
  BY TypeStep, PoolStep, CollectorStep, MainStep DEF IInv
<1> QED
  BY InitInv, <1>1, PTL DEF Spec

THEOREM TypeCorrect == Spec => []TypeOK
<1>1. IInv => TypeOK
  BY DEF IInv
<1> QED
  BY Invariance, <1>1, PTL

\* runConcurrent delivers one result for each selected connector.
THEOREM PoolDeliversExactlyOnce == Spec => []ExactlyOnce
BY Invariance, ExactlyOnceInv, PTL

\* The mutex makes the collector lose no mutation.
THEOREM CollectorIsExact == Spec => []CollectorExact
BY Invariance, CollectorExactInv, PTL

\* A batch with a failed connector changes nothing in the worktree.
THEOREM BatchNeedsEveryItem == Spec => []BatchAllOrNothing
<1>1. IInv => BatchAllOrNothing
  BY DEF IInv, MainInv
<1> QED
  BY Invariance, <1>1, PTL

\* The report agrees with the worktree.
THEOREM ReportIsTruthful == Spec => []ReportTruthful
<1>1. IInv => ReportTruthful
  BY DEF IInv, MainInv
<1> QED
  BY Invariance, <1>1, PTL

\* What the command returns can be relied on.
THEOREM ExitIsTruthful == Spec => []ExitTruthful
<1>1. IInv => ExitTruthful
  BY DEF IInv, MainInv
<1> QED
  BY Invariance, <1>1, PTL
=============================================================================
