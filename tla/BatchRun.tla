------------------------------ MODULE BatchRun ------------------------------
(***************************************************************************)
(* One write command over N selected connectors, from the worker pool to   *)
(* the exit code: runConcurrent and safeItemCall (workflow/worker.go), the *)
(* mutation collector and applyCollectedMutations (mutations.go), Finalize *)
(* and Write (report/report.go) and the tail that ADOPT, CREATE, UPDATE,   *)
(* MIGRATE and DELETE share.                                               *)
(*                                                                         *)
(* An item is the index of its connector name in the sorted selection.     *)
(* What the command does for one item is in other modules; here the call   *)
(* may fail, panic, skip the item, or succeed with or without a change of  *)
(* the worktree.  ApplyBatch is one step (see Worktree).                   *)
(***************************************************************************)
EXTENDS Integers, Sequences, FiniteSets

CONSTANTS
  N,             \* how many connectors are selected
  Concurrency,   \* the requested number of workers
  RollbackFails, \* ApplyBatch may fail and leave a part of its batch behind
  NoWorker       \* nobody holds the collector's mutex

ASSUME NAssumption           == N \in Nat
ASSUME ConcurrencyAssumption == Concurrency \in Int
ASSUME RollbackAssumption    == RollbackFails \in BOOLEAN

\* runConcurrent's clamping of the worker count.
NumWorkers == IF Concurrency < 1 THEN 1
              ELSE IF Concurrency > N /\ N > 0 THEN N ELSE Concurrency
Workers == 1..NumWorkers

ASSUME NoWorkerAssumption == NoWorker \notin Workers

Statuses == {"succeeded", "skipped", "failed"}

Failed    == [status |-> "failed",    changed |-> FALSE]
Skipped   == [status |-> "skipped",   changed |-> FALSE]
Unchanged == [status |-> "succeeded", changed |-> FALSE]
Changed   == [status |-> "succeeded", changed |-> TRUE]
NotApplied == [status |-> "failed",   changed |-> TRUE]

Result == {Failed, Skipped, Unchanged, Changed}   \* what the pool delivers
Item   == Result \cup {NotApplied}                \* what the report shows

VARIABLES
  dryRun,     \* the command runs without --write
  cancelled,  \* the context is done (SIGINT or SIGTERM)
  feeder,     \* the next item to send on jobs; N + 1: all sent; N + 2: closed
  worker,     \* where each worker is
  job,        \* the item a worker holds
  result,     \* the result a worker is about to send
  mutex,      \* the holder of the collector's mutex
  snapshot,   \* the slice a worker read when it took the mutex
  collector,  \* the items whose mutations were collected
  results,    \* the results channel
  main,       \* where the command is after it has started the pool
  items,      \* run.Items
  counts,     \* run.Succeeded, run.Skipped, run.Failed
  applied,    \* the items whose mutations are in the worktree
  applyErr,   \* what applyCollectedMutations returned
  exit        \* what the command returned

poolVars == <<feeder, worker, job, result, mutex, snapshot, collector, results>>
mainVars == <<main, items, counts, applied, applyErr, exit>>
vars == <<dryRun, cancelled, feeder, worker, job, result, mutex, snapshot,
          collector, results, main, items, counts, applied, applyErr, exit>>

Busy == {"check", "call", "lock", "append", "return", "send"}

\* run.Failed and its siblings: Finalize counts the items by status.
Count(it) == [s \in Statuses |-> Cardinality({n \in DOMAIN it : it[n].status = s})]

TypeOK ==
  /\ dryRun \in BOOLEAN
  /\ cancelled \in BOOLEAN
  /\ feeder \in 1..(N + 2)
  /\ worker \in [Workers -> Busy \cup {"recv", "done"}]
  /\ job \in [Workers -> 0..N]
  /\ result \in [Workers -> Result]
  /\ mutex \in Workers \cup {NoWorker}
  /\ snapshot \in [Workers -> SUBSET (1..N)]
  /\ collector \subseteq 1..N
  /\ results \in Seq([item : 1..N, res : Result])
  /\ main \in {"wait", "apply", "report", "exit"}
  /\ DOMAIN items \subseteq 1..N
  /\ \A n \in DOMAIN items : items[n] \in Item
  /\ counts \in [Statuses -> Nat]
  /\ applied \subseteq 1..N
  /\ applyErr \in {"nil", "error"}
  /\ exit \in {"none", "ok", "batch", "apply", "report"}

Init ==
  /\ dryRun \in BOOLEAN
  /\ cancelled = FALSE
  /\ feeder = 1
  /\ worker = [w \in Workers |-> "recv"]
  /\ job = [w \in Workers |-> 0]
  /\ result = [w \in Workers |-> Failed]
  /\ mutex = NoWorker
  /\ snapshot = [w \in Workers |-> {}]
  /\ collector = {}
  /\ results = << >>
  /\ main = "wait"
  /\ items = << >>
  /\ counts = [s \in Statuses |-> 0]
  /\ applied = {}
  /\ applyErr = "nil"
  /\ exit = "none"

\* The signal handler cancels the context; nothing ever revives it.
Cancel ==
  /\ ~cancelled /\ main # "exit"
  /\ cancelled' = TRUE
  /\ UNCHANGED <<dryRun, poolVars, mainVars>>

-----------------------------------------------------------------------------
(* The pool.                                                               *)

Goto(w, l) == worker' = [worker EXCEPT ![w] = l]

\* jobs is unbuffered: the feeder's send and the worker's receive are one step.
Receive(w) ==
  /\ worker[w] = "recv" /\ feeder <= N
  /\ job' = [job EXCEPT ![w] = feeder]
  /\ feeder' = feeder + 1
  /\ Goto(w, "check")
  /\ UNCHANGED <<dryRun, cancelled, result, mutex, snapshot, collector, results, mainVars>>

CloseJobs ==
  /\ feeder = N + 1
  /\ feeder' = N + 2
  /\ UNCHANGED <<dryRun, cancelled, worker, job, result, mutex, snapshot, collector,
                 results, mainVars>>

\* Mutant of Exit: the worker keeps receiving from the closed channel.
ExitNever(w) ==
  /\ worker[w] = "recv" /\ feeder = N + 2
  /\ UNCHANGED vars

\* range over the closed channel ends.
Exit(w) ==
  /\ worker[w] = "recv" /\ feeder = N + 2
  /\ Goto(w, "done")
  /\ UNCHANGED <<dryRun, cancelled, feeder, job, result, mutex, snapshot, collector,
                 results, mainVars>>

\* ctx.Err() is read once, before the item is started.
Check(w) ==
  /\ worker[w] = "check"
  /\ IF cancelled
     THEN result' = [result EXCEPT ![w] = Failed] /\ Goto(w, "send")
     ELSE UNCHANGED result /\ Goto(w, "call")
  /\ UNCHANGED <<dryRun, cancelled, feeder, job, mutex, snapshot, collector, results,
                 mainVars>>

\* The item fails, panics, is skipped or needs no change: nothing is collected.
\* A dry run collects nothing either.
CallWithoutMutation(w) ==
  /\ worker[w] = "call"
  /\ \E r \in {Failed, Skipped, Unchanged} \cup (IF dryRun THEN {Changed} ELSE {}) :
       result' = [result EXCEPT ![w] = r]
  /\ Goto(w, "send")
  /\ UNCHANGED <<dryRun, cancelled, feeder, job, mutex, snapshot, collector, results,
                 mainVars>>

CallWithMutation(w) ==
  /\ worker[w] = "call" /\ ~dryRun
  /\ Goto(w, "lock")
  /\ UNCHANGED <<dryRun, cancelled, feeder, job, result, mutex, snapshot, collector,
                 results, mainVars>>

\* collector.Add: the append reads the slice ...
Lock(w) ==
  /\ worker[w] = "lock" /\ mutex = NoWorker
  /\ mutex' = w
  /\ snapshot' = [snapshot EXCEPT ![w] = collector]
  /\ Goto(w, "append")
  /\ UNCHANGED <<dryRun, cancelled, feeder, job, result, collector, results, mainVars>>

\* ... and stores the longer one.
AddMutation(w) ==
  /\ worker[w] = "append"
  /\ collector' = snapshot[w] \cup {job[w]}
  /\ mutex' = NoWorker
  /\ Goto(w, "return")
  /\ UNCHANGED <<dryRun, cancelled, feeder, job, result, snapshot, results, mainVars>>

\* The item function returns its success, or panics with its mutations already
\* collected (ADOPT reads the status after Add); safeItemCall reports a failure.
Return(w) ==
  /\ worker[w] = "return"
  /\ \E r \in {Changed, Failed} : result' = [result EXCEPT ![w] = r]
  /\ Goto(w, "send")
  /\ UNCHANGED <<dryRun, cancelled, feeder, job, mutex, snapshot, collector, results,
                 mainVars>>

\* results has room for one result an item.
Send(w) ==
  /\ worker[w] = "send" /\ Len(results) < N
  /\ results' = Append(results, [item |-> job[w], res |-> result[w]])
  /\ Goto(w, "recv")
  /\ UNCHANGED <<dryRun, cancelled, feeder, job, result, mutex, snapshot, collector,
                 mainVars>>

-----------------------------------------------------------------------------
(* The command.                                                            *)

\* Mutant of Wait: the results are read as soon as every item was handed out.
WaitForFeeder ==
  /\ main = "wait" /\ feeder = N + 2
  /\ LET done == {results[x].item : x \in DOMAIN results}
         it   == [n \in done |->
                    results[CHOOSE x \in DOMAIN results : results[x].item = n].res]
     IN items' = it /\ counts' = Count(it)
  /\ main' = "apply"
  /\ UNCHANGED <<dryRun, cancelled, poolVars, applied, applyErr, exit>>

\* wg.Wait, the drained results channel and Finalize, which sorts by name.
Wait ==
  /\ main = "wait"
  /\ \A w \in Workers : worker[w] = "done"
  /\ LET done == {results[x].item : x \in DOMAIN results}
         it   == [n \in done |->
                    results[CHOOSE x \in DOMAIN results : results[x].item = n].res]
     IN items' = it /\ counts' = Count(it)
  /\ main' = "apply"
  /\ UNCHANGED <<dryRun, cancelled, poolVars, applied, applyErr, exit>>

\* The items a withheld or failed batch relabels.
Relabel(r) == [n \in DOMAIN items |-> IF items[n] = Changed THEN r ELSE items[n]]

\* A dry run, and a batch without mutations: the worktree is not touched.
ApplyNothing ==
  /\ main = "apply"
  /\ dryRun \/ (counts["failed"] = 0 /\ collector = {})
  /\ main' = "report"
  /\ UNCHANGED <<dryRun, cancelled, poolVars, items, counts, applied, applyErr, exit>>

\* Mutant of Withhold: Finalize is not called again.
WithholdUncounted ==
  /\ main = "apply" /\ ~dryRun
  /\ counts["failed"] > 0
  /\ items' = Relabel(Skipped)
  /\ main' = "report"
  /\ UNCHANGED <<dryRun, cancelled, poolVars, counts, applied, applyErr, exit>>

\* One failed item withholds the changes of all the others.
Withhold ==
  /\ main = "apply" /\ ~dryRun
  /\ counts["failed"] > 0
  /\ items' = Relabel(Skipped)
  /\ counts' = Count(Relabel(Skipped))
  /\ main' = "report"
  /\ UNCHANGED <<dryRun, cancelled, poolVars, applied, applyErr, exit>>

\* Mutant of Apply: a failed item does not withhold the batch.
ApplyRegardless ==
  /\ main = "apply" /\ ~dryRun
  /\ collector # {}
  /\ applied' = collector
  /\ main' = "report"
  /\ UNCHANGED <<dryRun, cancelled, poolVars, items, counts, applyErr, exit>>

Apply ==
  /\ main = "apply" /\ ~dryRun
  /\ counts["failed"] = 0 /\ collector # {}
  /\ applied' = collector
  /\ main' = "report"
  /\ UNCHANGED <<dryRun, cancelled, poolVars, items, counts, applyErr, exit>>

\* ApplyBatch returns an error: the changed items become failed, and keep
\* Changed TRUE.  Nothing is left in the worktree unless the rollback failed.
ApplyError ==
  /\ main = "apply" /\ ~dryRun
  /\ counts["failed"] = 0 /\ collector # {}
  /\ applied' \in IF RollbackFails THEN SUBSET collector ELSE {{}}
  /\ items' = Relabel(NotApplied)
  /\ counts' = Count(Relabel(NotApplied))
  /\ applyErr' = "error"
  /\ main' = "report"
  /\ UNCHANGED <<dryRun, cancelled, poolVars, exit>>

\* Mutant of WriteReport: only the error of the apply decides.
WriteReportOk ==
  /\ main = "report"
  /\ exit' = IF applyErr # "nil" THEN "apply" ELSE "ok"
  /\ main' = "exit"
  /\ UNCHANGED <<dryRun, cancelled, poolVars, items, counts, applied, applyErr>>

\* The report is written, or there is no reports directory to write it to.
WriteReport ==
  /\ main = "report"
  /\ exit' = IF applyErr # "nil" THEN "apply"
             ELSE IF counts["failed"] > 0 THEN "batch" ELSE "ok"
  /\ main' = "exit"
  /\ UNCHANGED <<dryRun, cancelled, poolVars, items, counts, applied, applyErr>>

\* The error of report.Write is returned in place of every other one.
WriteReportError ==
  /\ main = "report"
  /\ exit' = "report"
  /\ main' = "exit"
  /\ UNCHANGED <<dryRun, cancelled, poolVars, items, counts, applied, applyErr>>

\* The process is over.
Terminated == main = "exit" /\ UNCHANGED vars

-----------------------------------------------------------------------------
Work(w) ==
  \/ Receive(w) \/ Exit(w) \/ Check(w) \/ CallWithoutMutation(w)
  \/ CallWithMutation(w) \/ Lock(w) \/ AddMutation(w) \/ Return(w) \/ Send(w)

Finish == Wait \/ ApplyNothing \/ Withhold \/ Apply \/ ApplyError
          \/ WriteReport \/ WriteReportError

Next == Cancel \/ CloseJobs \/ (\E w \in Workers : Work(w)) \/ Finish \/ Terminated

Spec == Init /\ [][Next]_vars

\* The Go scheduler runs every goroutine that can run, and the calls an item
\* makes return (the HTTP client has a timeout, kubectl a context).
Fairness == /\ WF_vars(CloseJobs)
            /\ \A w \in Workers : WF_vars(Work(w))
            /\ WF_vars(Finish)

FairSpec == Spec /\ Fairness

-----------------------------------------------------------------------------
(* Properties.                                                             *)

ResultOf(n, r) == \E x \in DOMAIN results : results[x] = [item |-> n, res |-> r]
ChangedItems   == {n \in 1..N : ResultOf(n, Changed)}
SomeFailed     == \E n \in 1..N : ResultOf(n, Failed)

\* Whatever the workers' interleaving, the cancellation and the panics, the
\* command sees exactly one result for every selected connector: the report
\* can neither lose an item nor count one twice.
ExactlyOnce ==
  main # "wait" =>
    /\ \A n \in 1..N : \E x \in DOMAIN results : results[x].item = n
    /\ \A x, y \in DOMAIN results : results[x].item = results[y].item => x = y

\* When the pool is done the collector holds the mutations of every item that
\* reported a change and of no item that reported anything but a change or a
\* failure: concurrent Adds lose nothing.
CollectorExact ==
  main # "wait" /\ ~dryRun =>
    /\ ChangedItems \subseteq collector
    /\ \A n \in collector : ResultOf(n, Changed) \/ ResultOf(n, Failed)

\* "Every connector in the selected batch must pass" (docs/ARCHITECTURE.md):
\* a worktree that was touched belongs to a write run in which no item failed,
\* panicked or was refused by the cancellation, and unless ApplyBatch failed
\* it holds the changes of all items.
BatchAllOrNothing ==
  applied # {} => /\ ~dryRun /\ ~SomeFailed
                  /\ applyErr = "nil" => applied = ChangedItems

\* The report agrees with the worktree: an item is reported succeeded and
\* changed exactly if its change was applied, and the three totals are those
\* of the items, also after items were relabelled.
ReportTruthful ==
  main \in {"report", "exit"} =>
    /\ DOMAIN items = 1..N
    /\ counts = Count(items)
    /\ ~dryRun => {n \in 1..N : items[n] = Changed}
                  = IF applyErr = "nil" THEN applied ELSE {}

\* What a caller (the Jenkins job) may conclude from the returned error: nil
\* means every item succeeded and, in a write run, every change is applied; a
\* BatchError means nothing was applied.  An error of report.Write means
\* neither: it hides both outcomes.
ExitTruthful ==
  /\ exit = "ok" => ~SomeFailed /\ (~dryRun => applied = ChangedItems)
  /\ exit = "batch" => SomeFailed /\ applied = {}
  /\ exit = "apply" => ~SomeFailed /\ (~RollbackFails => applied = {})

\* The pool neither deadlocks nor waits forever on a channel, the mutex or the
\* WaitGroup: every command returns.
Terminates == <>(main = "exit")

-----------------------------------------------------------------------------
(* The inductive invariant.                                                *)

Holds(w, n) == worker[w] \in Busy /\ job[w] = n
Delivered(n) == \E x \in DOMAIN results : results[x].item = n

\* Every item handed out is held by one worker or delivered once.
PoolInv ==
  /\ \A w \in Workers : worker[w] \in Busy => job[w] \in 1..N /\ job[w] < feeder
  /\ \A v, w \in Workers :
       worker[v] \in Busy /\ worker[w] \in Busy /\ job[v] = job[w] => v = w
  /\ \A x \in DOMAIN results : results[x].item < feeder
  /\ \A x \in DOMAIN results, w \in Workers : ~Holds(w, results[x].item)
  /\ \A x, y \in DOMAIN results : results[x].item = results[y].item => x = y
  /\ \A n \in 1..N : n < feeder => Delivered(n) \/ \E w \in Workers : Holds(w, n)
  /\ \A w \in Workers : worker[w] = "done" => feeder = N + 2
  /\ main # "wait" => \A w \in Workers : worker[w] = "done"

\* An item is collected from its Add on, and stays collected.
CollectorInv ==
  /\ \A w \in Workers : worker[w] = "append" => mutex = w /\ snapshot[w] = collector
  /\ \A w \in Workers : worker[w] = "return" => job[w] \in collector
  /\ \A w \in Workers : worker[w] = "send" /\ result[w] = Changed /\ ~dryRun
                        => job[w] \in collector
  /\ \A x \in DOMAIN results : results[x].res = Changed /\ ~dryRun
                               => results[x].item \in collector
  /\ \A n \in collector :
       \/ \E w \in Workers : /\ job[w] = n
                             /\ \/ worker[w] = "return"
                                \/ worker[w] = "send" /\ result[w] \in {Changed, Failed}
       \/ ResultOf(n, Changed) \/ ResultOf(n, Failed)
  /\ dryRun => /\ collector = {}
               /\ \A w \in Workers : worker[w] \notin {"lock", "append", "return"}

\* What the command knows when it decides, and after that.
MainInv ==
  /\ main = "wait" => items = << >>
  /\ main \in {"wait", "apply"} => applied = {} /\ applyErr = "nil"
  /\ main = "apply" =>
       /\ DOMAIN items = 1..N
       /\ \A x \in DOMAIN results : items[results[x].item] = results[x].res
       /\ counts = Count(items)
  /\ main = "report" =>
       /\ applyErr = "nil" /\ counts["failed"] = 0 =>
            ~SomeFailed /\ (~dryRun => applied = ChangedItems)
       /\ applyErr = "nil" /\ counts["failed"] > 0 => SomeFailed /\ applied = {}
       /\ applyErr = "error" => ~SomeFailed /\ (~RollbackFails => applied = {})
  /\ exit # "none" <=> main = "exit"
  /\ BatchAllOrNothing /\ ReportTruthful /\ ExitTruthful

IInv == TypeOK /\ PoolInv /\ CollectorInv /\ MainInv
=============================================================================
