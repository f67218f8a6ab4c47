---------------------------- MODULE AtomicBatch ----------------------------
(***************************************************************************)
(* What Repository.ApplyBatch promises its callers: a batch of worktree    *)
(* mutations is one indivisible step.  Either every mutation is            *)
(* admissible and all of them take effect, or the batch is refused and     *)
(* the worktree is what it was.                                            *)
(*                                                                         *)
(* The promise is about the paths no other process touched meanwhile       *)
(* ("edited"); those hold anything afterwards, and the batch may have been *)
(* refused or not for what they held.  A rollback can fail only where such *)
(* operations fail or others write, and the process can die: then each     *)
(* other path holds its old content or its new one.                        *)
(***************************************************************************)
EXTENDS Mutations, FiniteSets

CONSTANTS
  Batches,   \* the batches callers can submit
  Faults,    \* which faults can happen: "io", "rollback", "crash"
  MaxEdits   \* how many paths another process touches during one batch

VARIABLES tree, batch, outcome, edited

vars == <<tree, batch, outcome, edited>>

Init == /\ tree \in Tree
        /\ batch = << >>
        /\ outcome = "none"
        /\ edited = {}

Submit(b) == /\ outcome = "none"
             /\ batch' = b
             /\ outcome' = "pending"
             /\ edited' = {}
             /\ UNCHANGED tree

\* The batch ends; others have touched the paths e, and what these hold is open.
End(o, e) ==
  /\ outcome = "pending"
  /\ outcome' = o
  /\ Cardinality(e) <= MaxEdits /\ edited' = e
  /\ tree' \in Tree
  /\ UNCHANGED batch

Commit(e) ==
  /\ End("ok", e)
  /\ NoDuplicates(batch)
  /\ \A k \in DOMAIN batch :
       batch[k].path \notin e => Plan(tree[batch[k].path], batch[k]) # "error"
  /\ \A p \in Paths \ e : tree'[p] = Result(tree, batch)[p]

Refuse(e) == End("error", e) /\ \A p \in Paths \ e : tree'[p] = tree[p]

OldOrNew(e) ==
  \A p \in Paths \ e :
    Content(tree'[p]) \in {Content(tree[p]), Content(Result(tree, batch)[p])}

\* The rollback fails.
Spoil(e) == End("dirty", e) /\ OldOrNew(e) /\ ("rollback" \in Faults \/ e # {})
Crash(e) == End("crashed", e) /\ OldOrNew(e) /\ "crash" \in Faults

\* The next command starts on the worktree the last one left.
NextCommand == /\ outcome \notin {"none", "pending"}
               /\ batch' = << >>
               /\ outcome' = "none"
               /\ edited' = {}
               /\ UNCHANGED tree

Next ==
  \/ \E b \in Batches : Submit(b)
  \/ \E e \in SUBSET Paths : Commit(e) \/ Refuse(e) \/ Spoil(e) \/ Crash(e)
  \/ NextCommand

Spec == Init /\ [][Next]_vars
=============================================================================
