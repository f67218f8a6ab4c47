------------------------------ MODULE Worktree ------------------------------
(***************************************************************************)
(* Repository.ApplyBatch (internal/repository/mutation.go), step by step:  *)
(* sort, preflight with a backup of every path that will change, apply,    *)
(* and rollback in reverse order when an apply step fails.                 *)
(*                                                                         *)
(* Between any two steps the process can die ("crash"), an I/O operation   *)
(* can fail before the rollback ("io") or in it ("rollback"), and another  *)
(* process can write or remove a manifest (at most MaxEdits paths in one   *)
(* batch).  WriteAtomic is two steps, the read and staging of the          *)
(* temporary file and the rename; the temporary file itself, which no      *)
(* reader of manifests looks at, is left out.                              *)
(***************************************************************************)
EXTENDS Mutations, FiniteSets

CONSTANTS
  Batches,     \* the batches callers can submit
  Faults,      \* which faults can happen: "io", "rollback", "crash"
  MaxEdits,    \* how many paths another process touches during one batch
  NoBackup     \* the path has no entry in the backups map

ASSUME BatchesAssumption  == Batches \subseteq Seq(Mutation)
ASSUME FaultsAssumption   == Faults \subseteq {"io", "rollback", "crash"}
ASSUME MaxEditsAssumption == MaxEdits \in Nat
ASSUME BackupAssumption   == NoBackup \notin Entry

VARIABLES
  tree,         \* the worktree
  batch,        \* the mutations ApplyBatch was called with
  ordered,      \* the sorted copy of batch
  pc,           \* where ApplyBatch is
  i,            \* the index of the loop at pc
  backups,      \* the backups map
  applied,      \* the applied list: the paths changed so far, in order
  firstErr,     \* rollback's variable first
  outcome,      \* what the last ApplyBatch returned
  orig,         \* history: the worktree when ApplyBatch was called
  edited        \* history: the paths another process touched since then

vars == <<tree, batch, ordered, pc, i, backups, applied, firstErr, outcome,
          orig, edited>>

PCs == {"idle", "preflight", "backup", "apply", "rename",
        "rollback", "restore", "chmod"}

TypeOK ==
  /\ tree \in Tree
  /\ batch \in Seq(Mutation)
  /\ ordered \in Seq(Mutation)
  /\ pc \in PCs
  /\ i \in Nat \ {0}
  /\ backups \in [Paths -> Entry \cup {NoBackup}]
  /\ applied \in Seq(Paths)
  /\ firstErr \in {"nil", "error"}
  /\ outcome \in {"none", "pending", "ok", "error", "dirty", "crashed"}
  /\ orig \in Tree
  /\ edited \subseteq Paths

\* sort.SliceStable: a permutation of b in which no element is out of order.
IsOrdering(s, b) ==
  /\ DOMAIN s = DOMAIN b
  /\ \E perm \in [DOMAIN b -> DOMAIN b] :
       /\ \A j, k \in DOMAIN b : perm[j] = perm[k] => j = k
       /\ \A k \in DOMAIN b : \E j \in DOMAIN b : perm[j] = k
       /\ \A j \in DOMAIN b : s[j] = b[perm[j]]
  /\ \A j, k \in DOMAIN b : Before(s[k], s[j]) => k < j

Orderings(b) == {s \in [DOMAIN b -> {b[k] : k \in DOMAIN b}] : IsOrdering(s, b)}

Init ==
  /\ tree \in Tree
  /\ batch = << >>
  /\ ordered = << >>
  /\ pc = "idle"
  /\ i = 1
  /\ backups = [p \in Paths |-> NoBackup]
  /\ applied = << >>
  /\ firstErr = "nil"
  /\ outcome = "none"
  /\ orig = tree
  /\ edited = {}

Start(b) ==
  /\ pc = "idle" /\ outcome = "none"
  /\ batch' = b
  /\ ordered' \in Orderings(b)
  /\ pc' = "preflight"
  /\ i' = 1
  /\ backups' = [p \in Paths |-> NoBackup]
  /\ applied' = << >>
  /\ firstErr' = "nil"
  /\ outcome' = "pending"
  /\ orig' = tree
  /\ edited' = {}
  /\ UNCHANGED tree

\* The mutation of the current iteration.  Its path is inside the repository and its
\* type is one of the two, so that the errors of mutation.go:84-86 and :104-105 do not
\* arise.
m == ordered[i]
path == ordered[i].path

Return(o) == pc' = "idle" /\ outcome' = o

-----------------------------------------------------------------------------
(* The preflight loop.                                                     *)

Duplicate == \E j \in 1..(i - 1) : ordered[j].path = path

Unchanged ==
  /\ pc = "preflight" /\ i <= Len(ordered)
  /\ ~Duplicate
  /\ Plan(tree[path], m) = "unchanged"
  /\ i' = i + 1
  /\ UNCHANGED <<tree, batch, ordered, pc, backups, applied, firstErr,
                 outcome, orig, edited>>

Changed ==
  /\ pc = "preflight" /\ i <= Len(ordered)
  /\ ~Duplicate
  /\ Plan(tree[path], m) = "changed"
  /\ pc' = "backup"
  /\ UNCHANGED <<tree, batch, ordered, i, backups, applied, firstErr,
                 outcome, orig, edited>>

\* captureBackup reads the path again: another process may have changed it.
CaptureBackup ==
  /\ pc = "backup"
  /\ tree[path] # Directory
  /\ backups' = [backups EXCEPT ![path] = tree[path]]
  /\ i' = i + 1
  /\ pc' = "preflight"
  /\ UNCHANGED <<tree, batch, ordered, applied, firstErr, outcome, orig,
                 edited>>

PreflightError ==
  /\ \/ /\ pc = "preflight" /\ i <= Len(ordered)
        /\ Duplicate \/ Plan(tree[path], m) = "error" \/ "io" \in Faults
     \/ /\ pc = "backup"
        /\ tree[path] = Directory \/ "io" \in Faults
  /\ Return("error")
  /\ UNCHANGED <<tree, batch, ordered, i, backups, applied, firstErr, orig,
                 edited>>

PreflightDone ==
  /\ pc = "preflight" /\ i > Len(ordered)
  /\ pc' = "apply"
  /\ i' = 1
  /\ UNCHANGED <<tree, batch, ordered, backups, applied, firstErr, outcome,
                 orig, edited>>

-----------------------------------------------------------------------------
(* The apply loop.                                                         *)

NextMutation == i' = i + 1 /\ pc' = "apply"

SkipUnchanged ==
  /\ pc = "apply" /\ i <= Len(ordered)
  /\ backups[path] = NoBackup
  /\ NextMutation
  /\ UNCHANGED <<tree, batch, ordered, backups, applied, firstErr, outcome,
                 orig, edited>>

\* WriteAtomic finds the content it is about to write: it returns at once.
WriteNothing ==
  /\ pc = "apply" /\ i <= Len(ordered)
  /\ backups[path] # NoBackup
  /\ m.type = "write" /\ Same(tree[path], m.content)
  /\ applied' = Append(applied, path)
  /\ NextMutation
  /\ UNCHANGED <<tree, batch, ordered, backups, firstErr, outcome, orig,
                 edited>>

\* Mutant of StageWrite: the manifest is truncated and rewritten in place.
StageWriteTruncating ==
  /\ pc = "apply" /\ i <= Len(ordered)
  /\ backups[path] # NoBackup
  /\ m.type = "write"
  /\ tree[path] # Directory /\ ~Same(tree[path], m.content)
  /\ tree' = [tree EXCEPT ![path] = Absent]
  /\ pc' = "rename"
  /\ UNCHANGED <<batch, ordered, i, backups, applied, firstErr, outcome, orig,
                 edited>>

\* WriteAtomic, called with overwrite TRUE, stages the temporary file ...
StageWrite ==
  /\ pc = "apply" /\ i <= Len(ordered)
  /\ backups[path] # NoBackup
  /\ m.type = "write"
  /\ tree[path] # Directory /\ ~Same(tree[path], m.content)
  /\ pc' = "rename"
  /\ UNCHANGED <<tree, batch, ordered, i, backups, applied, firstErr,
                 outcome, orig, edited>>

\* ... and renames it over whatever the path holds by then.
RenameWrite ==
  /\ pc = "rename"
  /\ tree[path] # Directory
  /\ tree' = [tree EXCEPT ![path] = Written(m.content)]
  /\ applied' = Append(applied, path)
  /\ NextMutation
  /\ UNCHANGED <<batch, ordered, backups, firstErr, outcome, orig, edited>>

ApplyRemove ==
  /\ pc = "apply" /\ i <= Len(ordered)
  /\ backups[path] # NoBackup
  /\ m.type = "remove" /\ tree[path] \in File
  /\ tree' = [tree EXCEPT ![path] = Absent]
  /\ applied' = Append(applied, path)
  /\ NextMutation
  /\ UNCHANGED <<batch, ordered, backups, firstErr, outcome, orig, edited>>

ApplyError ==
  /\ \/ /\ pc = "apply" /\ i <= Len(ordered)
        /\ backups[path] # NoBackup
        /\ \/ "io" \in Faults
           \/ m.type = "remove" /\ tree[path] = Absent
     \/ /\ pc = "rename"
        /\ "io" \in Faults
  /\ pc' = "rollback"
  /\ UNCHANGED <<tree, batch, ordered, i, backups, applied, firstErr,
                 outcome, orig, edited>>

ApplyDone ==
  /\ pc = "apply" /\ i > Len(ordered)
  /\ Return("ok")
  /\ UNCHANGED <<tree, batch, ordered, i, backups, applied, firstErr, orig,
                 edited>>

-----------------------------------------------------------------------------
(* rollback: the applied paths, last first.                                *)

lastPath == applied[Len(applied)]

Undone == applied' = SubSeq(applied, 1, Len(applied) - 1) /\ pc' = "rollback"

RollbackRemove ==
  /\ pc = "rollback" /\ applied # << >>
  /\ backups[lastPath] = Absent
  /\ tree' = [tree EXCEPT ![lastPath] = Absent]
  /\ Undone
  /\ UNCHANGED <<batch, ordered, i, backups, firstErr, outcome, orig,
                 edited>>

\* os.Remove fails: the error is kept and the next path is rolled back.
RollbackRemoveError ==
  /\ pc = "rollback" /\ applied # << >>
  /\ backups[lastPath] = Absent
  /\ "rollback" \in Faults
  /\ firstErr' = "error"
  /\ Undone
  /\ UNCHANGED <<tree, batch, ordered, i, backups, outcome, orig, edited>>

StageRestore ==
  /\ pc = "rollback" /\ applied # << >>
  /\ backups[lastPath] # Absent
  /\ pc' = IF Same(tree[lastPath], backups[lastPath].content)
           THEN "chmod" ELSE "restore"
  /\ UNCHANGED <<tree, batch, ordered, i, backups, applied, firstErr,
                 outcome, orig, edited>>

\* Mutant of RenameRestore: the permission bits are not restored.
RenameRestoreOnly ==
  /\ pc = "restore"
  /\ tree' = [tree EXCEPT ![lastPath] = Written(backups[lastPath].content)]
  /\ Undone
  /\ UNCHANGED <<batch, ordered, i, backups, firstErr, outcome, orig, edited>>

RenameRestore ==
  /\ pc = "restore"
  /\ tree' = [tree EXCEPT ![lastPath] = Written(backups[lastPath].content)]
  /\ pc' = "chmod"
  /\ UNCHANGED <<batch, ordered, i, backups, applied, firstErr, outcome,
                 orig, edited>>

\* WriteAtomic fails.  The first error skips the chmod; with an error already
\* kept the condition is false and the chmod is tried on the unrestored file.
RestoreError ==
  /\ \/ pc = "rollback" /\ applied # << >> /\ backups[lastPath] # Absent
     \/ pc = "restore"
  /\ "rollback" \in Faults
  /\ IF firstErr # "nil" THEN pc' = "chmod" /\ UNCHANGED <<applied, firstErr>>
                    ELSE firstErr' = "error" /\ Undone
  /\ UNCHANGED <<tree, batch, ordered, i, backups, outcome, orig, edited>>

RestoreMode ==
  /\ pc = "chmod"
  /\ tree[lastPath] \in File
  /\ tree' = [tree EXCEPT ![lastPath].mode = backups[lastPath].mode]
  /\ Undone
  /\ UNCHANGED <<batch, ordered, i, backups, firstErr, outcome, orig,
                 edited>>

RestoreModeError ==
  /\ pc = "chmod"
  /\ tree[lastPath] \notin File \/ "rollback" \in Faults
  /\ firstErr' = "error"
  /\ Undone
  /\ UNCHANGED <<tree, batch, ordered, i, backups, outcome, orig, edited>>

\* Mutant of RollbackDone: the loop over applied stops before index 0.
RollbackDoneEarly ==
  /\ pc = "rollback" /\ Len(applied) <= 1
  /\ Return(IF firstErr # "nil" THEN "dirty" ELSE "error")
  /\ UNCHANGED <<tree, batch, ordered, i, backups, applied, firstErr, orig,
                 edited>>

RollbackDone ==
  /\ pc = "rollback" /\ applied = << >>
  /\ Return(IF firstErr # "nil" THEN "dirty" ELSE "error")
  /\ UNCHANGED <<tree, batch, ordered, i, backups, applied, firstErr, orig,
                 edited>>

-----------------------------------------------------------------------------
(* The environment.                                                        *)

\* The process is killed: nothing records how far the batch had come.
Crash ==
  /\ pc # "idle"
  /\ "crash" \in Faults
  /\ Return("crashed")
  /\ UNCHANGED <<tree, batch, ordered, i, backups, applied, firstErr, orig,
                 edited>>

\* The next command is a new process on the worktree the last one left; it
\* knows nothing of it.
NewProcess ==
  /\ pc = "idle" /\ outcome # "none"
  /\ batch' = << >>
  /\ ordered' = << >>
  /\ i' = 1
  /\ backups' = [p \in Paths |-> NoBackup]
  /\ applied' = << >>
  /\ firstErr' = "nil"
  /\ outcome' = "none"
  /\ orig' = tree
  /\ edited' = {}
  /\ UNCHANGED <<tree, pc>>

\* Another process replaces or removes a manifest while ApplyBatch runs.
Edit(p) ==
  /\ pc # "idle"
  /\ Cardinality(edited \cup {p}) <= MaxEdits
  /\ tree[p] # Directory
  /\ \E f \in (File \cup {Absent}) \ {tree[p]} :
       tree' = [tree EXCEPT ![p] = f]
  /\ edited' = edited \cup {p}
  /\ UNCHANGED <<batch, ordered, pc, i, backups, applied, firstErr, outcome,
                 orig>>

-----------------------------------------------------------------------------
Step ==
  \/ Unchanged \/ Changed \/ CaptureBackup \/ PreflightError \/ PreflightDone
  \/ SkipUnchanged \/ WriteNothing \/ StageWrite \/ RenameWrite
  \/ ApplyRemove \/ ApplyError \/ ApplyDone
  \/ RollbackRemove \/ RollbackRemoveError \/ StageRestore \/ RenameRestore
  \/ RestoreError \/ RestoreMode \/ RestoreModeError \/ RollbackDone

Next ==
  \/ \E b \in Batches : Start(b)
  \/ Step
  \/ Crash
  \/ NewProcess
  \/ \E p \in Paths : Edit(p)

Spec == Init /\ [][Next]_vars

-----------------------------------------------------------------------------
(* Properties.                                                             *)

\* The promise of ApplyBatch's comment, path by path: when it returns nil every
\* path holds what its mutation asks for, and when it returns an error without
\* "rollback also failed" every path is what it was, permission bits included.
\* Only the paths another process touched meanwhile are excepted.
AllOrNothing ==
  \A p \in Paths \ edited :
    /\ outcome = "ok" => tree[p] = Result(orig, batch)[p]
    /\ outcome = "error" => tree[p] = orig[p]

\* Whatever fails and wherever the process dies, in the rollback too, a path
\* nobody else touched holds the old or the new content, never a third one and
\* never nothing where both have something (WriteAtomic renames into place).
OldOrNew ==
  \A p \in Paths \ edited :
    Content(tree[p]) \in {Content(orig[p]), Content(Result(orig, batch)[p])}

\* The comment on the sort: a class change writes the new manifest before it
\* removes the old one, so the connector never vanishes from the worktree, at
\* no moment of the batch, of a rollback without errors or of a crash.
MoveNeverLoses ==
  \A j, k \in DOMAIN batch :
    /\ batch[j].type = "write" /\ batch[k].type = "remove"
    /\ {batch[j].path, batch[k].path} \cap edited = {}
    /\ orig[batch[k].path] \in File
    /\ firstErr = "nil"
    => tree[batch[j].path] \in File \/ tree[batch[k].path] \in File

\* A batch of writes that died half-way can be submitted again: the preflight
\* accepts what the first attempt left behind (same content is "unchanged",
\* even with overwrite disabled) and the second attempt ends where the first
\* would have.  A batch with a removal has no such property.
CrashRestartable ==
  /\ outcome = "crashed" /\ edited = {}
  /\ \A k \in DOMAIN batch : batch[k].type = "write"
  /\ Admissible(orig, batch)
  => /\ Admissible(tree, batch)
     /\ \A p \in Paths : Content(Result(tree, batch)[p])
                            = Content(Result(orig, batch)[p])

\* ApplyBatch implements the atomic batch: callers that look at the worktree when it
\* has returned cannot tell it from one indivisible step, but for paths another
\* process touched, and for a failed rollback or a crash, which happen only where
\* such faults do and leave each path its old or its new content.
Abs == INSTANCE AtomicBatch WITH tree   <- IF pc = "idle" THEN tree ELSE orig,
                                 edited <- IF pc = "idle" THEN edited ELSE {}
AbsSpec == Abs!Spec

-----------------------------------------------------------------------------
(* The inductive invariant.                                                *)

\* How many mutations have passed the preflight.
checked == IF pc \in {"preflight", "backup"} THEN i - 1 ELSE Len(ordered)

\* What every step relies on when it looks at its mutation or its backup.
ShapeInv ==
  /\ pc \in {"preflight", "apply"} => i <= Len(ordered) + 1
  /\ pc \in {"backup", "rename"} => i <= Len(ordered)
  /\ pc = "rename" => m.type = "write" /\ backups[path] # NoBackup
  /\ pc \in {"restore", "chmod"} =>
       applied # << >> /\ backups[lastPath] # Absent
  /\ \A p \in Paths : backups[p] # Directory
  /\ \A x \in DOMAIN applied : backups[applied[x]] # NoBackup

PreflightInv ==
  /\ pc = "backup" => ~Duplicate
  /\ \A j, k \in 1..checked : ordered[j].path = ordered[k].path => j = k
  /\ \A k \in 1..checked : LET p == ordered[k].path IN
       p \notin edited =>
         /\ Plan(orig[p], ordered[k]) # "error"
         /\ backups[p] = IF Plan(orig[p], ordered[k]) = "changed"
                         THEN orig[p] ELSE NoBackup
  /\ \A p \in Paths : (\A k \in 1..checked : ordered[k].path # p)
                        => backups[p] = NoBackup
  /\ pc = "backup" /\ path \notin edited => Plan(orig[path], m) = "changed"

IsApplied(p) == \E x \in DOMAIN applied : applied[x] = p

AppliedInv ==
  /\ pc \in {"preflight", "backup"} => applied = << >>
  /\ \A x \in DOMAIN applied :
       \E k \in DOMAIN ordered : ordered[k].path = applied[x]
  /\ \A x, y \in DOMAIN applied : applied[x] = applied[y] => x = y
  /\ \A x, y \in DOMAIN applied, j, k \in DOMAIN ordered :
       x < y /\ ordered[j].path = applied[x] /\ ordered[k].path = applied[y]
       => j < k
  /\ \A k \in DOMAIN ordered : IsApplied(ordered[k].path) =>
       \A j \in 1..(k - 1) : backups[ordered[j].path] # NoBackup
                             => IsApplied(ordered[j].path)
  /\ pc \in {"apply", "rename"} => \A k \in DOMAIN ordered :
       IsApplied(ordered[k].path) <=> k < i /\ backups[ordered[k].path] # NoBackup
  /\ firstErr # "nil" => pc \in {"rollback", "restore", "chmod"}

\* The entry of a path that is named by ordered[k] and not yet rolled back.
Torn(p, k) == Content(tree[p]) \in {Content(orig[p]),
                                   Content(After(orig[p], ordered[k]))}

TreeInv ==
  \A p \in Paths \ edited :
    /\ ~IsApplied(p) /\ firstErr = "nil" => tree[p] = orig[p]
    /\ ~IsApplied(p) /\ firstErr # "nil" =>
         tree[p] = orig[p]
         \/ \E k \in DOMAIN ordered : ordered[k].path = p /\ Torn(p, k)
    /\ \A k \in DOMAIN ordered : ordered[k].path = p /\ IsApplied(p) =>
         CASE ~(pc = "chmod" /\ p = lastPath) -> tree[p] = After(orig[p], ordered[k])
           [] pc = "chmod" /\ p = lastPath /\ firstErr # "nil" -> Torn(p, k)
           [] OTHER -> tree[p] \in File /\ tree[p].content = orig[p].content

RunningInv ==
  pc # "idle" =>
    /\ IsOrdering(ordered, batch)
    /\ outcome = "pending"
    /\ PreflightInv /\ AppliedInv /\ TreeInv

\* An error of the rollback has a cause.
BlameInv == (firstErr # "nil" /\ pc # "idle") \/ outcome = "dirty"
              => "rollback" \in Faults \/ edited # {}

IInv ==
  /\ TypeOK /\ ShapeInv /\ BlameInv
  /\ Cardinality(edited) <= MaxEdits
  /\ RunningInv
  /\ pc = "idle" => outcome # "pending"
  /\ AllOrNothing /\ OldOrNew /\ MoveNeverLoses
=============================================================================
