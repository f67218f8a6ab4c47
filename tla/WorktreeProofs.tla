--------------------------- MODULE WorktreeProofs ---------------------------
(***************************************************************************)
(* ApplyBatch is all-or-nothing, for every set of paths and contents,      *)
(* every set of batches, every combination of faults and any number of     *)
(* concurrent edits.                                                       *)
(***************************************************************************)
EXTENDS Worktree, FiniteSetTheorems, TLAPS

(***************************************************************************)
(* Facts about one mutation.                                               *)
(***************************************************************************)
\* The fields of a mutation of the batch.
LEMMA MutationFields ==
  ASSUME NEW mm \in Mutation
  PROVE  /\ mm.path \in Paths
         /\ mm.type \in {"write", "remove"}
         /\ mm.type = "write" => mm.content \in Contents
  BY DEF Mutation, WriteMutation, RemoveMutation

\* A written file is a file, with the content it was written with.
LEMMA WrittenFile ==
  ASSUME NEW c \in Contents
  PROVE  Written(c) \in File /\ Written(c).content = c
  BY ModesAssumption DEF Written, File

\* What an admitted mutation leaves, by the answer of its preflight.
LEMMA PlanAfter ==
  ASSUME NEW mm \in Mutation, NEW f \in Entry
  PROVE  /\ Plan(f, mm) \in {"changed", "unchanged", "error"}
         /\ After(f, mm) \in Entry
         /\ Plan(f, mm) = "unchanged" =>
              mm.type = "write" /\ Same(f, mm.content) /\ After(f, mm) = f
         /\ Plan(f, mm) = "changed" =>
              /\ f # Directory
              /\ mm.type = "remove" => f \in File /\ After(f, mm) = Absent
              /\ mm.type = "write" => /\ ~Same(f, mm.content)
                                      /\ After(f, mm) = Written(mm.content)
  <1>1. CASE mm.type = "remove"
    BY <1>1, EntryAssumption DEF Plan, PlanRemove, After, Entry
  <1>2. CASE mm.type = "write"
    <2>1. mm.content \in Contents
      BY <1>2, MutationFields
    <2>2. Written(mm.content) \in Entry
      BY <2>1, WrittenFile DEF Entry
    <2>3. After(f, mm) = IF Same(f, mm.content) THEN f ELSE Written(mm.content)
      BY <1>2 DEF After
    <2>4. /\ Plan(f, mm) \in {"changed", "unchanged", "error"}
          /\ Plan(f, mm) = "unchanged" => Same(f, mm.content)
          /\ Plan(f, mm) = "changed" => f # Directory /\ ~Same(f, mm.content)
      BY <1>2, EntryAssumption DEF Plan, PlanWrite, Same, Entry
    <2> QED
      BY <1>2, <2>2, <2>3, <2>4
  <1> QED
    BY <1>1, <1>2, MutationFields

(***************************************************************************)
(* Type correctness.                                                       *)
(***************************************************************************)
LEMMA CurrentMutation ==
  ASSUME ordered \in Seq(Mutation), i \in Nat \ {0}, i <= Len(ordered)
  PROVE  /\ i \in DOMAIN ordered
         /\ m \in Mutation
         /\ path \in Paths
  <1>1. i \in 1..Len(ordered) /\ DOMAIN ordered = 1..Len(ordered)
    OBVIOUS
  <1>2. ordered[i] \in Mutation
    BY <1>1
  <1> QED
    BY <1>1, <1>2, MutationFields DEF m, path

LEMMA LastApplied ==
  ASSUME applied \in Seq(Paths), applied # << >>
  PROVE  /\ Len(applied) \in DOMAIN applied
         /\ lastPath \in Paths
         /\ SubSeq(applied, 1, Len(applied) - 1) \in Seq(Paths)
         /\ DOMAIN SubSeq(applied, 1, Len(applied) - 1) = 1..(Len(applied) - 1)
         /\ \A x \in 1..(Len(applied) - 1) :
              /\ x \in DOMAIN applied
              /\ SubSeq(applied, 1, Len(applied) - 1)[x] = applied[x]
  BY DEF lastPath

LEMMA TypeInit == Init => TypeOK /\ ShapeInv
  <1> SUFFICES ASSUME Init PROVE TypeOK /\ ShapeInv
    OBVIOUS
  <1>1. << >> \in Seq(Mutation) /\ << >> \in Seq(Paths)
    OBVIOUS
  <1>2. TypeOK
    <2>1. batch \in Seq(Mutation) /\ ordered \in Seq(Mutation)
      BY <1>1, Zenon DEF Init
    <2>2. applied \in Seq(Paths)
      BY <1>1, Zenon DEF Init
    <2>3. backups \in [Paths -> Entry \cup {NoBackup}]
      BY DEF Init
    <2>4. tree \in Tree /\ orig \in Tree /\ edited \subseteq Paths
      BY DEF Init
    <2>5. pc \in PCs /\ i \in Nat \ {0} /\ firstErr \in {"nil", "error"}
      BY DEF Init, PCs
    <2>6. outcome \in {"none", "pending", "ok", "error", "dirty", "crashed"}
      BY DEF Init
    <2> QED
      BY <2>1, <2>2, <2>3, <2>4, <2>5, <2>6, Zenon DEF TypeOK
  <1>3. ShapeInv
    BY BackupAssumption, EntryAssumption DEF Init, ShapeInv, Entry
  <1> QED
    BY <1>2, <1>3

\* One entry of the worktree or of the backups changes, to an entry.
LEMMA PointUpdate ==
  ASSUME NEW f, NEW R, f \in [Paths -> R], NEW p \in Paths, NEW v \in R
  PROVE  /\ [f EXCEPT ![p] = v] \in [Paths -> R]
         /\ [f EXCEPT ![p] = v][p] = v
         /\ \A q \in Paths : q # p => [f EXCEPT ![p] = v][q] = f[q]
  OBVIOUS

\* A path that has a backup and whose backup is not Absent was a file.
LEMMA BackupFile ==
  ASSUME TypeOK, ShapeInv, applied # << >>, backups[lastPath] # Absent
  PROVE  /\ lastPath \in Paths
         /\ backups[lastPath] \in File
         /\ backups[lastPath].content \in Contents
         /\ backups[lastPath].mode \in Modes
  <1>1. lastPath \in Paths /\ Len(applied) \in DOMAIN applied
    BY LastApplied DEF TypeOK
  <1>2. backups[lastPath] \notin {NoBackup, Directory, Absent}
    BY <1>1 DEF ShapeInv, lastPath
  <1>3. backups[lastPath] \in File
    BY <1>1, <1>2 DEF TypeOK, Entry
  <1> QED
    BY <1>1, <1>3 DEF File

\* Replacing the mode of a file gives a file with the same content.
LEMMA ModeUpdate ==
  ASSUME NEW f \in File, NEW v \in Modes
  PROVE  [f EXCEPT !.mode = v] \in File /\ [f EXCEPT !.mode = v].content = f.content
  BY DEF File

\* Every step keeps the types, and with them the facts ShapeInv collects.
LEMMA TypeStep ==
  ASSUME TypeOK, ShapeInv, [Next]_vars
  PROVE  TypeOK' /\ ShapeInv'
  <1> USE DEF Return, NextMutation, Undone
  <1>1. CASE Unchanged
    BY <1>1, CurrentMutation, LastApplied DEF TypeOK, ShapeInv, Unchanged, PCs, m, path, lastPath
  <1>2. CASE Changed
    BY <1>2, CurrentMutation, LastApplied DEF TypeOK, ShapeInv, Changed, PCs, m, path, lastPath
  <1>3. CASE CaptureBackup
    <2>1. path \in Paths /\ tree[path] \in Entry \ {Directory}
      BY <1>3, CurrentMutation DEF TypeOK, Tree, ShapeInv, CaptureBackup
    <2>2. /\ backups' \in [Paths -> Entry \cup {NoBackup}]
          /\ backups'[path] = tree[path]
          /\ \A q \in Paths : q # path => backups'[q] = backups[q]
      BY <1>3, <2>1, PointUpdate DEF TypeOK, CaptureBackup
    <2>3. TypeOK'
      BY <1>3, <2>2 DEF TypeOK, CaptureBackup, PCs
    <2>4. \A q \in Paths : backups'[q] # Directory
      BY <2>1, <2>2 DEF ShapeInv
    <2>5. \A x \in DOMAIN applied' : backups'[applied'[x]] # NoBackup
      <3>1. ASSUME NEW x \in DOMAIN applied
            PROVE  applied[x] \in Paths /\ backups[applied[x]] # NoBackup
        BY DEF TypeOK, ShapeInv
      <3> QED
        BY <1>3, <2>1, <2>2, <3>1, BackupAssumption DEF CaptureBackup
    <2> QED
      BY <1>3, <2>3, <2>4, <2>5 DEF TypeOK, ShapeInv, CaptureBackup
  <1>4. CASE PreflightError
    BY <1>4, CurrentMutation, LastApplied DEF TypeOK, ShapeInv, PreflightError, PCs, m, path, lastPath
  <1>5. CASE PreflightDone
    BY <1>5, CurrentMutation, LastApplied DEF TypeOK, ShapeInv, PreflightDone, PCs, m, path, lastPath
  <1>6. CASE SkipUnchanged
    BY <1>6, CurrentMutation, LastApplied DEF TypeOK, ShapeInv, SkipUnchanged, PCs, m, path, lastPath
  <1>7. CASE WriteNothing
    BY <1>7, CurrentMutation, LastApplied DEF TypeOK, ShapeInv, WriteNothing, PCs, m, path, lastPath
  <1>8. CASE StageWrite
    BY <1>8, CurrentMutation, LastApplied DEF TypeOK, ShapeInv, StageWrite, PCs, m, path, lastPath
  <1>9. CASE RenameWrite
    <2>1. path \in Paths /\ backups[path] # NoBackup /\ Written(m.content) \in Entry
      BY <1>9, CurrentMutation, MutationFields, WrittenFile DEF TypeOK, ShapeInv, RenameWrite, Entry
    <2>2. tree' \in Tree
      BY <1>9, <2>1, PointUpdate DEF TypeOK, Tree, RenameWrite
    <2>3. /\ Append(applied, path) \in Seq(Paths)
          /\ DOMAIN Append(applied, path) = 1..(Len(applied) + 1)
          /\ \A x \in 1..Len(applied) : Append(applied, path)[x] = applied[x]
          /\ Append(applied, path)[Len(applied) + 1] = path
          /\ DOMAIN applied = 1..Len(applied)
      BY <2>1 DEF TypeOK
    <2>4. \A x \in DOMAIN applied' : backups'[applied'[x]] # NoBackup
      BY <1>9, <2>1, <2>3 DEF RenameWrite, ShapeInv, TypeOK
    <2> QED
      BY <1>9, <2>2, <2>3, <2>4 DEF TypeOK, ShapeInv, RenameWrite, PCs
  <1>10. CASE ApplyRemove
    <2>1. path \in Paths /\ backups[path] # NoBackup /\ Absent \in Entry
      BY <1>10, CurrentMutation DEF TypeOK, ShapeInv, ApplyRemove, Entry
    <2>2. tree' \in Tree
      BY <1>10, <2>1, PointUpdate DEF TypeOK, Tree, ApplyRemove
    <2>3. /\ Append(applied, path) \in Seq(Paths)
          /\ DOMAIN Append(applied, path) = 1..(Len(applied) + 1)
          /\ \A x \in 1..Len(applied) : Append(applied, path)[x] = applied[x]
          /\ Append(applied, path)[Len(applied) + 1] = path
          /\ DOMAIN applied = 1..Len(applied)
      BY <2>1 DEF TypeOK
    <2>4. \A x \in DOMAIN applied' : backups'[applied'[x]] # NoBackup
      BY <1>10, <2>1, <2>3 DEF ApplyRemove, ShapeInv, TypeOK
    <2> QED
      BY <1>10, <2>2, <2>3, <2>4 DEF TypeOK, ShapeInv, ApplyRemove, PCs
  <1>11. CASE ApplyError
    BY <1>11, CurrentMutation, LastApplied DEF TypeOK, ShapeInv, ApplyError, PCs, m, path, lastPath
  <1>12. CASE ApplyDone
    BY <1>12, CurrentMutation, LastApplied DEF TypeOK, ShapeInv, ApplyDone, PCs, m, path, lastPath
  <1>13. CASE RollbackRemove
    <2>1. tree' \in Tree
      BY <1>13, LastApplied, PointUpdate DEF TypeOK, Tree, Entry, RollbackRemove
    <2> QED
      BY <1>13, <2>1, LastApplied DEF TypeOK, ShapeInv, RollbackRemove, PCs
  <1>14. CASE RollbackRemoveError
    BY <1>14, CurrentMutation, LastApplied DEF TypeOK, ShapeInv, RollbackRemoveError, PCs, m, path, lastPath
  <1>15. CASE StageRestore
    BY <1>15, CurrentMutation, LastApplied DEF TypeOK, ShapeInv, StageRestore, PCs, m, path, lastPath
  <1>16. CASE RenameRestore
    <2>1. lastPath \in Paths /\ Written(backups[lastPath].content) \in Entry
      BY <1>16, BackupFile, WrittenFile DEF RenameRestore, ShapeInv, Entry
    <2>2. tree' \in Tree
      BY <1>16, <2>1, PointUpdate DEF TypeOK, Tree, RenameRestore
    <2> QED
      BY <1>16, <2>2 DEF TypeOK, ShapeInv, RenameRestore, PCs, lastPath
  <1>17. CASE RestoreError
    BY <1>17, CurrentMutation, LastApplied DEF TypeOK, ShapeInv, RestoreError, PCs, m, path, lastPath
  <1>18. CASE RestoreMode
    <2>1. /\ lastPath \in Paths
          /\ [tree[lastPath] EXCEPT !.mode = backups[lastPath].mode] \in Entry
      BY <1>18, BackupFile, ModeUpdate DEF RestoreMode, ShapeInv, Entry
    <2>2. tree' \in Tree
      BY <1>18, <2>1, PointUpdate DEF TypeOK, Tree, RestoreMode
    <2> QED
      BY <1>18, <2>2, LastApplied DEF TypeOK, ShapeInv, RestoreMode, PCs
  <1>19. CASE RestoreModeError
    BY <1>19, CurrentMutation, LastApplied DEF TypeOK, ShapeInv, RestoreModeError, PCs, m, path, lastPath
  <1>20. CASE RollbackDone
    BY <1>20, CurrentMutation, LastApplied DEF TypeOK, ShapeInv, RollbackDone, PCs, m, path, lastPath
  <1>21. CASE Crash
    BY <1>21, CurrentMutation, LastApplied DEF TypeOK, ShapeInv, Crash, PCs, m, path, lastPath
  <1>22. CASE NewProcess
    <2>1. << >> \in Seq(Mutation) /\ << >> \in Seq(Paths)
      OBVIOUS
    <2>2. batch' \in Seq(Mutation) /\ ordered' \in Seq(Mutation)
      BY <1>22, <2>1, Zenon DEF NewProcess
    <2>3. applied' \in Seq(Paths)
      BY <1>22, <2>1, Zenon DEF NewProcess
    <2>4. backups' \in [Paths -> Entry \cup {NoBackup}]
      BY <1>22 DEF NewProcess
    <2>5. TypeOK'
      BY <1>22, <2>2, <2>3, <2>4 DEF TypeOK, NewProcess
    <2> QED
      BY <1>22, <2>5, BackupAssumption, EntryAssumption
      DEF NewProcess, ShapeInv, Entry
  <1>23. ASSUME NEW b \in Batches, Start(b) PROVE TypeOK' /\ ShapeInv'
    <2>1. b \in Seq(Mutation) /\ << >> \in Seq(Paths)
      BY BatchesAssumption
    <2>2. ordered' \in Seq(Mutation)
      <3>1. ordered' \in [DOMAIN b -> {b[k] : k \in DOMAIN b}]
        BY <1>23 DEF Start, Orderings
      <3>2. DOMAIN b = 1..Len(b) /\ Len(b) \in Nat
        BY <2>1
      <3>3. \A k \in 1..Len(b) : b[k] \in Mutation
        BY <2>1
      <3>4. ordered' \in [1..Len(b) -> Mutation]
        BY <3>1, <3>2, <3>3
      <3> QED
        BY <3>2, <3>4
    <2>3. applied' \in Seq(Paths)
      BY <1>23, <2>1, Zenon DEF Start
    <2>4. backups' \in [Paths -> Entry \cup {NoBackup}]
      BY <1>23 DEF Start
    <2>5. TypeOK'
      BY <1>23, <2>1, <2>2, <2>3, <2>4 DEF TypeOK, Start, PCs
    <2> QED
      BY <1>23, <2>2, <2>5, BackupAssumption, EntryAssumption
      DEF Start, ShapeInv, Entry, TypeOK
  <1>24. ASSUME NEW p \in Paths, Edit(p) PROVE TypeOK' /\ ShapeInv'
    <2>1. tree' \in Tree
      BY <1>24, PointUpdate DEF TypeOK, Tree, Edit, Entry
    <2> QED
      BY <1>24, <2>1 DEF TypeOK, ShapeInv, Edit, m, path, lastPath
  <1>25. CASE UNCHANGED vars
    BY <1>25 DEF vars, TypeOK, ShapeInv, m, path, lastPath
  <1> QED
    BY <1>1, <1>2, <1>3, <1>4, <1>5, <1>6, <1>7, <1>8, <1>9, <1>10, <1>11, <1>12, <1>13, <1>14, <1>15, <1>16, <1>17, <1>18, <1>19, <1>20, <1>21, <1>22, <1>23, <1>24, <1>25 DEF Next, Step

\* ApplyBatch's state is well typed.
THEOREM TypeCorrect == Spec => []TypeOK
  <1>1. TypeOK /\ ShapeInv /\ [Next]_vars => (TypeOK /\ ShapeInv)'
    BY TypeStep
  <1> QED
    BY TypeInit, <1>1, PTL DEF Spec

(***************************************************************************)
(* The applied list grows at its end and shrinks from its end.             *)
(***************************************************************************)
\* Appending the path of the current mutation.
LEMMA AppendApplied ==
  ASSUME TypeOK, ShapeInv, RunningInv, pc \in {"apply", "rename"},
         i <= Len(ordered), backups[path] # NoBackup,
         applied' = Append(applied, path), i' = i + 1, pc' = "apply",
         UNCHANGED <<ordered, backups, firstErr>>
  PROVE  /\ \A p : IsApplied(p)' <=> IsApplied(p) \/ p = path
         /\ AppliedInv'
  <1>1. i \in DOMAIN ordered /\ path \in Paths /\ path = ordered[i].path
    BY CurrentMutation DEF TypeOK, path
  <1>2. /\ DOMAIN ordered = 1..Len(ordered) /\ Len(ordered) \in Nat
        /\ DOMAIN applied = 1..Len(applied) /\ Len(applied) \in Nat
        /\ DOMAIN applied' = 1..(Len(applied) + 1)
        /\ \A x \in 1..Len(applied) : applied'[x] = applied[x]
        /\ applied'[Len(applied) + 1] = path
        /\ i \in Nat
    BY <1>1 DEF TypeOK
  <1>3. \A p : IsApplied(p)' <=> IsApplied(p) \/ p = path
    BY <1>2 DEF IsApplied
  <1>4. \A j, k \in DOMAIN ordered : ordered[j].path = ordered[k].path => j = k
    <2>1. checked = Len(ordered) /\ pc # "idle"
      BY DEF checked
    <2> QED
      BY <1>2, <2>1 DEF RunningInv, PreflightInv
  <1>5. /\ firstErr = "nil"
        /\ \A k \in DOMAIN ordered : IsApplied(ordered[k].path)
             <=> k < i /\ backups[ordered[k].path] # NoBackup
    BY DEF RunningInv, AppliedInv
  <1>6. \A x \in DOMAIN applied :
          \E k \in DOMAIN ordered : ordered[k].path = applied[x] /\ k < i
    BY <1>5 DEF RunningInv, AppliedInv, IsApplied
  <1>7. \A x \in DOMAIN applied' :
          \E k \in DOMAIN ordered : ordered[k].path = applied'[x]
    <2> SUFFICES ASSUME NEW x \in DOMAIN applied'
                 PROVE  \E k \in DOMAIN ordered : ordered[k].path = applied'[x]
      OBVIOUS
    <2>1. CASE x \in DOMAIN applied
      BY <1>2, <1>6, <2>1
    <2>2. CASE x = Len(applied) + 1
      BY <1>1, <1>2, <2>2
    <2> QED
      BY <1>2, <2>1, <2>2
  <1>8. \A x, y \in DOMAIN applied' : applied'[x] = applied'[y] => x = y
    <2>1. \A x \in DOMAIN applied : applied[x] # path
      BY <1>1, <1>2, <1>4, <1>6
    <2> QED
      BY <1>2, <2>1 DEF RunningInv, AppliedInv
  <1>9. \A x, y \in DOMAIN applied', j, k \in DOMAIN ordered :
          x < y /\ ordered[j].path = applied'[x] /\ ordered[k].path = applied'[y]
          => j < k
    <2> SUFFICES ASSUME NEW x \in DOMAIN applied', NEW y \in DOMAIN applied',
                        NEW j \in DOMAIN ordered, NEW k \in DOMAIN ordered,
                        x < y, ordered[j].path = applied'[x],
                        ordered[k].path = applied'[y]
                 PROVE  j < k
      OBVIOUS
    <2>1. CASE y \in DOMAIN applied
      BY <1>2, <2>1 DEF RunningInv, AppliedInv
    <2>2. CASE y = Len(applied) + 1
      BY <1>1, <1>2, <1>4, <1>6, <2>2
    <2> QED
      BY <1>2, <2>1, <2>2
  <1>10. \A k \in DOMAIN ordered : IsApplied(ordered[k].path)'
           <=> k < i + 1 /\ backups[ordered[k].path] # NoBackup
    BY <1>1, <1>2, <1>3, <1>4, <1>5
  <1>11. \A k \in DOMAIN ordered : IsApplied(ordered[k].path)' =>
           \A j \in 1..(k - 1) : backups[ordered[j].path] # NoBackup
                                 => IsApplied(ordered[j].path)'
    BY <1>2, <1>10
  <1> QED
    BY <1>3, <1>5, <1>7, <1>8, <1>9, <1>10, <1>11 DEF AppliedInv

\* Dropping the last path.
LEMMA DropApplied ==
  ASSUME TypeOK, ShapeInv, RunningInv, pc \in {"rollback", "restore", "chmod"},
         applied # << >>, Undone, UNCHANGED <<ordered, backups>>
  PROVE  /\ \A p : IsApplied(p)' <=> IsApplied(p) /\ p # lastPath
         /\ AppliedInv'
  <1> DEFINE n == Len(applied)
  <1>1. /\ n \in Nat \ {0} /\ DOMAIN applied = 1..n
        /\ DOMAIN applied' = 1..(n - 1)
        /\ \A x \in 1..(n - 1) : applied'[x] = applied[x]
        /\ lastPath = applied[n]
        /\ DOMAIN ordered = 1..Len(ordered) /\ Len(ordered) \in Nat
    BY LastApplied DEF TypeOK, Undone, lastPath
  <1>2. AppliedInv
    BY DEF RunningInv
  <1>3. \A x, y \in DOMAIN applied : applied[x] = applied[y] => x = y
    BY <1>2 DEF AppliedInv
  <1>4. \A p : IsApplied(p)' <=> IsApplied(p) /\ p # lastPath
    BY <1>1, <1>3 DEF IsApplied
  <1>5. \A x \in DOMAIN applied' :
          \E k \in DOMAIN ordered : ordered[k].path = applied'[x]
    BY <1>1, <1>2 DEF AppliedInv
  <1>6. \A x, y \in DOMAIN applied' : applied'[x] = applied'[y] => x = y
    BY <1>1, <1>3
  <1>7. \A x, y \in DOMAIN applied', j, k \in DOMAIN ordered :
          x < y /\ ordered[j].path = applied'[x] /\ ordered[k].path = applied'[y]
          => j < k
    BY <1>1, <1>2 DEF AppliedInv
  <1>8. ASSUME NEW k \in DOMAIN ordered, IsApplied(ordered[k].path)',
               NEW j \in 1..(k - 1), backups[ordered[j].path] # NoBackup
        PROVE  IsApplied(ordered[j].path)'
    <2>1. PICK y \in 1..(n - 1) : applied[y] = ordered[k].path
      BY <1>1, <1>8 DEF IsApplied
    <2>2. IsApplied(ordered[j].path)
      BY <1>2, <1>4, <1>8 DEF AppliedInv
    <2>3. ordered[j].path # lastPath
      <3>1. j \in DOMAIN ordered /\ j < k /\ y < n /\ n \in DOMAIN applied
        BY <1>1, <2>1
      <3>2. ordered[j].path = applied[n] => k < j
        <4>1. y \in DOMAIN applied /\ k \in DOMAIN ordered
          BY <1>1, <2>1
        <4> QED
          BY <1>2, <2>1, <3>1, <4>1 DEF AppliedInv
      <3> QED
        BY <1>1, <3>1, <3>2
    <2> QED
      BY <1>4, <2>2, <2>3
  <1> QED
    BY <1>4, <1>5, <1>6, <1>7, <1>8 DEF AppliedInv, Undone

(***************************************************************************)
(* The mutation the apply loop is about to execute.                        *)
(***************************************************************************)
LEMMA ChangedPath ==
  ASSUME TypeOK, ShapeInv, RunningInv, pc \in {"apply", "rename"},
         i <= Len(ordered), backups[path] # NoBackup
  PROVE  /\ path \in Paths /\ i \in DOMAIN ordered /\ m \in Mutation
         /\ path = m.path /\ m = ordered[i]
         /\ firstErr = "nil"
         /\ \A k \in DOMAIN ordered : ordered[k].path = path => k = i
         /\ ~IsApplied(path)
         /\ path \notin edited =>
              /\ tree[path] = orig[path] /\ orig[path] \in Entry
              /\ Plan(orig[path], m) = "changed"
  <1>1. /\ i \in DOMAIN ordered /\ path \in Paths /\ m \in Mutation
        /\ path = ordered[i].path /\ m = ordered[i]
    BY CurrentMutation DEF TypeOK, path, m
  <1>2. DOMAIN ordered = 1..Len(ordered) /\ i \in 1..checked
    BY <1>1 DEF TypeOK, checked
  <1>3. \A k \in DOMAIN ordered : ordered[k].path = path => k = i
    BY <1>1, <1>2 DEF RunningInv, PreflightInv, checked
  <1>4. firstErr = "nil" /\ ~IsApplied(path)
    BY <1>1 DEF RunningInv, AppliedInv, TypeOK
  <1>5. path \notin edited => tree[path] = orig[path] /\ orig[path] \in Entry
    BY <1>1, <1>4 DEF RunningInv, TreeInv, TypeOK, Tree
  <1>6. path \notin edited => Plan(orig[path], m) = "changed"
    BY <1>1, <1>2 DEF RunningInv, PreflightInv
  <1> QED
    BY <1>1, <1>3, <1>4, <1>5, <1>6

(***************************************************************************)
(* The preflight loop moves on, with or without a new backup.              *)
(***************************************************************************)
\* During the preflight nothing has been applied.
LEMMA PreflightTree ==
  ASSUME TypeOK, ShapeInv, RunningInv, pc \in {"preflight", "backup"},
         i <= Len(ordered), ~Duplicate
  PROVE  /\ path \in Paths /\ i \in DOMAIN ordered
         /\ path = ordered[i].path /\ m = ordered[i]
         /\ path \notin edited => tree[path] = orig[path]
         /\ backups[path] = NoBackup
  <1>1. i \in DOMAIN ordered /\ path \in Paths
    BY CurrentMutation DEF TypeOK
  <1>2. path \notin edited => tree[path] = orig[path]
    BY <1>1 DEF RunningInv, TreeInv, AppliedInv, IsApplied
  <1>3. \A k \in 1..checked : ordered[k].path # path
    BY <1>1 DEF checked, Duplicate
  <1>4. backups[path] = NoBackup
    BY <1>1, <1>3 DEF RunningInv, PreflightInv
  <1> QED
    BY <1>1, <1>2, <1>4 DEF path, m

LEMMA PreflightAdvance ==
  ASSUME TypeOK, ShapeInv, RunningInv, pc \in {"preflight", "backup"},
         i <= Len(ordered), ~Duplicate, i' = i + 1, pc' = "preflight",
         UNCHANGED <<ordered, orig, edited>>,
         \A q \in Paths : q # path => backups'[q] = backups[q],
         path \notin edited =>
           /\ Plan(orig[path], m) # "error"
           /\ backups'[path] = IF Plan(orig[path], m) = "changed"
                               THEN orig[path] ELSE NoBackup
  PROVE  PreflightInv'
  <1>1. /\ path \in Paths /\ i \in DOMAIN ordered
        /\ path = ordered[i].path /\ m = ordered[i]
    BY PreflightTree
  <1>2. /\ checked = i - 1 /\ checked' = i /\ i \in Nat \ {0}
        /\ i \in 1..Len(ordered) /\ DOMAIN ordered = 1..Len(ordered)
        /\ \A k \in 1..i : k \in 1..(i - 1) \/ k = i
    BY <1>1 DEF checked, TypeOK
  <1>3. PreflightInv
    BY DEF RunningInv
  <1>4. \A k \in 1..(i - 1) : ordered[k].path # path /\ ordered[k].path \in Paths
    <2>1. \A k \in 1..(i - 1) : ordered[k] \in Mutation
      BY <1>2 DEF TypeOK
    <2> QED
      BY <1>2, <2>1, MutationFields DEF Duplicate
  <1>5. \A j, k \in 1..i : ordered'[j].path = ordered'[k].path => j = k
    BY <1>1, <1>2, <1>3, <1>4 DEF PreflightInv
  <1>6. ASSUME NEW k \in 1..i, ordered[k].path \notin edited
        PROVE  /\ Plan(orig[ordered[k].path], ordered[k]) # "error"
               /\ backups'[ordered[k].path] =
                    IF Plan(orig[ordered[k].path], ordered[k]) = "changed"
                    THEN orig[ordered[k].path] ELSE NoBackup
    <2>1. CASE k = i
      BY <1>1, <1>6, <2>1
    <2>2. CASE k \in 1..(i - 1)
      BY <1>2, <1>3, <1>4, <1>6, <2>2 DEF PreflightInv
    <2> QED
      BY <1>2, <2>1, <2>2
  <1>7. ASSUME NEW p \in Paths, \A k \in 1..i : ordered[k].path # p
        PROVE  backups'[p] = NoBackup
    BY <1>1, <1>2, <1>3, <1>7 DEF PreflightInv
  <1> QED
    BY <1>2, <1>5, <1>6, <1>7 DEF PreflightInv

(***************************************************************************)
(* The worktree after an apply step and after a rollback step.             *)
(***************************************************************************)
LEMMA ApplyTree ==
  ASSUME TypeOK, ShapeInv, RunningInv, pc \in {"apply", "rename"},
         i <= Len(ordered), backups[path] # NoBackup,
         applied' = Append(applied, path), i' = i + 1, pc' = "apply",
         UNCHANGED <<ordered, backups, firstErr, orig, edited>>,
         \A q \in Paths : q # path => tree'[q] = tree[q],
         path \notin edited => tree'[path] = After(orig[path], m)
  PROVE  TreeInv'
  <1>1. \A p : IsApplied(p)' <=> IsApplied(p) \/ p = path
    BY AppendApplied
  <1>2. /\ firstErr = "nil" /\ m = ordered[i]
        /\ \A k \in DOMAIN ordered : ordered[k].path = path => k = i
    BY ChangedPath
  <1> SUFFICES ASSUME NEW p \in Paths \ edited
               PROVE  /\ ~IsApplied(p)' => tree'[p] = orig[p]
                      /\ \A k \in DOMAIN ordered :
                           ordered[k].path = p /\ IsApplied(p)'
                           => tree'[p] = After(orig[p], ordered[k])
    BY <1>2 DEF TreeInv
  <1>3. CASE p = path
    BY <1>1, <1>2, <1>3
  <1>4. CASE p # path
    BY <1>1, <1>2, <1>4 DEF RunningInv, TreeInv
  <1> QED
    BY <1>3, <1>4

\* The path the rollback is about to restore.
LEMMA RollbackPath ==
  ASSUME TypeOK, ShapeInv, RunningInv, pc \in {"rollback", "restore", "chmod"},
         applied # << >>
  PROVE  /\ lastPath \in Paths /\ IsApplied(lastPath)
         /\ \E k \in DOMAIN ordered : ordered[k].path = lastPath
         /\ \A k \in DOMAIN ordered :
              ordered[k].path = lastPath /\ lastPath \notin edited =>
                /\ orig[lastPath] \in Entry
                /\ ordered[k] \in Mutation
                /\ Plan(orig[lastPath], ordered[k]) = "changed"
                /\ backups[lastPath] = orig[lastPath]
                /\ pc # "chmod" => tree[lastPath] = After(orig[lastPath], ordered[k])
                /\ pc # "chmod" \/ firstErr # "nil" => Torn(lastPath, k)
                /\ pc = "chmod" /\ firstErr = "nil" =>
                     /\ tree[lastPath] \in File
                     /\ tree[lastPath].content = orig[lastPath].content
  <1>1. /\ lastPath \in Paths /\ Len(applied) \in DOMAIN applied
        /\ IsApplied(lastPath)
    BY LastApplied DEF TypeOK, IsApplied, lastPath
  <1>2. \E k \in DOMAIN ordered : ordered[k].path = lastPath
    BY <1>1 DEF RunningInv, AppliedInv, lastPath
  <1>3. ASSUME NEW k \in DOMAIN ordered, ordered[k].path = lastPath,
               lastPath \notin edited
        PROVE  /\ orig[lastPath] \in Entry
               /\ ordered[k] \in Mutation
               /\ Plan(orig[lastPath], ordered[k]) = "changed"
               /\ backups[lastPath] = orig[lastPath]
               /\ pc # "chmod" => tree[lastPath] = After(orig[lastPath], ordered[k])
               /\ pc # "chmod" \/ firstErr # "nil" => Torn(lastPath, k)
               /\ pc = "chmod" /\ firstErr = "nil" =>
                    /\ tree[lastPath] \in File
                    /\ tree[lastPath].content = orig[lastPath].content
    <2>1. orig[lastPath] \in Entry /\ ordered[k] \in Mutation
      BY <1>1 DEF TypeOK, Tree
    <2>2. k \in 1..checked
      BY DEF checked, TypeOK
    <2>3. backups[lastPath] # NoBackup
      BY <1>1 DEF ShapeInv, lastPath
    <2>4. /\ Plan(orig[lastPath], ordered[k]) = "changed"
          /\ backups[lastPath] = orig[lastPath]
      BY <1>1, <1>3, <2>2, <2>3 DEF RunningInv, PreflightInv
    <2>5. pc # "chmod" => tree[lastPath] = After(orig[lastPath], ordered[k])
      BY <1>1, <1>3 DEF RunningInv, TreeInv
    <2>6. pc = "chmod" /\ firstErr # "nil" => Torn(lastPath, k)
      BY <1>1, <1>3 DEF RunningInv, TreeInv
    <2>7. pc = "chmod" /\ firstErr = "nil" =>
            /\ tree[lastPath] \in File
            /\ tree[lastPath].content = orig[lastPath].content
      BY <1>1, <1>3 DEF RunningInv, TreeInv
    <2>8. pc # "chmod" => Torn(lastPath, k)
      BY <2>5 DEF Torn
    <2> QED
      BY <2>1, <2>4, <2>5, <2>6, <2>7, <2>8
  <1> QED
    BY <1>1, <1>2, <1>3

LEMMA RollbackTree ==
  ASSUME TypeOK, ShapeInv, RunningInv, pc \in {"rollback", "restore", "chmod"},
         applied # << >>, Undone,
         UNCHANGED <<ordered, backups, orig, edited>>,
         firstErr' = firstErr \/ firstErr' = "error",
         \A q \in Paths : q # lastPath => tree'[q] = tree[q],
         lastPath \notin edited =>
           \/ tree'[lastPath] = orig[lastPath]
           \/ /\ firstErr' # "nil"
              /\ \E k \in DOMAIN ordered :
                   /\ ordered[k].path = lastPath
                   /\ Content(tree'[lastPath]) \in
                        {Content(orig[lastPath]),
                         Content(After(orig[lastPath], ordered[k]))}
  PROVE  TreeInv'
  <1>1. \A p : IsApplied(p)' <=> IsApplied(p) /\ p # lastPath
    BY DropApplied
  <1> SUFFICES ASSUME NEW p \in Paths \ edited
               PROVE  /\ ~IsApplied(p)' =>
                           \/ tree'[p] = orig[p]
                           \/ /\ firstErr' # "nil"
                              /\ \E k \in DOMAIN ordered :
                                   ordered[k].path = p /\ Torn(p, k)'
                      /\ \A k \in DOMAIN ordered :
                           ordered[k].path = p /\ IsApplied(p)'
                           => tree'[p] = After(orig[p], ordered[k])
    BY DEF TreeInv, Undone
  <1>2. CASE p = lastPath
    BY <1>1, <1>2 DEF Torn
  <1>3. CASE p # lastPath
    <2>1. \A k \in DOMAIN ordered : Torn(p, k)' <=> Torn(p, k)
      BY <1>3 DEF Torn
    <2>2. firstErr # "nil" => firstErr' # "nil"
      OBVIOUS
    <2> QED
      BY <1>1, <1>3, <2>1, <2>2 DEF RunningInv, TreeInv
  <1> QED
    BY <1>2, <1>3

\* The content of the path is back, its permission bits are not yet; or an
\* earlier error made the rollback go on to the chmod.
LEMMA ChmodTree ==
  ASSUME TypeOK, ShapeInv, RunningInv, pc \in {"rollback", "restore"},
         applied # << >>, pc' = "chmod",
         UNCHANGED <<ordered, applied, firstErr, orig, edited>>,
         \A q \in Paths : q # lastPath => tree'[q] = tree[q],
         lastPath \notin edited =>
           \/ /\ orig[lastPath] \in File /\ tree'[lastPath] \in File
              /\ tree'[lastPath].content = orig[lastPath].content
           \/ firstErr # "nil" /\ tree'[lastPath] = tree[lastPath]
  PROVE  TreeInv'
  <1>1. lastPath' = lastPath /\ \A p : IsApplied(p)' <=> IsApplied(p)
    BY DEF lastPath, IsApplied
  <1>2. lastPath \in Paths /\ IsApplied(lastPath)
    BY RollbackPath
  <1>3. ASSUME NEW p \in Paths \ edited, p # lastPath
        PROVE  /\ ~IsApplied(p)' /\ firstErr' = "nil" => tree'[p] = orig[p]
               /\ ~IsApplied(p)' /\ firstErr' # "nil" =>
                    \/ tree'[p] = orig[p]
                    \/ \E k \in DOMAIN ordered : ordered[k].path = p /\ Torn(p, k)'
               /\ \A k \in DOMAIN ordered :
                    ordered[k].path = p /\ IsApplied(p)'
                    => tree'[p] = After(orig[p], ordered[k])
    <2>1. \A k \in DOMAIN ordered : Torn(p, k)' <=> Torn(p, k)
      BY <1>3 DEF Torn
    <2> QED
      BY <1>1, <1>3, <2>1 DEF RunningInv, TreeInv
  <1>4. ASSUME lastPath \notin edited,
               NEW k \in DOMAIN ordered, ordered[k].path = lastPath
        PROVE  /\ Content(tree'[lastPath]) \in
                    {Content(orig[lastPath]),
                     Content(After(orig[lastPath], ordered[k]))}
               /\ firstErr = "nil" =>
                    /\ tree'[lastPath] \in File
                    /\ tree'[lastPath].content = orig[lastPath].content
    <2>1. Torn(lastPath, k)
      BY <1>4, RollbackPath
    <2> QED
      BY <1>4, <2>1 DEF Torn, Content
  <1>5. ASSUME NEW p \in Paths \ edited, p = lastPath,
               NEW k \in DOMAIN ordered, ordered[k].path = p
        PROVE  /\ Torn(p, k)'
               /\ firstErr = "nil" =>
                    tree'[p] \in File /\ tree'[p].content = orig[p].content
    BY <1>4, <1>5 DEF Torn
  <1> QED
    BY <1>1, <1>2, <1>3, <1>5 DEF TreeInv

(***************************************************************************)
(* The inductive step for the running batch.                               *)
(***************************************************************************)
LEMMA RunningStep ==
  ASSUME TypeOK, ShapeInv, RunningInv, [Next]_vars
  PROVE  RunningInv'
  <1> USE DEF Return, NextMutation, Undone
  <1>1. CASE Unchanged
    <2>1. PreflightInv'
      <3>1. path \notin edited => Plan(orig[path], m) = "unchanged"
        BY <1>1, PreflightTree DEF Unchanged
      <3> QED
        BY <1>1, <3>1, PreflightTree, PreflightAdvance DEF Unchanged
    <2>2. AppliedInv'
      BY <1>1 DEF TypeOK, ShapeInv, RunningInv, AppliedInv, IsApplied, Unchanged
    <2>3. TreeInv'
      BY <1>1 DEF TypeOK, RunningInv, AppliedInv, TreeInv, IsApplied, Torn, Unchanged
    <2> QED
      BY <1>1, <2>1, <2>2, <2>3 DEF RunningInv, Unchanged
  <1>2. CASE Changed
    <2>1. PreflightInv'
      <3>1. path \notin edited => Plan(orig[path], m) = "changed"
        BY <1>2, PreflightTree DEF Changed
      <3> QED
        BY <1>2, <3>1 DEF RunningInv, PreflightInv, checked, Changed, Duplicate, path, m
    <2>2. AppliedInv'
      BY <1>2 DEF TypeOK, ShapeInv, RunningInv, AppliedInv, IsApplied, Changed
    <2>3. TreeInv'
      BY <1>2 DEF TypeOK, RunningInv, AppliedInv, TreeInv, IsApplied, Torn, Changed
    <2> QED
      BY <1>2, <2>1, <2>2, <2>3 DEF RunningInv, Changed
  <1>3. CASE CaptureBackup
    <2>0. i <= Len(ordered) /\ ~Duplicate
      BY <1>3 DEF CaptureBackup, ShapeInv, RunningInv, PreflightInv
    <2>1. PreflightInv'
      <3>1. path \notin edited => /\ Plan(orig[path], m) = "changed"
                                  /\ tree[path] = orig[path]
        BY <1>3, <2>0, PreflightTree DEF RunningInv, PreflightInv, CaptureBackup
      <3>2. /\ backups'[path] = tree[path]
            /\ \A q \in Paths : q # path => backups'[q] = backups[q]
        BY <1>3, <2>0, PreflightTree DEF TypeOK, CaptureBackup
      <3> QED
        BY <1>3, <2>0, <3>1, <3>2, PreflightAdvance DEF CaptureBackup
    <2>2. AppliedInv'
      BY <1>3 DEF TypeOK, ShapeInv, RunningInv, AppliedInv, IsApplied, CaptureBackup
    <2>3. TreeInv'
      BY <1>3 DEF TypeOK, RunningInv, AppliedInv, TreeInv, IsApplied, Torn, CaptureBackup
    <2> QED
      BY <1>3, <2>1, <2>2, <2>3 DEF RunningInv, CaptureBackup
  <1>4. CASE PreflightError
    BY <1>4 DEF PreflightError, RunningInv
  <1>5. CASE PreflightDone
    <2>1. PreflightInv'
      <3>1. checked' = checked
        BY <1>5 DEF checked, PreflightDone, ShapeInv, TypeOK
      <3> QED
        BY <1>5, <3>1 DEF RunningInv, PreflightInv, PreflightDone
    <2>2. AppliedInv'
      BY <1>5 DEF TypeOK, ShapeInv, RunningInv, AppliedInv, IsApplied, PreflightDone
    <2>3. TreeInv'
      BY <1>5 DEF TypeOK, RunningInv, AppliedInv, TreeInv, IsApplied, Torn, PreflightDone
    <2> QED
      BY <1>5, <2>1, <2>2, <2>3 DEF RunningInv, PreflightDone
  <1>6. CASE SkipUnchanged
    <2>1. PreflightInv'
      BY <1>6 DEF RunningInv, PreflightInv, checked, SkipUnchanged
    <2>2. AppliedInv'
      <3>1. path = ordered[i].path /\ i \in Nat
        BY DEF path, TypeOK
      <3>2. \A k \in DOMAIN ordered :
              k < i' /\ backups[ordered[k].path] # NoBackup
              <=> k < i /\ backups[ordered[k].path] # NoBackup
        BY <1>6, <3>1 DEF SkipUnchanged, TypeOK
      <3> QED
        BY <1>6, <3>2 DEF RunningInv, AppliedInv, IsApplied, SkipUnchanged
    <2>3. TreeInv'
      BY <1>6 DEF TypeOK, RunningInv, AppliedInv, TreeInv, IsApplied, Torn, SkipUnchanged
    <2> QED
      BY <1>6, <2>1, <2>2, <2>3 DEF RunningInv, SkipUnchanged
  <1>7. CASE WriteNothing
    <2>0. i <= Len(ordered) /\ backups[path] # NoBackup
      BY <1>7 DEF WriteNothing, ShapeInv
    <2>1. PreflightInv'
      BY <1>7 DEF RunningInv, PreflightInv, checked, WriteNothing
    <2>2. AppliedInv'
      BY <1>7, <2>0, AppendApplied DEF WriteNothing
    <2>3. TreeInv'
      <3>1. path \in Paths /\ m \in Mutation /\ \A q \in Paths : q # path => tree'[q] = tree[q]
        BY <1>7, <2>0, ChangedPath DEF WriteNothing, TypeOK, Tree
      <3>2. path \notin edited => tree'[path] = After(orig[path], m)
        BY <1>7, <2>0, <3>1, ChangedPath, PlanAfter DEF WriteNothing, TypeOK, Tree, ShapeInv
      <3> QED
        BY <1>7, <2>0, <3>1, <3>2, ApplyTree DEF WriteNothing
    <2> QED
      BY <1>7, <2>1, <2>2, <2>3 DEF RunningInv, WriteNothing
  <1>8. CASE StageWrite
    <2>1. PreflightInv'
      BY <1>8 DEF RunningInv, PreflightInv, checked, StageWrite
    <2>2. AppliedInv'
      BY <1>8 DEF TypeOK, ShapeInv, RunningInv, AppliedInv, IsApplied, StageWrite
    <2>3. TreeInv'
      BY <1>8 DEF TypeOK, RunningInv, AppliedInv, TreeInv, IsApplied, Torn, StageWrite
    <2> QED
      BY <1>8, <2>1, <2>2, <2>3 DEF RunningInv, StageWrite
  <1>9. CASE RenameWrite
    <2>0. i <= Len(ordered) /\ backups[path] # NoBackup
      BY <1>9 DEF RenameWrite, ShapeInv
    <2>1. PreflightInv'
      BY <1>9 DEF RunningInv, PreflightInv, checked, RenameWrite
    <2>2. AppliedInv'
      BY <1>9, <2>0, AppendApplied DEF RenameWrite
    <2>3. TreeInv'
      <3>1. path \in Paths /\ m \in Mutation /\ \A q \in Paths : q # path => tree'[q] = tree[q]
        BY <1>9, <2>0, ChangedPath DEF RenameWrite, TypeOK, Tree
      <3>2. path \notin edited => tree'[path] = After(orig[path], m)
        BY <1>9, <2>0, <3>1, ChangedPath, PlanAfter DEF RenameWrite, TypeOK, Tree, ShapeInv
      <3> QED
        BY <1>9, <2>0, <3>1, <3>2, ApplyTree DEF RenameWrite
    <2> QED
      BY <1>9, <2>1, <2>2, <2>3 DEF RunningInv, RenameWrite
  <1>10. CASE ApplyRemove
    <2>0. i <= Len(ordered) /\ backups[path] # NoBackup
      BY <1>10 DEF ApplyRemove, ShapeInv
    <2>1. PreflightInv'
      BY <1>10 DEF RunningInv, PreflightInv, checked, ApplyRemove
    <2>2. AppliedInv'
      BY <1>10, <2>0, AppendApplied DEF ApplyRemove
    <2>3. TreeInv'
      <3>1. path \in Paths /\ m \in Mutation /\ \A q \in Paths : q # path => tree'[q] = tree[q]
        BY <1>10, <2>0, ChangedPath DEF ApplyRemove, TypeOK, Tree
      <3>2. path \notin edited => tree'[path] = After(orig[path], m)
        BY <1>10, <2>0, <3>1, ChangedPath, PlanAfter DEF ApplyRemove, TypeOK, Tree, ShapeInv
      <3> QED
        BY <1>10, <2>0, <3>1, <3>2, ApplyTree DEF ApplyRemove
    <2> QED
      BY <1>10, <2>1, <2>2, <2>3 DEF RunningInv, ApplyRemove
  <1>11. CASE ApplyError
    <2>1. PreflightInv'
      BY <1>11 DEF RunningInv, PreflightInv, checked, ApplyError
    <2>2. AppliedInv'
      BY <1>11 DEF RunningInv, AppliedInv, IsApplied, ApplyError
    <2>3. TreeInv'
      BY <1>11 DEF TypeOK, RunningInv, AppliedInv, TreeInv, IsApplied, Torn, ApplyError
    <2> QED
      BY <1>11, <2>1, <2>2, <2>3 DEF RunningInv, ApplyError
  <1>12. CASE ApplyDone
    BY <1>12 DEF ApplyDone, RunningInv
  <1>13. CASE RollbackRemove
    <2>0. applied # << >>
      BY <1>13 DEF RollbackRemove, ShapeInv
    <2>1. PreflightInv'
      BY <1>13 DEF RunningInv, PreflightInv, checked, RollbackRemove
    <2>2. AppliedInv'
      BY <1>13, <2>0, DropApplied DEF RollbackRemove
    <2>3. TreeInv'
      <3>1. lastPath \in Paths /\ \A q \in Paths : q # lastPath => tree'[q] = tree[q]
        BY <1>13, <2>0, LastApplied DEF RollbackRemove, TypeOK, Tree
      <3>2. lastPath \notin edited => tree'[lastPath] = orig[lastPath]
        BY <1>13, <3>1, RollbackPath DEF RollbackRemove, TypeOK, Tree
      <3> QED
        BY <1>13, <2>0, <3>1, <3>2, RollbackTree DEF RollbackRemove
    <2> QED
      BY <1>13, <2>1, <2>2, <2>3 DEF RunningInv, RollbackRemove
  <1>14. CASE RollbackRemoveError
    <2>0. applied # << >>
      BY <1>14 DEF RollbackRemoveError, ShapeInv
    <2>1. PreflightInv'
      BY <1>14 DEF RunningInv, PreflightInv, checked, RollbackRemoveError
    <2>2. AppliedInv'
      BY <1>14, <2>0, DropApplied DEF RollbackRemoveError
    <2>3. TreeInv'
      <3>1. lastPath \in Paths /\ \A q \in Paths : q # lastPath => tree'[q] = tree[q]
        BY <1>14, <2>0, LastApplied DEF RollbackRemoveError, TypeOK, Tree
      <3>2. lastPath \notin edited =>
              \E k \in DOMAIN ordered :
                ordered[k].path = lastPath /\ Torn(lastPath, k)
        BY <1>14, <2>0, <3>1, RollbackPath DEF RollbackRemoveError
      <3> QED
        BY <1>14, <2>0, <3>1, <3>2, RollbackTree DEF RollbackRemoveError, Torn
    <2> QED
      BY <1>14, <2>1, <2>2, <2>3 DEF RunningInv, RollbackRemoveError
  <1>15. CASE StageRestore
    <2>1. PreflightInv'
      BY <1>15 DEF RunningInv, PreflightInv, checked, StageRestore
    <2>2. AppliedInv'
      BY <1>15 DEF TypeOK, ShapeInv, RunningInv, AppliedInv, IsApplied, StageRestore
    <2>3. TreeInv'
      <3>1. CASE Same(tree[lastPath], backups[lastPath].content)
        <4>1. lastPath \notin edited => backups[lastPath] = orig[lastPath]
          BY <1>15, RollbackPath DEF StageRestore
        <4>2. backups[lastPath] \in File
          BY <1>15, BackupFile DEF StageRestore
        <4> QED
          BY <1>15, <3>1, <4>1, <4>2, ChmodTree DEF StageRestore, Same
      <3>2. CASE ~Same(tree[lastPath], backups[lastPath].content)
        <4>1. pc' = "restore" /\ lastPath' = lastPath
          BY <1>15, <3>2 DEF StageRestore, lastPath
        <4> QED
          BY <1>15, <4>1 DEF RunningInv, TreeInv, IsApplied, Torn, StageRestore
      <3> QED
        BY <3>1, <3>2
    <2> QED
      BY <1>15, <2>1, <2>2, <2>3 DEF RunningInv, StageRestore
  <1>16. CASE RenameRestore
    <2>1. PreflightInv'
      BY <1>16 DEF RunningInv, PreflightInv, checked, RenameRestore
    <2>2. AppliedInv'
      BY <1>16 DEF TypeOK, ShapeInv, RunningInv, AppliedInv, IsApplied, RenameRestore
    <2>3. TreeInv'
      <3>1. applied # << >> /\ backups[lastPath] # Absent
        BY <1>16 DEF RenameRestore, ShapeInv
      <3>2. /\ lastPath \in Paths /\ backups[lastPath] \in File
            /\ Written(backups[lastPath].content) \in File
            /\ Written(backups[lastPath].content).content
                 = backups[lastPath].content
        BY <3>1, BackupFile, WrittenFile
      <3>3. lastPath \notin edited => backups[lastPath] = orig[lastPath]
        BY <1>16, <3>1, RollbackPath DEF RenameRestore
      <3>4. /\ tree'[lastPath] = Written(backups[lastPath].content)
            /\ \A q \in Paths : q # lastPath => tree'[q] = tree[q]
        BY <1>16, <3>2 DEF RenameRestore, TypeOK, Tree
      <3> QED
        BY <1>16, <3>1, <3>2, <3>3, <3>4, ChmodTree DEF RenameRestore
    <2> QED
      BY <1>16, <2>1, <2>2, <2>3 DEF RunningInv, RenameRestore
  <1>17. CASE RestoreError
    <2>0. /\ pc \in {"rollback", "restore"} /\ applied # << >>
          /\ UNCHANGED <<tree, batch, ordered, i, backups, outcome, orig, edited>>
      BY <1>17 DEF RestoreError, ShapeInv
    <2>a. CASE firstErr # "nil"
      <3>1. pc' = "chmod" /\ UNCHANGED <<applied, firstErr>>
        BY <1>17, <2>a DEF RestoreError
      <3>2. PreflightInv'
        BY <2>0, <3>1 DEF RunningInv, PreflightInv, checked
      <3>3. AppliedInv'
        BY <2>0, <3>1 DEF RunningInv, AppliedInv, IsApplied
      <3>4. TreeInv'
        BY <2>a, <2>0, <3>1, ChmodTree
      <3> QED
        BY <2>0, <3>1, <3>2, <3>3, <3>4 DEF RunningInv
    <2>b. CASE firstErr = "nil"
      <3>1. pc' = "rollback" /\ firstErr' = "error" /\ Undone
        BY <1>17, <2>b DEF RestoreError
      <3>2. PreflightInv'
        BY <2>0, <3>1 DEF RunningInv, PreflightInv, checked
      <3>3. AppliedInv'
        BY <2>0, <3>1, DropApplied
      <3>4. lastPath \notin edited => \E k \in DOMAIN ordered :
              ordered[k].path = lastPath /\ Torn(lastPath, k)
        BY <2>0, RollbackPath
      <3>5. TreeInv'
        BY <2>0, <3>1, <3>4, RollbackTree DEF Torn
      <3> QED
        BY <2>0, <3>1, <3>2, <3>3, <3>5 DEF RunningInv
    <2> QED
      BY <2>a, <2>b DEF TypeOK
  <1>18. CASE RestoreMode
    <2>0. applied # << >>
      BY <1>18 DEF RestoreMode, ShapeInv
    <2>1. PreflightInv'
      BY <1>18 DEF RunningInv, PreflightInv, checked, RestoreMode
    <2>2. AppliedInv'
      BY <1>18, <2>0, DropApplied DEF RestoreMode
    <2>3. TreeInv'
      <3>1. lastPath \in Paths /\ \A q \in Paths : q # lastPath => tree'[q] = tree[q]
        BY <1>18, <2>0, LastApplied DEF RestoreMode, TypeOK, Tree
      <3>2. lastPath \notin edited =>
              \/ tree'[lastPath] = orig[lastPath]
              \/ /\ firstErr # "nil"
                 /\ \E k \in DOMAIN ordered :
                      /\ ordered[k].path = lastPath
                      /\ Content(tree'[lastPath]) \in
                           {Content(orig[lastPath]),
                            Content(After(orig[lastPath], ordered[k]))}
        <4>1. /\ tree[lastPath] \in File /\ backups[lastPath] \in File
              /\ tree'[lastPath] =
                   [tree[lastPath] EXCEPT !.mode = backups[lastPath].mode]
          BY <1>18, <2>0, <3>1, BackupFile DEF RestoreMode, ShapeInv, TypeOK, Tree
        <4>2. /\ tree'[lastPath] \in File
              /\ tree'[lastPath].content = tree[lastPath].content
              /\ tree'[lastPath].mode = backups[lastPath].mode
          BY <4>1 DEF File
        <4>3. ASSUME lastPath \notin edited, firstErr = "nil"
              PROVE  tree'[lastPath] = orig[lastPath]
          <5>1. /\ backups[lastPath] = orig[lastPath]
                /\ tree[lastPath].content = orig[lastPath].content
            BY <1>18, <2>0, <4>3, RollbackPath DEF RestoreMode
          <5> QED
            BY <4>1, <4>2, <5>1 DEF File
        <4>4. ASSUME lastPath \notin edited, firstErr # "nil"
              PROVE  \E k \in DOMAIN ordered :
                       /\ ordered[k].path = lastPath
                       /\ Content(tree'[lastPath]) \in
                            {Content(orig[lastPath]),
                             Content(After(orig[lastPath], ordered[k]))}
          <5>1. PICK k \in DOMAIN ordered :
                  ordered[k].path = lastPath /\ Torn(lastPath, k)
            BY <1>18, <2>0, <4>4, RollbackPath DEF RestoreMode
          <5>2. Content(tree'[lastPath]) = Content(tree[lastPath])
            BY <4>1, <4>2 DEF Content
          <5> QED
            BY <5>1, <5>2 DEF Torn
        <4> QED
          BY <4>3, <4>4
      <3> QED
        BY <1>18, <2>0, <3>1, <3>2, RollbackTree DEF RestoreMode
    <2> QED
      BY <1>18, <2>1, <2>2, <2>3 DEF RunningInv, RestoreMode
  <1>19. CASE RestoreModeError
    <2>0. applied # << >>
      BY <1>19 DEF RestoreModeError, ShapeInv
    <2>1. PreflightInv'
      BY <1>19 DEF RunningInv, PreflightInv, checked, RestoreModeError
    <2>2. AppliedInv'
      BY <1>19, <2>0, DropApplied DEF RestoreModeError
    <2>3. TreeInv'
      <3>1. lastPath \in Paths /\ \A q \in Paths : q # lastPath => tree'[q] = tree[q]
        BY <1>19, <2>0, LastApplied DEF RestoreModeError, TypeOK, Tree
      <3>2. lastPath \notin edited =>
              \E k \in DOMAIN ordered :
                ordered[k].path = lastPath /\ Torn(lastPath, k)
        <4>1. ASSUME lastPath \notin edited, firstErr = "nil"
              PROVE  Content(tree[lastPath]) = Content(orig[lastPath])
          BY <1>19, <2>0, <4>1, RollbackPath, BackupFile
          DEF RestoreModeError, Content, ShapeInv
        <4> QED
          BY <1>19, <2>0, <3>1, <4>1, RollbackPath DEF RestoreModeError, Torn
      <3> QED
        BY <1>19, <2>0, <3>1, <3>2, RollbackTree DEF RestoreModeError, Torn
    <2> QED
      BY <1>19, <2>1, <2>2, <2>3 DEF RunningInv, RestoreModeError
  <1>20. CASE RollbackDone
    BY <1>20 DEF RollbackDone, RunningInv
  <1>21. CASE Crash
    BY <1>21 DEF Crash, RunningInv
  <1>22. CASE NewProcess
    BY <1>22 DEF NewProcess, RunningInv
  <1>23. ASSUME NEW b \in Batches, Start(b) PROVE RunningInv'
    <2>1. IsOrdering(ordered', batch')
      BY <1>23 DEF Start, Orderings
    <2>2. PreflightInv'
      BY <1>23 DEF Start, PreflightInv, checked
    <2>3. AppliedInv'
      BY <1>23 DEF Start, AppliedInv, IsApplied
    <2>4. TreeInv'
      BY <1>23 DEF Start, TreeInv, IsApplied
    <2> QED
      BY <1>23, <2>1, <2>2, <2>3, <2>4 DEF RunningInv, Start
  <1>24. ASSUME NEW p \in Paths, Edit(p) PROVE RunningInv'
    <2>1. PreflightInv'
      BY <1>24 DEF RunningInv, PreflightInv, checked, Duplicate, path, m, Edit
    <2>2. AppliedInv'
      BY <1>24 DEF RunningInv, AppliedInv, IsApplied, Edit
    <2>3. TreeInv'
      <3>1. \A q \in Paths \ edited' : q \notin edited /\ tree'[q] = tree[q]
        BY <1>24 DEF Edit, TypeOK, Tree
      <3> QED
        BY <1>24, <3>1 DEF RunningInv, TreeInv, IsApplied, Torn, lastPath, Edit
    <2> QED
      BY <1>24, <2>1, <2>2, <2>3 DEF RunningInv, Edit
  <1>25. CASE UNCHANGED vars
    BY <1>25 DEF vars, RunningInv, PreflightInv, AppliedInv, TreeInv, checked, Duplicate, path, m, lastPath, IsApplied, Torn
  <1> QED
    BY <1>1, <1>2, <1>3, <1>4, <1>5, <1>6, <1>7, <1>8, <1>9, <1>10, <1>11, <1>12, <1>13, <1>14, <1>15, <1>16, <1>17, <1>18, <1>19, <1>20, <1>21, <1>22, <1>23, <1>24, <1>25 DEF Next, Step

(***************************************************************************)
(* Sorting a batch does not change what it means.                          *)
(***************************************************************************)
LEMMA OrderingSame ==
  ASSUME NEW s \in Seq(Mutation), NEW b \in Seq(Mutation), IsOrdering(s, b)
  PROVE  /\ DOMAIN s = DOMAIN b
         /\ \A j \in DOMAIN s : \E k \in DOMAIN b : b[k] = s[j]
         /\ \A k \in DOMAIN b : \E j \in DOMAIN s : s[j] = b[k]
         /\ NoDuplicates(s) => NoDuplicates(b)
         /\ \A j, k \in DOMAIN s :
              s[j].type = "write" /\ s[k].type = "remove" => j < k
  <1>1. PICK perm \in [DOMAIN b -> DOMAIN b] :
          /\ \A j, k \in DOMAIN b : perm[j] = perm[k] => j = k
          /\ \A k \in DOMAIN b : \E j \in DOMAIN b : perm[j] = k
          /\ \A j \in DOMAIN b : s[j] = b[perm[j]]
    BY DEF IsOrdering
  <1>2. DOMAIN s = DOMAIN b
    BY DEF IsOrdering
  <1>3. \A j \in DOMAIN s : \E k \in DOMAIN b : b[k] = s[j]
    BY <1>1, <1>2
  <1>4. \A k \in DOMAIN b : \E j \in DOMAIN s : s[j] = b[k]
    BY <1>1, <1>2
  <1>5. ASSUME NoDuplicates(s), NEW k1 \in DOMAIN b, NEW k2 \in DOMAIN b,
               b[k1].path = b[k2].path
        PROVE  k1 = k2
    <2>1. PICK j1 \in DOMAIN b : perm[j1] = k1
      BY <1>1
    <2>2. PICK j2 \in DOMAIN b : perm[j2] = k2
      BY <1>1
    <2>3. s[j1].path = s[j2].path
      BY <1>1, <1>5, <2>1, <2>2
    <2>4. j1 = j2
      BY <1>2, <1>5, <2>3 DEF NoDuplicates
    <2> QED
      BY <2>1, <2>2, <2>4
  <1>6. \A j, k \in DOMAIN s :
          s[j].type = "write" /\ s[k].type = "remove" => j < k
    BY <1>2 DEF IsOrdering, Before
  <1> QED
    BY <1>2, <1>3, <1>4, <1>5, <1>6 DEF NoDuplicates

\* The result of a batch at a path, from its sorted copy.
LEMMA OrderingResult ==
  ASSUME NEW s \in Seq(Mutation), NEW b \in Seq(Mutation), IsOrdering(s, b),
         NoDuplicates(s), NEW t, NEW p \in Paths
  PROVE  /\ \A k \in DOMAIN s :
              s[k].path = p => Result(t, b)[p] = After(t[p], s[k])
         /\ (\A k \in DOMAIN s : s[k].path # p) => Result(t, b)[p] = t[p]
  <1>1. NoDuplicates(b)
    BY OrderingSame
  <1>2. ASSUME NEW k \in DOMAIN s, s[k].path = p
        PROVE  Result(t, b)[p] = After(t[p], s[k])
    <2>1. PICK l \in DOMAIN b : b[l] = s[k]
      BY OrderingSame
    <2>2. (CHOOSE h \in DOMAIN b : b[h].path = p) = l
      BY <1>1, <1>2, <2>1 DEF NoDuplicates
    <2> QED
      BY <1>2, <2>1, <2>2 DEF Result
  <1>3. ASSUME \A k \in DOMAIN s : s[k].path # p
        PROVE  Result(t, b)[p] = t[p]
    <2>1. \A l \in DOMAIN b : b[l].path # p
      <3>1. \A l \in DOMAIN b : \E k \in DOMAIN s : s[k] = b[l]
        BY OrderingSame
      <3> QED
        BY <1>3, <3>1
    <2> QED
      BY <2>1 DEF Result
  <1> QED
    BY <1>2, <1>3

(***************************************************************************)
(* What the invariant of the running batch says about the worktree.        *)
(***************************************************************************)
LEMMA RunningOldOrNew ==
  ASSUME TypeOK, ShapeInv, RunningInv, pc # "idle"
  PROVE  OldOrNew
  <1> SUFFICES ASSUME NEW p \in Paths \ edited
               PROVE  Content(tree[p]) \in {Content(orig[p]),
                                            Content(Result(orig, batch)[p])}
    BY DEF OldOrNew
  <1>1. ASSUME NEW k \in DOMAIN ordered, ordered[k].path = p, Torn(p, k),
               pc \notin {"preflight", "backup"}
        PROVE  Content(tree[p]) \in {Content(orig[p]),
                                     Content(Result(orig, batch)[p])}
    <2>1. checked = Len(ordered) /\ DOMAIN ordered = 1..Len(ordered)
      BY <1>1 DEF checked, TypeOK
    <2>2. NoDuplicates(ordered)
      BY <2>1 DEF RunningInv, PreflightInv, NoDuplicates
    <2>3. Result(orig, batch)[p] = After(orig[p], ordered[k])
      BY <1>1, <2>2, OrderingResult DEF RunningInv, TypeOK
    <2> QED
      BY <1>1, <2>3 DEF Torn
  <1>2. CASE IsApplied(p)
    <2>1. PICK k \in DOMAIN ordered : ordered[k].path = p
      BY <1>2 DEF RunningInv, AppliedInv, IsApplied
    <2>2. pc \notin {"preflight", "backup"}
      BY <1>2 DEF RunningInv, AppliedInv, IsApplied
    <2>3. CASE tree[p] \in File /\ tree[p].content = orig[p].content /\ p = lastPath /\ pc = "chmod"
      <3>1. applied # << >> /\ backups[p] # Absent
        BY <2>3 DEF ShapeInv
      <3>2. backups[p] \in File /\ backups[p] = orig[p]
        BY <2>3, <3>1, BackupFile, RollbackPath
      <3> QED
        BY <2>3, <3>2 DEF Content
    <2>4. CASE tree[p] = After(orig[p], ordered[k]) \/ Torn(p, k)
      BY <1>1, <2>1, <2>2, <2>4 DEF Torn
    <2> QED
      BY <1>2, <2>1, <2>3, <2>4 DEF RunningInv, TreeInv
  <1>3. CASE ~IsApplied(p)
    <2>1. CASE tree[p] = orig[p]
      BY <2>1
    <2>2. CASE tree[p] # orig[p]
      <3>1. firstErr # "nil" /\ \E k \in DOMAIN ordered :
              ordered[k].path = p /\ Torn(p, k)
        BY <1>3, <2>2 DEF RunningInv, TreeInv
      <3>2. pc \notin {"preflight", "backup"}
        BY <3>1 DEF RunningInv, AppliedInv
      <3> QED
        BY <1>1, <3>1, <3>2
    <2> QED
      BY <2>1, <2>2
  <1> QED
    BY <1>2, <1>3

LEMMA RunningMoveNeverLoses ==
  ASSUME TypeOK, ShapeInv, RunningInv, pc # "idle"
  PROVE  MoveNeverLoses
  <1> SUFFICES ASSUME NEW j \in DOMAIN batch, NEW k \in DOMAIN batch,
                      batch[j].type = "write", batch[k].type = "remove",
                      batch[j].path \notin edited, batch[k].path \notin edited,
                      orig[batch[k].path] \in File, firstErr = "nil",
                      tree[batch[k].path] \notin File
               PROVE  tree[batch[j].path] \in File
    BY DEF MoveNeverLoses
  <1> DEFINE p == batch[j].path
             q == batch[k].path
  <1>1. p \in Paths /\ q \in Paths
    BY MutationFields DEF TypeOK
  <1>2. PICK jj \in DOMAIN ordered : ordered[jj] = batch[j]
    BY OrderingSame DEF RunningInv, TypeOK
  <1>3. PICK kk \in DOMAIN ordered : ordered[kk] = batch[k]
    BY OrderingSame DEF RunningInv, TypeOK
  <1>4. jj < kk
    <2>1. \A x, y \in DOMAIN ordered :
            ordered[x].type = "write" /\ ordered[y].type = "remove" => x < y
      BY OrderingSame DEF RunningInv, TypeOK
    <2> QED
      BY <1>2, <1>3, <2>1
  <1>5. IsApplied(q)
    BY <1>1 DEF RunningInv, TreeInv
  <1>6. pc \notin {"preflight", "backup"} /\ DOMAIN ordered = 1..Len(ordered)
    BY <1>5 DEF RunningInv, AppliedInv, IsApplied, TypeOK
  <1>7. jj \in 1..checked /\ jj \in 1..(kk - 1)
    BY <1>4, <1>6 DEF checked, TypeOK
  <1>8. /\ orig[p] \in Entry /\ ordered[jj] \in Mutation
        /\ Plan(orig[p], ordered[jj]) # "error"
        /\ backups[p] = IF Plan(orig[p], ordered[jj]) = "changed"
                        THEN orig[p] ELSE NoBackup
    BY <1>1, <1>2, <1>7 DEF RunningInv, PreflightInv, TypeOK, Tree
  <1>9. CASE backups[p] # NoBackup
    <2>1. IsApplied(p)
      BY <1>2, <1>3, <1>5, <1>7, <1>9 DEF RunningInv, AppliedInv
    <2>2. tree[p] \in File \/ tree[p] = After(orig[p], ordered[jj])
      BY <1>1, <1>2, <2>1 DEF RunningInv, TreeInv
    <2>3. After(orig[p], ordered[jj]) = Written(batch[j].content)
      BY <1>2, <1>8, <1>9, PlanAfter
    <2>4. Written(batch[j].content) \in File
      BY <1>2, <1>8, MutationFields, WrittenFile
    <2> QED
      BY <2>2, <2>3, <2>4
  <1>10. CASE backups[p] = NoBackup
    <2>1. Plan(orig[p], ordered[jj]) = "unchanged"
      BY <1>8, <1>10, PlanAfter, BackupAssumption
    <2>2. orig[p] \in File
      BY <1>8, <2>1, PlanAfter DEF Same
    <2>3. ~IsApplied(p)
      BY <1>10 DEF ShapeInv, IsApplied
    <2> QED
      BY <1>1, <2>2, <2>3 DEF RunningInv, TreeInv
  <1> QED
    BY <1>9, <1>10

(***************************************************************************)
(* The inductive invariant.                                                *)
(***************************************************************************)
LEMMA IInvInit == Init => IInv
  <1> SUFFICES ASSUME Init PROVE IInv
    OBVIOUS
  <1>1. pc = "idle" /\ outcome = "none" /\ tree = orig /\ batch = << >>
    BY DEF Init
  <1>2. OldOrNew /\ AllOrNothing
    BY <1>1 DEF OldOrNew, AllOrNothing
  <1>3. MoveNeverLoses
    BY <1>1 DEF MoveNeverLoses
  <1>4. edited = {} /\ Cardinality({}) = 0
    BY FS_EmptySet DEF Init
  <1>5. Cardinality(edited) <= MaxEdits
    BY <1>4, MaxEditsAssumption
  <1> QED
    BY <1>1, <1>2, <1>3, <1>5, TypeInit DEF IInv, RunningInv, BlameInv

\* What ApplyBatch returns when it returns.
LEMMA ReturnStep ==
  ASSUME TypeOK, ShapeInv, RunningInv, pc # "idle",
         PreflightError \/ ApplyDone \/ RollbackDone \/ Crash
  PROVE  AllOrNothing'
  <1> SUFFICES ASSUME NEW p \in Paths \ edited
               PROVE  /\ outcome' = "ok" => tree[p] = Result(orig, batch)[p]
                      /\ outcome' = "error" => tree[p] = orig[p]
    BY DEF AllOrNothing, PreflightError, ApplyDone, RollbackDone, Crash
  <1>1. CASE PreflightError
    BY <1>1 DEF PreflightError, Return, RunningInv, AppliedInv, TreeInv, IsApplied
  <1>2. CASE ApplyDone
    <2>1. /\ firstErr = "nil" /\ outcome' = "ok" /\ pc = "apply"
          /\ i > Len(ordered)
      BY <1>2 DEF ApplyDone, Return, RunningInv, AppliedInv
    <2>2. checked = Len(ordered) /\ DOMAIN ordered = 1..Len(ordered)
      BY <2>1 DEF checked, TypeOK
    <2>3. NoDuplicates(ordered)
      BY <2>2 DEF RunningInv, PreflightInv, NoDuplicates
    <2>4. CASE \A k \in DOMAIN ordered : ordered[k].path # p
      <3>1. ~IsApplied(p)
        BY <2>4 DEF RunningInv, AppliedInv, IsApplied
      <3>2. tree[p] = orig[p]
        BY <2>1, <3>1 DEF RunningInv, TreeInv
      <3> QED
        BY <2>1, <2>3, <2>4, <3>2, OrderingResult DEF RunningInv, TypeOK
    <2>5. ASSUME NEW k \in DOMAIN ordered, ordered[k].path = p
          PROVE  tree[p] = Result(orig, batch)[p]
      <3>1. Result(orig, batch)[p] = After(orig[p], ordered[k])
        BY <2>3, <2>5, OrderingResult DEF RunningInv, TypeOK
      <3>2. CASE IsApplied(p)
        BY <2>1, <2>5, <3>1, <3>2 DEF RunningInv, TreeInv
      <3>3. CASE ~IsApplied(p)
        <4>1. backups[p] = NoBackup
          BY <2>1, <2>2, <2>5, <3>3 DEF RunningInv, AppliedInv, TypeOK
        <4>2. /\ orig[p] \in Entry /\ ordered[k] \in Mutation
              /\ Plan(orig[p], ordered[k]) # "error"
              /\ Plan(orig[p], ordered[k]) # "changed"
          BY <2>2, <2>5, <4>1, BackupAssumption
          DEF RunningInv, PreflightInv, TypeOK, Tree
        <4>3. After(orig[p], ordered[k]) = orig[p]
          BY <4>2, PlanAfter
        <4> QED
          BY <2>1, <3>1, <3>3, <4>3 DEF RunningInv, TreeInv
      <3> QED
        BY <3>2, <3>3
    <2> QED
      BY <2>1, <2>4, <2>5
  <1>3. CASE RollbackDone
    BY <1>3 DEF RollbackDone, Return, RunningInv, TreeInv, IsApplied
  <1>4. CASE Crash
    BY <1>4 DEF Crash, Return
  <1> QED
    BY <1>1, <1>2, <1>3, <1>4

LEMMA RunningProps ==
  TypeOK /\ ShapeInv /\ RunningInv /\ pc # "idle" => OldOrNew /\ MoveNeverLoses
  BY RunningOldOrNew, RunningMoveNeverLoses

LEMMA RunningPropsNext ==
  (TypeOK /\ ShapeInv /\ RunningInv /\ pc # "idle")'
  => (OldOrNew /\ MoveNeverLoses)'
  BY RunningProps, PTL

\* A rollback keeps an error only where its operations fail or where another
\* process has taken the file away.
LEMMA BlameStep ==
  ASSUME IInv, [Next]_vars
  PROVE  BlameInv' /\ Cardinality(edited') <= MaxEdits
  <1> USE DEF Return, NextMutation, Undone
  <1>1. CASE \E b \in Batches : Start(b)
    <2>1. firstErr' = "nil" /\ outcome' = "pending" /\ edited' = {}
      BY <1>1 DEF Start
    <2>2. Cardinality(edited') = 0
      BY <2>1, FS_EmptySet
    <2> QED
      BY <2>1, <2>2, MaxEditsAssumption DEF BlameInv
  <1>2. CASE NewProcess
    <2>1. firstErr' = "nil" /\ outcome' = "none" /\ edited' = {}
      BY <1>2 DEF NewProcess
    <2>2. Cardinality(edited') = 0
      BY <2>1, FS_EmptySet
    <2> QED
      BY <2>1, <2>2, MaxEditsAssumption DEF BlameInv
  <1>3. CASE \E p \in Paths : Edit(p)
    <2>1. PICK p \in Paths : Edit(p)
      BY <1>3
    <2> QED
      BY <2>1 DEF Edit, BlameInv
  <1>4. CASE RestoreModeError
    <2>1. Cardinality(edited') <= MaxEdits
      BY <1>4 DEF RestoreModeError, IInv
    <2>2. CASE "rollback" \in Faults \/ edited # {} \/ firstErr # "nil"
      BY <1>4, <2>2 DEF RestoreModeError, IInv, BlameInv
    <2>3. CASE "rollback" \notin Faults /\ edited = {} /\ firstErr = "nil"
      <3>1. tree[lastPath] \notin File /\ pc = "chmod"
        BY <1>4, <2>3 DEF RestoreModeError
      <3>2. TypeOK /\ ShapeInv /\ RunningInv /\ applied # << >>
        BY <3>1 DEF IInv, ShapeInv
      <3> QED
        BY <2>3, <3>1, <3>2, RollbackPath
    <2> QED
      BY <2>1, <2>2, <2>3
  <1>5. CASE RollbackRemoveError \/ RestoreError
    BY <1>5 DEF RollbackRemoveError, RestoreError, IInv, BlameInv
  <1>6. CASE RollbackDone
    BY <1>6 DEF RollbackDone, IInv, BlameInv
  <1>7. ASSUME UNCHANGED <<firstErr, edited>>, pc # "idle",
               outcome' = outcome \/ outcome' \in {"ok", "error", "crashed"}
        PROVE  BlameInv' /\ Cardinality(edited') <= MaxEdits
    BY <1>7 DEF IInv, BlameInv
  <1>8. CASE Unchanged \/ Changed \/ CaptureBackup \/ PreflightError
             \/ PreflightDone \/ SkipUnchanged \/ WriteNothing \/ StageWrite
             \/ RenameWrite \/ ApplyRemove \/ ApplyError \/ ApplyDone
    BY <1>7, <1>8 DEF Unchanged, Changed, CaptureBackup, PreflightError,
       PreflightDone, SkipUnchanged, WriteNothing, StageWrite, RenameWrite,
       ApplyRemove, ApplyError, ApplyDone
  <1>9. CASE RollbackRemove \/ StageRestore \/ RenameRestore \/ RestoreMode \/ Crash
    BY <1>7, <1>9 DEF RollbackRemove, StageRestore, RenameRestore, RestoreMode,
       Crash
  <1>10. CASE UNCHANGED vars
    BY <1>10 DEF vars, IInv, BlameInv
  <1> QED
    BY <1>1, <1>2, <1>3, <1>4, <1>5, <1>6, <1>8, <1>9, <1>10 DEF Next, Step

LEMMA IInvStep ==
  ASSUME IInv, [Next]_vars
  PROVE  IInv'
  <1>1. /\ TypeOK /\ ShapeInv /\ RunningInv
        /\ TypeOK' /\ ShapeInv' /\ RunningInv'
        /\ BlameInv' /\ Cardinality(edited') <= MaxEdits
    BY TypeStep, RunningStep, BlameStep DEF IInv
  <1>2. CASE pc' # "idle"
    <2>1. OldOrNew' /\ MoveNeverLoses'
      BY <1>1, <1>2, RunningPropsNext
    <2>2. AllOrNothing'
      BY <1>1, <1>2 DEF RunningInv, AllOrNothing
    <2> QED
      BY <1>1, <1>2, <2>1, <2>2 DEF IInv
  <1>3. CASE pc' = "idle" /\ pc # "idle"
    <2>1. PreflightError \/ ApplyDone \/ RollbackDone \/ Crash
      BY <1>3 DEF Next, Step, vars, Start, NewProcess, Edit, Unchanged, Changed,
         CaptureBackup, PreflightDone, SkipUnchanged, WriteNothing, StageWrite,
         RenameWrite, ApplyRemove, ApplyError, RollbackRemove,
         RollbackRemoveError, StageRestore, RenameRestore, RestoreError,
         RestoreMode, RestoreModeError, NextMutation, Undone
    <2>2. AllOrNothing'
      BY <1>1, <1>3, <2>1, ReturnStep
    <2>3. UNCHANGED <<tree, orig, batch, edited, firstErr>> /\ outcome' # "pending"
      BY <2>1 DEF PreflightError, ApplyDone, RollbackDone, Crash, Return
    <2>4. OldOrNew' /\ MoveNeverLoses'
      BY <2>3 DEF IInv, OldOrNew, MoveNeverLoses
    <2> QED
      BY <1>1, <2>2, <2>3, <2>4 DEF IInv
  <1>4. CASE pc' = "idle" /\ pc = "idle"
    <2>1. NewProcess \/ UNCHANGED vars
      BY <1>4 DEF Next, Step, vars, Start, Crash, Edit, Unchanged, Changed,
         CaptureBackup, PreflightError, PreflightDone, SkipUnchanged,
         WriteNothing, StageWrite, RenameWrite, ApplyRemove, ApplyError,
         ApplyDone, RollbackRemove, RollbackRemoveError, StageRestore,
         RenameRestore, RestoreError, RestoreMode, RestoreModeError, RollbackDone
    <2>2. CASE NewProcess
      <3>1. batch' = << >> /\ orig' = tree' /\ outcome' = "none"
        BY <2>2 DEF NewProcess
      <3>2. OldOrNew' /\ AllOrNothing'
        BY <3>1 DEF OldOrNew, AllOrNothing
      <3>3. MoveNeverLoses'
        BY <3>1 DEF MoveNeverLoses
      <3> QED
        BY <1>1, <3>1, <3>2, <3>3 DEF IInv
    <2>3. CASE UNCHANGED vars
      BY <1>1, <2>3 DEF IInv, vars, OldOrNew, AllOrNothing, MoveNeverLoses
    <2> QED
      BY <2>1, <2>2, <2>3
  <1> QED
    BY <1>2, <1>3, <1>4

\* IInv is an inductive invariant of ApplyBatch.
THEOREM Invariance == Spec => []IInv
  <1>1. IInv /\ [Next]_vars => IInv'
    BY IInvStep
  <1> QED
    BY IInvInit, <1>1, PTL DEF Spec

\* When ApplyBatch returns nil every path nobody else touched holds what its
\* mutation asks for; when it returns a plain error every such path is what it
\* was, permission bits included.
THEOREM BatchIsAllOrNothing == Spec => []AllOrNothing
  <1>1. IInv => AllOrNothing
    BY DEF IInv
  <1> QED
    BY Invariance, <1>1, PTL

\* No failure and no crash, not even one in the rollback, leaves a path with a
\* content that is neither the old nor the new one.
THEOREM BatchIsOldOrNew == Spec => []OldOrNew
  <1>1. IInv => OldOrNew
    BY DEF IInv
  <1> QED
    BY Invariance, <1>1, PTL

\* A connector that moves to another path is in the worktree at every moment.
THEOREM BatchMoveNeverLoses == Spec => []MoveNeverLoses
  <1>1. IInv => MoveNeverLoses
    BY DEF IInv
  <1> QED
    BY Invariance, <1>1, PTL

(***************************************************************************)
(* Submitting a batch of writes again after a crash.                       *)
(***************************************************************************)
\* A write finds the same answer whether the path holds the old content or
\* already the new one, and leaves the same content.
LEMMA WriteAgain ==
  ASSUME NEW w \in Mutation, w.type = "write", NEW f \in Entry, NEW g \in Entry,
         Plan(f, w) # "error",
         Content(g) \in {Content(f), Content(After(f, w))}
  PROVE  /\ Plan(g, w) # "error"
         /\ Content(After(g, w)) = Content(After(f, w))
  <1>1. /\ w.content \in Contents /\ w.content \notin {Absent, Directory}
        /\ Written(w.content) \in File /\ Written(w.content).content = w.content
    BY MutationFields, WrittenFile, EntryAssumption
  <1>2. /\ \A h \in File : Content(h) = h.content /\ h.content \in Contents
        /\ Content(Absent) = Absent /\ Content(Directory) = Directory
    BY EntryAssumption DEF Content, File
  <1>3. \A h \in Entry : Plan(h, w) # "error" =>
          After(h, w) \in File /\ After(h, w).content = w.content
    BY <1>1, PlanAfter DEF Same
  <1>4. Content(After(f, w)) = w.content
    BY <1>2, <1>3
  <1>5. CASE Content(g) = w.content
    <2>1. Same(g, w.content)
      BY <1>1, <1>2, <1>5 DEF Entry, Same
    <2>2. Plan(g, w) = "unchanged"
      BY <2>1, EntryAssumption DEF Plan, PlanWrite, Same
    <2> QED
      BY <1>2, <1>3, <1>4, <2>2
  <1>6. CASE Content(g) = Content(f) /\ Content(g) # w.content
    <2>1. ~Same(f, w.content) /\ ~Same(g, w.content)
      BY <1>2, <1>6 DEF Same
    <2>2. (f = Absent /\ g = Absent) \/ (f \in File /\ g \in File)
      BY <1>1, <1>2, <1>6, EntryAssumption DEF Entry, Plan, PlanWrite, Same
    <2>3. Plan(g, w) # "error"
      BY <2>1, <2>2, EntryAssumption DEF Plan, PlanWrite, Same
    <2> QED
      BY <1>2, <1>3, <1>4, <2>3
  <1> QED
    BY <1>4, <1>5, <1>6

LEMMA ResultAt ==
  ASSUME NEW b \in Seq(Mutation), NoDuplicates(b), NEW t, NEW k \in DOMAIN b
  PROVE  b[k].path \in Paths /\ Result(t, b)[b[k].path] = After(t[b[k].path], b[k])
  <1>1. b[k].path \in Paths
    BY MutationFields
  <1>2. (CHOOSE h \in DOMAIN b : b[h].path = b[k].path) = k
    BY DEF NoDuplicates
  <1> QED
    BY <1>1, <1>2 DEF Result

\* A batch of writes interrupted by a crash is admitted again on what the
\* crash left, and its result has the contents the first attempt was after.
THEOREM BatchCrashRestartable == Spec => []CrashRestartable
  <1>1. ASSUME TypeOK, OldOrNew PROVE CrashRestartable
    <2> SUFFICES ASSUME edited = {}, Admissible(orig, batch),
                        \A k \in DOMAIN batch : batch[k].type = "write"
                 PROVE  /\ Admissible(tree, batch)
                        /\ \A p \in Paths : Content(Result(tree, batch)[p])
                                              = Content(Result(orig, batch)[p])
      BY DEF CrashRestartable
    <2>1. NoDuplicates(batch) /\ batch \in Seq(Mutation)
      BY <1>1 DEF Admissible, TypeOK
    <2>2. ASSUME NEW k \in DOMAIN batch
          PROVE  /\ Plan(tree[batch[k].path], batch[k]) # "error"
                 /\ Content(Result(tree, batch)[batch[k].path])
                      = Content(Result(orig, batch)[batch[k].path])
      <3>1. /\ batch[k] \in Mutation /\ batch[k].path \in Paths
            /\ tree[batch[k].path] \in Entry /\ orig[batch[k].path] \in Entry
        BY <1>1, <2>1, MutationFields DEF TypeOK, Tree
      <3>2. /\ Result(tree, batch)[batch[k].path]
                 = After(tree[batch[k].path], batch[k])
            /\ Result(orig, batch)[batch[k].path]
                 = After(orig[batch[k].path], batch[k])
        BY <2>1, ResultAt
      <3>3. Content(tree[batch[k].path]) \in
              {Content(orig[batch[k].path]),
               Content(After(orig[batch[k].path], batch[k]))}
        BY <1>1, <3>1, <3>2 DEF OldOrNew
      <3> QED
        BY <3>1, <3>2, <3>3, WriteAgain DEF Admissible
    <2>3. ASSUME NEW p \in Paths, \A k \in DOMAIN batch : batch[k].path # p
          PROVE  Content(Result(tree, batch)[p]) = Content(Result(orig, batch)[p])
      BY <1>1, <2>3 DEF OldOrNew, Result
    <2> QED
      BY <2>1, <2>2, <2>3 DEF Admissible
  <1> QED
    BY TypeCorrect, BatchIsOldOrNew, <1>1, PTL

(***************************************************************************)
(* ApplyBatch implements the atomic batch, whatever fails and whoever else *)
(* writes.                                                                 *)
(***************************************************************************)
\* Instantiation changes neither the data nor what a batch means.
LEMMA AbsOperators ==
  /\ Abs!Tree = Tree
  /\ \A f : Abs!Content(f) = Content(f)
  /\ \A f, mm : Abs!Plan(f, mm) = Plan(f, mm)
  /\ \A b : Abs!NoDuplicates(b) <=> NoDuplicates(b)
  /\ \A S : Abs!Cardinality(S) = Cardinality(S)
  /\ \A t, b : Abs!Result(t, b) = Result(t, b)
  <1>1. Abs!File = File /\ Abs!Entry = Entry /\ Abs!Tree = Tree
    BY DEF Abs!File, File, Abs!Entry, Entry, Abs!Tree, Tree
  <1>2. \A f, c : Abs!Same(f, c) <=> Same(f, c)
    BY <1>1 DEF Abs!Same, Same
  <1>3. \A f, mm : Abs!Plan(f, mm) = Plan(f, mm)
    BY <1>1, <1>2 DEF Abs!Plan, Plan, Abs!PlanWrite, PlanWrite,
       Abs!PlanRemove, PlanRemove
  <1>4. \A f, mm : Abs!After(f, mm) = After(f, mm)
    BY <1>2 DEF Abs!After, After, Abs!Written, Written
  <1>5. \A f : Abs!Content(f) = Content(f)
    BY <1>1 DEF Abs!Content, Content
  <1>6. \A t, b : Abs!Result(t, b) = Result(t, b)
    BY <1>4 DEF Abs!Result, Result
  <1>7. \A b : Abs!NoDuplicates(b) <=> NoDuplicates(b)
    BY DEF Abs!NoDuplicates, NoDuplicates
  <1>8. \A S : Abs!Cardinality(S) = Cardinality(S)
    BY Zenon DEF Abs!Cardinality, Cardinality
  <1> QED
    BY <1>1, <1>3, <1>5, <1>6, <1>7, <1>8

\* When the apply loop ends, each mutation was admissible on a path nobody else
\* has touched.
LEMMA AppliedAdmissible ==
  ASSUME IInv, ApplyDone
  PROVE  /\ NoDuplicates(batch)
         /\ \A k \in DOMAIN batch : batch[k].path \notin edited =>
              Plan(orig[batch[k].path], batch[k]) # "error"
  <1>1. /\ checked = Len(ordered) /\ DOMAIN ordered = 1..Len(ordered)
        /\ RunningInv /\ pc # "idle"
    BY DEF checked, ApplyDone, IInv, TypeOK
  <1>2. NoDuplicates(ordered)
    BY <1>1 DEF RunningInv, PreflightInv, NoDuplicates
  <1>3. \A k \in DOMAIN ordered : ordered[k].path \notin edited =>
          Plan(orig[ordered[k].path], ordered[k]) # "error"
    BY <1>1 DEF RunningInv, PreflightInv
  <1>4. /\ NoDuplicates(ordered) => NoDuplicates(batch)
        /\ \A k \in DOMAIN batch : \E j \in DOMAIN ordered : ordered[j] = batch[k]
    BY <1>1, OrderingSame DEF IInv, TypeOK, RunningInv
  <1> QED
    BY <1>2, <1>3, <1>4

LEMMA AbsStep ==
  ASSUME IInv, IInv', [Next]_vars
  PROVE  [Abs!Next]_(Abs!vars)
  <1>1. CASE pc = "idle" /\ pc' # "idle"
    <2>1. PICK b \in Batches : Start(b)
      BY <1>1 DEF Next, Step, vars, Start, NewProcess, Edit, Crash, Unchanged,
         Changed, CaptureBackup, PreflightError, PreflightDone, SkipUnchanged,
         WriteNothing, StageWrite, RenameWrite, ApplyRemove, ApplyError,
         ApplyDone, RollbackRemove, RollbackRemoveError, StageRestore,
         RenameRestore, RestoreError, RestoreMode, RestoreModeError, RollbackDone
    <2>2. Abs!Submit(b)
      BY <1>1, <2>1 DEF Start, Abs!Submit
    <2> QED
      BY <2>2 DEF Abs!Next
  <1>2. CASE pc # "idle" /\ pc' # "idle"
    <2>1. UNCHANGED <<orig, batch, outcome>>
      BY <1>2 DEF Next, Step, vars, Start, NewProcess, Edit, Crash, Unchanged,
         Changed, CaptureBackup, PreflightError, PreflightDone, SkipUnchanged,
         WriteNothing, StageWrite, RenameWrite, ApplyRemove, ApplyError,
         ApplyDone, RollbackRemove, RollbackRemoveError, StageRestore,
         RenameRestore, RestoreError, RestoreMode, RestoreModeError,
         RollbackDone, Return
    <2> QED
      BY <1>2, <2>1 DEF Abs!vars
  <1>3. CASE pc = "idle" /\ pc' = "idle"
    <2>1. NewProcess \/ UNCHANGED vars
      BY <1>3 DEF Next, Step, vars, Start, Crash, Edit, Unchanged, Changed,
         CaptureBackup, PreflightError, PreflightDone, SkipUnchanged,
         WriteNothing, StageWrite, RenameWrite, ApplyRemove, ApplyError,
         ApplyDone, RollbackRemove, RollbackRemoveError, StageRestore,
         RenameRestore, RestoreError, RestoreMode, RestoreModeError, RollbackDone
    <2>2. NewProcess => Abs!NextCommand
      BY <1>3 DEF NewProcess, Abs!NextCommand, IInv
    <2>3. UNCHANGED vars => UNCHANGED Abs!vars
      BY DEF vars, Abs!vars
    <2> QED
      BY <2>1, <2>2, <2>3 DEF Abs!Next
  <1>4. CASE pc # "idle" /\ pc' = "idle"
    <2>1. PreflightError \/ ApplyDone \/ RollbackDone \/ Crash
      BY <1>4 DEF Next, Step, vars, Start, NewProcess, Edit, Unchanged, Changed,
         CaptureBackup, PreflightDone, SkipUnchanged, WriteNothing, StageWrite,
         RenameWrite, ApplyRemove, ApplyError, RollbackRemove,
         RollbackRemoveError, StageRestore, RenameRestore, RestoreError,
         RestoreMode, RestoreModeError, NextMutation, Undone
    <2>2. UNCHANGED <<tree, orig, batch, edited>> /\ outcome = "pending"
      BY <1>4, <2>1 DEF PreflightError, ApplyDone, RollbackDone, Crash, IInv,
         RunningInv
    <2>3. /\ tree \in Abs!Tree /\ edited \in SUBSET Paths
          /\ Cardinality(edited) <= MaxEdits
      BY AbsOperators DEF IInv, TypeOK
    <2>4. \A p \in Paths \ edited :
            /\ outcome' = "ok" => tree[p] = Abs!Result(orig, batch)[p]
            /\ outcome' = "error" => tree[p] = orig[p]
      BY <2>2, AbsOperators DEF IInv, AllOrNothing
    <2>5. Abs!End(outcome', edited)
      BY <1>4, <2>2, <2>3, AbsOperators DEF Abs!End
    <2>6. Abs!OldOrNew(edited)
      <3>1. \A p \in Paths \ edited :
              Abs!Content(tree[p]) \in {Abs!Content(orig[p]),
                                       Abs!Content(Abs!Result(orig, batch)[p])}
        BY AbsOperators DEF IInv, OldOrNew
      <3>2. (IF pc = "idle" THEN tree ELSE orig) = orig
            /\ (IF pc' = "idle" THEN tree' ELSE orig') = tree
        BY <1>4, <2>2
      <3> QED
        BY <3>1, <3>2, Zenon DEF Abs!OldOrNew
    <2>7. CASE outcome' = "ok"
      <3>1. ApplyDone
        BY <2>1, <2>7 DEF PreflightError, RollbackDone, Crash, Return
      <3>2. /\ Abs!NoDuplicates(batch)
            /\ \A k \in DOMAIN batch : batch[k].path \notin edited =>
                 Abs!Plan(orig[batch[k].path], batch[k]) # "error"
        BY <3>1, AppliedAdmissible, AbsOperators
      <3>3. Abs!Commit(edited)
        BY <1>4, <2>2, <2>4, <2>5, <2>7, <3>2 DEF Abs!Commit
      <3> QED
        BY <2>3, <3>3 DEF Abs!Next
    <2>8. CASE outcome' = "error"
      <3>1. Abs!Refuse(edited)
        BY <1>4, <2>2, <2>4, <2>5, <2>8 DEF Abs!Refuse
      <3> QED
        BY <2>3, <3>1 DEF Abs!Next
    <2>9. CASE outcome' = "dirty"
      <3>1. "rollback" \in Faults \/ edited # {}
        BY <2>2, <2>9 DEF IInv, BlameInv
      <3>2. Abs!Spoil(edited)
        BY <2>5, <2>6, <2>9, <3>1 DEF Abs!Spoil
      <3> QED
        BY <2>3, <3>2 DEF Abs!Next
    <2>10. CASE outcome' = "crashed"
      <3>1. "crash" \in Faults
        BY <2>1, <2>10 DEF PreflightError, ApplyDone, RollbackDone, Crash, Return
      <3>2. Abs!Crash(edited)
        BY <2>5, <2>6, <2>10, <3>1 DEF Abs!Crash
      <3> QED
        BY <2>3, <3>2 DEF Abs!Next
    <2> QED
      BY <2>1, <2>7, <2>8, <2>9, <2>10 DEF PreflightError, ApplyDone,
         RollbackDone, Crash, Return
  <1> QED
    BY <1>1, <1>2, <1>3, <1>4

\* Seen by its callers, ApplyBatch is one indivisible step on the paths no other
\* process touches; only a failed rollback or a crash leaves some of them new and
\* the others old, and a rollback fails only where its operations do or others write.
THEOREM ImplementsAtomicBatch == Spec => AbsSpec
  <1>1. Init => Abs!Init
    BY AbsOperators DEF Init, Abs!Init
  <1>2. IInv /\ IInv' /\ [Next]_vars => [Abs!Next]_(Abs!vars)
    BY AbsStep
  <1> QED
    BY Invariance, <1>1, <1>2, PTL DEF Spec, AbsSpec, Abs!Spec
=============================================================================
