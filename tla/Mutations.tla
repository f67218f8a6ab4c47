----------------------------- MODULE Mutations -----------------------------
(***************************************************************************)
(* The data ApplyBatch works on (internal/repository/mutation.go): files   *)
(* of the Git worktree, mutations, what the preflight of one mutation      *)
(* answers and what an applied mutation leaves at its path.                *)
(*                                                                         *)
(* A file is its content and its permission bits.  A path holds a file, a  *)
(* directory or nothing.  Contents are opaque: the code only compares      *)
(* them.  Paths are numbers, ordered as filepath.Clean(path) orders them.  *)
(***************************************************************************)
EXTENDS Integers, Sequences

CONSTANTS
  Paths,        \* the manifest paths a batch can name
  Contents,     \* the contents a manifest can have
  Modes,        \* the permission bits a manifest can have
  DefaultMode,  \* 0644, the bits every file written by WriteAtomic gets
  Absent,       \* the path does not exist
  Directory     \* the path is a directory

File  == [content : Contents, mode : Modes]
Entry == File \cup {Absent, Directory}
Tree  == [Paths -> Entry]

ASSUME PathsAssumption == Paths \subseteq Nat
ASSUME ModesAssumption == DefaultMode \in Modes
ASSUME EntryAssumption ==
  /\ Absent \notin File
  /\ Directory \notin File
  /\ Absent # Directory
  /\ Contents \cap {Absent, Directory} = {}

WriteMutation  == [type : {"write"}, path : Paths, content : Contents,
                   overwrite : BOOLEAN]
RemoveMutation == [type : {"remove"}, path : Paths]
Mutation       == WriteMutation \cup RemoveMutation

Content(f) == IF f \in File THEN f.content ELSE f
Same(f, c) == f \in File /\ f.content = c

\* Mutant of PlanWrite: overwrite is looked at before the contents are compared.
PlanWriteStrict(f, c, overwrite) ==
  CASE f = Absent                                   -> "changed"
    [] f \in File /\ overwrite /\ Same(f, c)        -> "unchanged"
    [] f \in File /\ overwrite /\ ~Same(f, c)       -> "changed"
    [] OTHER                                        -> "error"

PlanWrite(f, c, overwrite) ==
  CASE f = Absent                           -> "changed"
    [] Same(f, c)                           -> "unchanged"
    [] f \in File /\ ~Same(f, c) /\ overwrite -> "changed"
    [] OTHER                                -> "error"

PlanRemove(f) == IF f \in File THEN "changed" ELSE "error"

\* The switch of ApplyBatch's preflight loop.
Plan(f, m) == IF m.type = "write" THEN PlanWrite(f, m.content, m.overwrite)
                                  ELSE PlanRemove(f)

Written(c) == [content |-> c, mode |-> DefaultMode]

\* What the path of m holds once m is applied to an entry f.
After(f, m) == CASE m.type = "remove"  -> Absent
                 [] m.type = "write" /\ Same(f, m.content)  -> f
                 [] m.type = "write" /\ ~Same(f, m.content) -> Written(m.content)

\* Mutant of Before: the batch is sorted by path alone.
BeforeByPath(a, b) == a.path < b.path

\* The comparison ApplyBatch sorts with: writes first, then by path.
Before(a, b) == IF a.type # b.type THEN a.type = "write" ELSE a.path < b.path

(***************************************************************************)
(* What a batch promises, independent of the order it is applied in.       *)
(***************************************************************************)
NoDuplicates(b) ==
  \A j, k \in DOMAIN b : b[j].path = b[k].path => j = k

Admissible(t, b) ==
  /\ NoDuplicates(b)
  /\ \A k \in DOMAIN b : Plan(t[b[k].path], b[k]) # "error"

Result(t, b) ==
  [p \in Paths |-> IF \E k \in DOMAIN b : b[k].path = p
                   THEN After(t[p], b[CHOOSE k \in DOMAIN b : b[k].path = p])
                   ELSE t[p]]
=============================================================================
