----------------------------- MODULE MCWorktree -----------------------------
(***************************************************************************)
(* An instance of Worktree for TLC.                                        *)
(***************************************************************************)
EXTENDS Worktree

\* Two contents that differ; which one comes first makes no difference.
One   == CHOOSE c \in Contents : TRUE
Other == CHOOSE c \in Contents : c # One

Write(p, c, o) == [type |-> "write", path |-> p, content |-> c, overwrite |-> o]
Delete(p)      == [type |-> "remove", path |-> p]

\* Nothing, one mutation, two writes for one path, and three mutations of three paths,
\* in an order the sort changes: writes of new and of existing manifests, removals,
\* class moves.
SomeBatches ==
  {<< >>, <<Delete(1)>>, <<Write(2, One, TRUE), Write(1, One, TRUE), Write(2, Other, TRUE)>>}
    \cup {<<Write(1, One, o)>> : o \in BOOLEAN}
    \cup {<<Write(3, One, TRUE), second, Delete(1)>> : second \in {Write(2, Other, FALSE), Delete(2)}}
    \cup {<<Write(3, One, FALSE), Write(2, Other, TRUE), Write(1, One, TRUE)>>}
=============================================================================
