---------------------------- MODULE MCLifecycle ----------------------------
(***************************************************************************)
(* Instances of Lifecycle for TLC.                                         *)
(***************************************************************************)
EXTENDS Lifecycle

Everything == [name : Names, class : Classes, ver : Versions]

\* The first name has every configuration, the second one.
SecondFixed == {c \in Everything : c.name = 1 \/ (c.class = 2 /\ c.ver = 1)}

\* Each class has its own worker.
ByClass == [c \in Classes |-> IF c = 1 THEN "default" ELSE "dedicated"]

NoMapping == [n \in Names |-> NoProfile]

\* The first connector is mapped to a profile.
OneMapping == [n \in Names |-> IF n = 1 THEN "dedicated" ELSE NoProfile]

\* Two source manifests that get the same target name, of different classes, and one of
\* another name.
TwoTargets == {[name |-> 1, class |-> 1, ver |-> 1], [name |-> 1, class |-> 2, ver |-> 1],
               [name |-> 2, class |-> 2, ver |-> 1]}

\* Two source manifests that get the same target name, and the same class.
OneTarget == {[name |-> 1, class |-> 1, ver |-> v] : v \in Versions}
=============================================================================
