---------------------------- MODULE MCOperations ----------------------------
(***************************************************************************)
(* An instance of Operations for TLC.  Connector 2 belongs to another      *)
(* environment: only CREATE looks at it, and its CR may hold connector 1.  *)
(***************************************************************************)
EXTENDS Operations, TLC

\* The commands call the CR like the connector.
SameName == [n \in Names |-> n]

\* Each profile has discovery fields of its own.
OwnRef == [p \in Profiles |-> IF p = "a" THEN "fieldsA" ELSE "fieldsB"]

One(name, label, ref) == [name |-> name, label |-> label, ref |-> ref]

\* Nothing, a CR under its own name, CRs under each other's names (made by hand,
\* one without a label), a duplicate, a label that contradicts the fields.
Trees ==
  {<< >>, 1 :> One(1, "a", "fieldsA"),
   (1 :> One(2, "b", "fieldsB")) @@ (2 :> One(1, NoLabel, "fieldsA")),
   (1 :> One(1, "a", "fieldsA")) @@ (2 :> One(1, "b", "fieldsB")),
   1 :> One(1, "b", "fieldsA")}

\* Connector 1 runs anywhere, connector 2 on one profile or on both.
Running == {S \cup T : S \in SUBSET ({1} \X Profiles), T \in {{<<2, "b">>}, {2} \X Profiles}}

AllRun == {[x \in Places |-> "running"]}
=============================================================================
