----------------------------- MODULE YamlProofs -----------------------------
(***************************************************************************)
(* Proofs about the YAML library (Yaml): the automaton takes a token every *)
(* few steps, and gives the node builder no event it has no branch for;    *)
(* the scanner counts the blocks the automaton is inside of.               *)
(***************************************************************************)
EXTENDS Yaml, FiniteSetTheorems, SequenceTheorems, WellFoundedInduction, TLAPS

-----------------------------------------------------------------------------
(* The states of the automaton, by what the node builder waits for in them. *)

Fields == {"state", "states", "block", "indentless", "anchor", "tag", "tags", "version"}

\* Outside of every document, or at the end of one: nothing to return to.
Outer == {"stream start", "implicit document start", "document start", "directives",
          "document end", "end"}
\* About to read a node, for the state on the top of the stack.
Nodal == {"node", "document content"}
\* Where a node may be followed by an indentless sequence's end.
MappingBacks == {"block mapping value", "block mapping key"}
IndentlessStates == {"indentless sequence", "indentless sequence item"}
\* The states a node returns to, in a collection and at the end of a document.
InnerBacks == {"block sequence", "indentless sequence", "flow sequence",
          "block mapping value", "block mapping key", "flow mapping value",
          "flow mapping empty value", "flow mapping key", "flow pair value", "flow pair end"}
Backs == InnerBacks \cup {"document end"}

SequenceStates == {"block sequence first", "block sequence", "block sequence item",
                   "indentless sequence", "indentless sequence item",
                   "flow sequence first", "flow sequence item", "flow sequence"}
KeyStates   == {"block mapping first", "block mapping key", "block mapping key item",
                "flow mapping first", "flow mapping item", "flow mapping key",
                "flow mapping key item", "flow pair key", "flow pair end"}
ValueStates == {"block mapping value", "block mapping value item", "flow pair value",
                "flow pair value item", "flow mapping value", "flow mapping value item",
                "flow mapping empty value"}
PairStates  == {"flow pair key", "flow pair value", "flow pair value item", "flow pair end"}
Inner       == SequenceStates \cup KeyStates \cup ValueStates
States      == Outer \cup Nodal \cup Inner

\* What the builder waits for in a state, and how many of its calls the state
\* stands for: a pair in a flow sequence is inside of two.
Top(s)    == IF s \in SequenceStates THEN "sequence"
             ELSE IF s \in KeyStates THEN "key"
             ELSE IF s \in ValueStates THEN "value"
             ELSE "document done"
Height(s) == IF s \in PairStates THEN 2
             ELSE IF s \in Outer \ {"document end"} THEN 0 ELSE 1
\* What it waited for while the node before that state was read.
Before(s) == IF s = "document end" THEN "document"
             ELSE IF s \in KeyStates THEN "value"
             ELSE IF s \in ValueStates THEN "key"
             ELSE "sequence"

-----------------------------------------------------------------------------
(* The invariant.                                                          *)

\* The stack of the automaton.
WellFormed(p) ==
  /\ DOMAIN p = Fields
  /\ p.state # "error" =>
       /\ p.state \in States /\ p.states \in Seq(Backs)
       /\ p.state \in Outer => p.states = <<>>
       /\ p.state \notin Outer => p.states # <<>> /\ p.states[1] \notin InnerBacks
       /\ \A i \in 2..Len(p.states) : p.states[i] \in InnerBacks
       /\ \A i \in 2..Len(p.states) :
            p.states[i] \in IndentlessStates => p.states[i - 1] \in MappingBacks
       /\ (p.state \in IndentlessStates
             \/ (p.state = "node" /\ p.indentless))
            => p.states[Len(p.states)] \in MappingBacks

\* The states whose builder calls are below the one that waits, and the latter.
Lower(p)   == IF p.state \in Nodal THEN Len(p.states) - 1 ELSE Len(p.states)
Innermost(p) == IF p.state \in Nodal THEN p.states[Len(p.states)] ELSE p.state
Awaited(p) == IF p.state \in Nodal THEN Before(Innermost(p)) ELSE Top(Innermost(p))

\* The builder's calls above the k-th are those of one state.
Stands(stack, k, height, top) ==
  /\ height > 0 => stack[k + height] = top
  /\ height = 2 => stack[k + 1] = "sequence"

\* The calls of the builder are the first n states of the automaton's stack, one by
\* one; f says how many of them are below each.
Grounded(states, n, stack, f) ==
  /\ f \in [1..n + 1 -> Nat] /\ f[1] = 1
  /\ \A i \in 1..n : /\ f[i + 1] = f[i] + Height(states[i])
                     /\ Stands(stack, f[i], Height(states[i]), Top(states[i]))
  /\ \A i, j \in 1..n + 1 : i <= j => f[i] <= f[j]
Founded(p, b, f) ==
  /\ Grounded(p.states, Lower(p), b.stack, f)
  /\ Len(b.stack) = f[Lower(p) + 1] + Height(Innermost(p))
  /\ Stands(b.stack, f[Lower(p) + 1], Height(Innermost(p)), Awaited(p))

BuilderFields == {"stack", "anchored", "outcome"}
Waits == {"stream", "document", "document done", "sequence", "key", "value"}
Matched(p, b) ==
  /\ DOMAIN b = BuilderFields /\ b.stack \in Seq(Waits) /\ b.outcome = "reading"
  /\ b.stack # <<>> /\ b.stack[1] = "stream"
  /\ \E f : Founded(p, b, f)

BuilderInv ==
  \/ builder.outcome \in {"read", "unknown anchor"}
  \/ builder.outcome = "reading" /\ parser.state = "error"
  \/ Matched(parser, builder)

\* How many steps the automaton may have made at the token t when it is in the
\* state: the longest way there from a step that takes a token.
Delay(s) ==
  IF s = "error" THEN 4
  ELSE IF s \in {"directives", "block mapping key", "flow sequence"} THEN 3
  ELSE IF s \in {"document start", "block sequence first", "block mapping first",
                 "flow sequence first", "flow mapping first", "block mapping value",
                 "flow pair end", "flow mapping key"} THEN 2
  ELSE IF s \in {"document end", "block sequence", "indentless sequence", "flow pair value",
                 "flow mapping value", "flow mapping empty value"} THEN 1
  ELSE 0
\* Where the token and the properties of the node count too.
Varying == {"node", "indentless sequence"}
Patience(p, t) ==
  IF p.state = "node" THEN (IF p.anchor \/ p.tag # "" THEN 0 ELSE 1)
  ELSE IF p.state = "indentless sequence" /\ t.type = "-" THEN 2
  ELSE Delay(p.state)

IdleInv ==
  /\ idle \in Nat
  /\ IF scanner.available THEN idle <= Patience(parser, Head(scanner.tokens)) ELSE idle = 0


-----------------------------------------------------------------------------
(* Sequences, and the fields of a parser after a move.                     *)

\* What Front and Last of a sequence are.
LEMMA FrontLast ==
  ASSUME NEW S, NEW s \in Seq(S), s # <<>>
  PROVE  /\ Len(s) \in Nat \ {0} /\ DOMAIN s = 1..Len(s)
         /\ Last(s) = s[Len(s)] /\ Last(s) \in S
         /\ Front(s) \in Seq(S) /\ Len(Front(s)) = Len(s) - 1
         /\ DOMAIN Front(s) = 1..Len(s) - 1
         /\ \A i \in 1..Len(s) - 1 : Front(s)[i] = s[i]
<1>1. Len(s) \in Nat \ {0} /\ DOMAIN s = 1..Len(s) /\ \A i \in 1..Len(s) : s[i] \in S
  BY EmptySeq, LenProperties, ElementOfSeq
<1>2. \A i \in 1..Len(s) - 1 : s[i] \in S
  BY <1>1
<1>3. /\ SubSeq(s, 1, Len(s) - 1) \in Seq(S) /\ Len(SubSeq(s, 1, Len(s) - 1)) = Len(s) - 1
      /\ \A i \in 1..Len(s) - 1 : SubSeq(s, 1, Len(s) - 1)[i] = s[i]
  BY <1>1, <1>2, SubSeqProperties
<1> QED BY <1>1, <1>3, LenProperties DEF Front, Last

\* Goto changes the state alone.
LEMMA GotoFields ==
  ASSUME NEW p, DOMAIN p = Fields, NEW state
  PROVE  /\ DOMAIN Goto(p, state) = Fields
         /\ Goto(p, state).state = state /\ Goto(p, state).states = p.states
BY DEF Goto, Fields

\* Return takes the state on the top of the stack.
LEMMA ReturnFields ==
  ASSUME NEW p, DOMAIN p = Fields
  PROVE  /\ DOMAIN Return(p) = Fields
         /\ Return(p).state = Last(p.states) /\ Return(p).states = Front(p.states)
BY DEF Return, Fields

\* Reading a node begins without an anchor and without a tag.
LEMMA NodeFields ==
  ASSUME NEW p, DOMAIN p = Fields, NEW block, NEW indentless \in BOOLEAN
  PROVE  /\ DOMAIN Node(p, block, indentless) = Fields
         /\ Node(p, block, indentless).state = "node"
         /\ Node(p, block, indentless).states = p.states
         /\ Node(p, block, indentless).indentless = indentless
         /\ Node(p, block, indentless).anchor = FALSE /\ Node(p, block, indentless).tag = ""
BY DEF Node, Fields

\* Call puts a state to return to on the stack.
LEMMA CallFields ==
  ASSUME NEW p, DOMAIN p = Fields, NEW back
  PROVE  /\ DOMAIN Call(p, back) = Fields
         /\ Call(p, back).state = p.state /\ Call(p, back).states = Append(p.states, back)
BY DEF Call, Fields

\* A document begins with the state at its end on the stack.
LEMMA DocumentFields ==
  ASSUME NEW p, DOMAIN p = Fields
  PROVE  /\ DOMAIN Document(p) = Fields
         /\ Document(p).state = p.state
         /\ Document(p).states = Append(p.states, "document end")
BY DEF Document, Call, Fields

-----------------------------------------------------------------------------
(* The stack of the automaton stays well formed.                           *)

\* A move inside of the innermost collection, or to its first state.
LEMMA GotoWellFormed ==
  ASSUME NEW p, WellFormed(p), p.state \in States \ Outer, NEW state \in Inner,
         state \in IndentlessStates => p.states[Len(p.states)] \in MappingBacks
  PROVE  WellFormed(Goto(p, state))
<1>1. p.states \in Seq(Backs) /\ p.states # <<>> /\ DOMAIN p = Fields /\ p.state # "error"
  BY DEF WellFormed, States, Nodal, Inner, Outer, SequenceStates, KeyStates, ValueStates
<1>2. state \in States \ Outer /\ state # "error" /\ state # "node"
  BY DEF States, Nodal, Inner, Outer, SequenceStates, KeyStates, ValueStates
<1> QED BY <1>1, <1>2, GotoFields DEF WellFormed

\* A move outside of every document.
LEMMA OuterWellFormed ==
  ASSUME NEW p, WellFormed(p), p.state \in Outer, NEW state \in Outer
  PROVE  WellFormed(Goto(p, state))
<1>1. /\ p.states = <<>> /\ DOMAIN p = Fields
      /\ state \in States /\ state \notin {"error", "node"} \cup IndentlessStates
  BY DEF WellFormed, States, Outer, IndentlessStates
<1>2. p.states \in Seq(Backs) /\ Len(p.states) = 0
  BY <1>1, EmptySeq
<1>3. Goto(p, state).states = <<>> /\ Goto(p, state).state = state /\ DOMAIN Goto(p, state) = Fields
  BY <1>1, GotoFields
<1> QED BY <1>1, <1>2, <1>3 DEF WellFormed

\* The state returned to is an outer one exactly when it is the last on the stack.
LEMMA ReturnWellFormed ==
  ASSUME NEW p, WellFormed(p), p.state \in States \ Outer
  PROVE  WellFormed(Return(p))
<1>1. p.states \in Seq(Backs) /\ p.states # <<>> /\ DOMAIN p = Fields /\ p.state # "error"
  BY DEF WellFormed, States, Nodal, Inner, Outer, SequenceStates, KeyStates, ValueStates
<1> DEFINE q == Return(p)
           n == Len(p.states)
<1>2. DOMAIN q = Fields /\ q.state = Last(p.states) /\ q.states = Front(p.states)
  BY <1>1, ReturnFields
<1>3. /\ n \in Nat \ {0} /\ DOMAIN p.states = 1..n /\ q.state = p.states[n] /\ q.state \in Backs
      /\ q.states \in Seq(Backs) /\ Len(q.states) = n - 1 /\ DOMAIN q.states = 1..n - 1
      /\ \A i \in 1..n - 1 : q.states[i] = p.states[i]
  BY <1>1, <1>2, FrontLast
<1>4. /\ p.states[1] \notin InnerBacks
      /\ \A i \in 2..n : p.states[i] \in InnerBacks
      /\ \A i \in 2..n : p.states[i] \in IndentlessStates => p.states[i - 1] \in MappingBacks
  BY <1>1, <1>3 DEF WellFormed
<1> HIDE DEF q, n
<1>5. q.state \in States /\ q.state # "error" /\ q.state # "node"
      /\ (q.state \in Outer <=> q.state \notin InnerBacks)
  BY <1>3 DEF Backs, InnerBacks, States, Outer, Inner, SequenceStates, KeyStates, ValueStates
<1>6. q.state \in Outer => q.states = <<>>
  <2> SUFFICES ASSUME q.state \in Outer PROVE Len(q.states) = 0
    BY <1>3
  <2>1. n \notin 2..n BY <1>3, <1>4, <1>5
  <2> QED BY <2>1, <1>3
<1>7. q.state \notin Outer => q.states # <<>> /\ q.states[1] \notin InnerBacks
  <2> SUFFICES ASSUME q.state \notin Outer PROVE Len(q.states) # 0 /\ q.states[1] \notin InnerBacks
    OBVIOUS
  <2>1. n # 1 BY <1>3, <1>4, <1>5
  <2> QED BY <2>1, <1>3, <1>4
<1>14. /\ \A i \in 2..n - 1 : i \in 2..n /\ q.states[i] = p.states[i]
       /\ \A i \in 2..n - 1 : q.states[i - 1] = p.states[i - 1]
  <2>1. \A i \in 2..n - 1 : i \in 2..n /\ i \in 1..n - 1 /\ i - 1 \in 1..n - 1
    BY <1>3
  <2> QED BY <1>3, <2>1
<1>8. \A i \in 2..n - 1 : q.states[i] \in InnerBacks
  BY <1>4, <1>14
<1>9. \A i \in 2..n - 1 : q.states[i] \in IndentlessStates => q.states[i - 1] \in MappingBacks
  BY <1>4, <1>14
<1>10. q.state \in IndentlessStates => q.states[Len(q.states)] \in MappingBacks
  <2> SUFFICES ASSUME q.state \in IndentlessStates
               PROVE  q.states[n - 1] \in MappingBacks
    BY <1>3
  <2>1. q.state \in InnerBacks BY <1>3 DEF IndentlessStates, Backs, InnerBacks
  <2>2. n # 1 BY <2>1, <1>3, <1>4
  <2> QED BY <2>2, <1>3, <1>4
<1>11. WellFormed(q)
  BY <1>2, <1>3, <1>5, <1>6, <1>7, <1>8, <1>9, <1>10 DEF WellFormed
<1> QED BY <1>11 DEF q

\* A node inside of a collection.
LEMMA CallWellFormed ==
  ASSUME NEW p, WellFormed(p), p.state \in Inner, NEW back \in InnerBacks,
         back \in IndentlessStates => p.states[Len(p.states)] \in MappingBacks,
         NEW block, NEW indentless \in BOOLEAN, indentless => back \in MappingBacks
  PROVE  WellFormed(Node(Call(p, back), block, indentless))
<1> DEFINE q == Node(Call(p, back), block, indentless)
           n == Len(p.states)
<1>1. /\ p.states \in Seq(Backs) /\ p.states # <<>> /\ DOMAIN p = Fields
      /\ n \in Nat \ {0} /\ DOMAIN p.states = 1..n
  <2>1. p.state \in States \ Outer /\ p.state # "error"
    BY DEF States, Inner, Outer, SequenceStates, KeyStates, ValueStates
  <2>2. p.states \in Seq(Backs) /\ p.states # <<>> /\ DOMAIN p = Fields
    BY <2>1 DEF WellFormed
  <2> QED BY <2>2, EmptySeq, LenProperties
<1>2. /\ DOMAIN q = Fields /\ q.state = "node" /\ q.states = Append(p.states, back)
      /\ q.indentless = indentless
  <2>1. DOMAIN Call(p, back) = Fields /\ Call(p, back).states = Append(p.states, back)
    BY <1>1, CallFields
  <2>2. PICK c : c = Call(p, back)
    OBVIOUS
  <2> DOMAIN c = Fields
    BY <2>1, <2>2
  <2>3. /\ DOMAIN Node(c, block, indentless) = Fields
        /\ Node(c, block, indentless).state = "node"
        /\ Node(c, block, indentless).states = c.states
        /\ Node(c, block, indentless).indentless = indentless
        /\ Node(c, block, indentless).anchor = FALSE /\ Node(c, block, indentless).tag = ""
    BY NodeFields, Zenon
  <2> QED BY <2>1, <2>2, <2>3
<1>3. /\ q.states \in Seq(Backs) /\ q.states # <<>> /\ Len(q.states) = n + 1
      /\ DOMAIN q.states = 1..n + 1 /\ q.states[n + 1] = back
      /\ \A i \in 1..n : q.states[i] = p.states[i]
  <2> HIDE DEF q
  <2>1. back \in Backs
    BY DEF Backs
  <2>2. /\ Append(p.states, back) \in Seq(Backs) /\ Append(p.states, back) # <<>>
        /\ Len(Append(p.states, back)) = n + 1 /\ Append(p.states, back)[n + 1] = back
        /\ \A i \in 1..n : Append(p.states, back)[i] = p.states[i]
    BY <1>1, <2>1, AppendProperties
  <2> QED BY <1>2, <2>2, LenProperties
<1>4. /\ p.states[1] \notin InnerBacks
      /\ \A i \in 2..n : p.states[i] \in InnerBacks
      /\ \A i \in 2..n : p.states[i] \in IndentlessStates => p.states[i - 1] \in MappingBacks
  <2>1. p.state # "error" /\ p.state \notin Outer
    BY DEF Inner, Outer, SequenceStates, KeyStates, ValueStates
  <2> QED BY <1>1, <2>1 DEF WellFormed
<1> HIDE DEF q, n
<1>5. \A i \in 2..n + 1 : q.states[i] \in InnerBacks
  <2> TAKE i \in 2..n + 1
  <2>1. CASE i = n + 1
    BY <2>1, <1>1, <1>3
  <2>2. CASE i \in 2..n
    BY <2>2, <1>1, <1>3, <1>4
  <2> QED BY <2>1, <2>2, <1>1
<1>6. \A i \in 2..n + 1 : q.states[i] \in IndentlessStates => q.states[i - 1] \in MappingBacks
  <2> SUFFICES ASSUME NEW i \in 2..n + 1, q.states[i] \in IndentlessStates
               PROVE  q.states[i - 1] \in MappingBacks
    OBVIOUS
  <2>1. CASE i = n + 1
    <3>1. q.states[n] = p.states[n] BY <1>1, <1>3
    <3>2. p.states[n] \in MappingBacks BY <2>1, <1>1, <1>3 DEF n
    <3> QED BY <2>1, <3>1, <3>2, <1>1
  <2>2. CASE i \in 2..n
    BY <2>2, <1>1, <1>3, <1>4
  <2> QED BY <2>1, <2>2, <1>1
<1>7. q.state \in States /\ q.state \notin Outer
  BY <1>2 DEF States, Nodal, Outer
<1>8. (q.state \in IndentlessStates \/ (q.state = "node" /\ q.indentless))
        => q.states[Len(q.states)] \in MappingBacks
  <2>1. q.state \notin IndentlessStates BY <1>2 DEF IndentlessStates
  <2>2. q.indentless => q.states[Len(q.states)] \in MappingBacks
    BY <1>2, <1>3
  <2> QED BY <2>1, <2>2
<1>9. q.states[1] \notin InnerBacks
  BY <1>1, <1>3, <1>4
<1>10. WellFormed(q)
  BY <1>1, <1>2, <1>3, <1>5, <1>6, <1>7, <1>8, <1>9 DEF WellFormed
<1> QED BY <1>10 DEF q

-----------------------------------------------------------------------------
(* The moves of the automaton.                                             *)

\* What the state after a collection's start looks at.
Firsts      == {"block sequence first", "block mapping first", "flow sequence first",
                "flow mapping first"}
BlockFirsts == {"block sequence first", "block mapping first"}
FirstToken(s) == IF s = "block sequence first" THEN "block-sequence-start"
                 ELSE IF s = "block mapping first" THEN "block-mapping-start"
                 ELSE IF s = "flow sequence first" THEN "[" ELSE "{"
BlockStarts == {"block-sequence-start", "block-mapping-start"}
BlockTokens == BlockStarts \cup {"block-end"}
\* The events that are a node by themselves.
Answers == {"scalar", "alias"}

\* Whether a state is inside of a block whose start was taken.
Nest(s) == IF s \in BlockStates \ BlockFirsts THEN 1 ELSE 0

Kept(p, q)     == q.states = p.states /\ p.state \notin Nodal /\ q.state \notin Nodal
Returned(p, q) == q.state = Last(p.states) /\ q.states = Front(p.states)

Fails(q, e)        == q.state = "error" /\ e = NoEvent
Moved(p, q, e)     == /\ e = NoEvent /\ Kept(p, q)
                      /\ Height(q.state) = Height(p.state) /\ Top(q.state) = Top(p.state)
                      /\ Nest(q.state) = IF p.state \in BlockFirsts THEN 1 ELSE Nest(p.state)
Continued(p, q, e) == /\ e = NoEvent /\ q.states = p.states
                      /\ p.state \in Nodal /\ q.state = "node"
Called(p, q, e)    == /\ e = NoEvent /\ p.state \in Inner /\ q.state = "node"
                      /\ \E back \in InnerBacks :
                           /\ q.states = Append(p.states, back)
                           /\ Height(back) = Height(p.state) /\ Before(back) = Top(p.state)
                           /\ Nest(back) = Nest(p.state)
Filled(p, q, e)    == /\ e.type = "scalar" /\ Kept(p, q) /\ {p.state, q.state} \subseteq Inner
                      /\ Height(q.state) = Height(p.state)
                      /\ Top(q.state) = Enclosed[Top(p.state)]
                      /\ Nest(q.state) = Nest(p.state)
Answered(p, q, e)  == e.type \in Answers /\ p.state \in Nodal /\ Returned(p, q)
Opening(p, q, e)    == /\ p.state = "node" /\ q.states = p.states /\ q.state \in Inner
                      /\ \/ e.type = "sequence-start" /\ Top(q.state) = "sequence"
                         \/ e.type = "mapping-start" /\ Top(q.state) = "key"
                      /\ Height(q.state) = 1 /\ Nest(q.state) = 0
Closing(p, q, e)    == /\ p.state \in Inner /\ Returned(p, q)
                      /\ \/ e.type = "sequence-end" /\ Top(p.state) = "sequence"
                         \/ e.type = "mapping-end" /\ Top(p.state) = "key"
                      /\ Height(p.state) = 1
PairOpened(p, q, e) == /\ e.type = "mapping-start" /\ q.states = p.states
                       /\ p.state = "flow sequence item" /\ q.state = "flow pair key"
PairClosed(p, q, e) == /\ e.type = "mapping-end" /\ q.states = p.states
                       /\ p.state = "flow pair end" /\ q.state = "flow sequence"
StreamStarted(p, q, e) == /\ e.type = "stream-start" /\ q.states = p.states
                          /\ p.state = "stream start" /\ q.state = "implicit document start"
StreamEnded(p, q, e)   == /\ e.type = "stream-end" /\ q.states = p.states
                          /\ p.state \in {"implicit document start", "document start"}
                          /\ q.state = "end"
DocumentStarted(p, q, e) == /\ e.type = "document-start" /\ q.states = Append(p.states, "document end")
                            /\ p.state \in {"implicit document start", "directives"}
                            /\ q.state \in Nodal
DocumentEnded(p, q, e)   == /\ e.type = "document-end" /\ q.states = p.states
                            /\ p.state = "document end" /\ q.state = "document start"

Move(p, q, e) ==
  \/ Fails(q, e)
  \/ Moved(p, q, e)
  \/ Continued(p, q, e)
  \/ Called(p, q, e)
  \/ Filled(p, q, e)
  \/ Answered(p, q, e)
  \/ Opening(p, q, e)
  \/ Closing(p, q, e)
  \/ PairOpened(p, q, e)
  \/ PairClosed(p, q, e)
  \/ StreamStarted(p, q, e)
  \/ StreamEnded(p, q, e)
  \/ DocumentStarted(p, q, e)
  \/ DocumentEnded(p, q, e)

\* The tokens of blocks: which steps take them, and that a collection's start is
\* looked at again where it opened the collection.
Tokens(p, t, r) ==
  /\ r.skipped /\ t.type \in BlockStarts <=> p.state \in BlockFirsts
  /\ r.skipped /\ t.type = "block-end"
       <=> Closing(p, r.parser, r.event) /\ Nest(p.state) = 1
  /\ r.parser.state \in Firsts => ~r.skipped /\ t.type = FirstToken(r.parser.state)

Timely(p, t, r) == r.skipped \/ Patience(p, t) + 1 <= Patience(r.parser, t)

Good(p, t, r) ==
  /\ WellFormed(r.parser) /\ r.skipped \in BOOLEAN
  /\ Move(p, r.parser, r.event) /\ Tokens(p, t, r) /\ Timely(p, t, r)

-----------------------------------------------------------------------------
(* Every kind of move is good.                                             *)

\* An event of no type is not one of those that begin, end or are a node.
LEMMA NoEventType == NoEvent.type = "none" /\ \A type : Plain(type).type = type
BY DEF NoEvent, Plain, Event

\* The delay of a state is the least patience with it.
LEMMA LeastPatience ==
  ASSUME NEW p, NEW t
  PROVE  /\ Patience(p, t) \in 0..4 /\ Delay(p.state) \in 0..4
         /\ Delay(p.state) <= Patience(p, t)
         /\ p.state \notin Varying => Patience(p, t) = Delay(p.state)
<1>1. Delay(p.state) \in 0..4
  BY DEF Delay
<1>2. CASE p.state = "node"
  <2>1. Delay(p.state) = 0 /\ Patience(p, t) \in {0, 1}
    BY <1>2 DEF Delay, Patience
  <2> QED BY <1>2, <2>1 DEF Varying
<1>3. CASE p.state = "indentless sequence" /\ t.type = "-"
  <2>1. Delay(p.state) = 1 /\ Patience(p, t) = 2
    BY <1>3 DEF Delay, Patience
  <2>2. p.state \in Varying
    BY <1>3 DEF Varying
  <2> QED BY <2>1, <2>2
<1>4. CASE p.state # "node" /\ ~(p.state = "indentless sequence" /\ t.type = "-")
  <2>1. Patience(p, t) = Delay(p.state)
    BY <1>4 DEF Patience
  <2> QED BY <1>1, <2>1
<1> QED BY <1>2, <1>3, <1>4

\* Nothing goes on after an error.
LEMMA ErrorGood ==
  ASSUME NEW p, WellFormed(p), p.state \notin BlockFirsts, NEW t, Patience(p, t) <= 3, NEW r, r = Error(p)
  PROVE  Good(p, t, r)
<1>1. /\ r.parser = Goto(p, "error") /\ r.skipped = FALSE /\ r.event = NoEvent
  BY DEF Error, Stay, Result
<1>2. DOMAIN r.parser = Fields /\ r.parser.state = "error"
  BY <1>1, GotoFields DEF WellFormed
<1>3. WellFormed(r.parser)
  BY <1>2 DEF WellFormed
<1>4. Move(p, r.parser, r.event)
  BY <1>1, <1>2 DEF Move, Fails
<1>5. Tokens(p, t, r)
  BY <1>1, <1>2, NoEventType DEF Tokens, Closing, Firsts
<1>6. Patience(r.parser, t) = 4
  BY <1>2 DEF Patience, Delay
<1>7. Timely(p, t, r)
  <2>1. Patience(p, t) \in Int
    BY LeastPatience
  <2> QED BY <1>6, <2>1 DEF Timely
<1> QED BY <1>1, <1>3, <1>4, <1>5, <1>7 DEF Good

\* The kinds of states are apart.
LEMMA InnerStates ==
  ASSUME NEW s \in Inner
  PROVE  s \in States \ Outer /\ s \notin Nodal
<1>1. s \in States
  BY DEF States
<1>2. CASE s \in SequenceStates
  <2>1. s \notin Outer
    BY <1>2 DEF SequenceStates, Outer
  <2>2. s \notin Nodal
    BY <1>2 DEF SequenceStates, Nodal
  <2> QED BY <1>1, <2>1, <2>2
<1>3. CASE s \in KeyStates
  <2>1. s \notin Outer
    BY <1>3 DEF KeyStates, Outer
  <2>2. s \notin Nodal
    BY <1>3 DEF KeyStates, Nodal
  <2> QED BY <1>1, <2>1, <2>2
<1>4. CASE s \in ValueStates
  <2>1. s \notin Outer
    BY <1>4 DEF ValueStates, Outer
  <2>2. s \notin Nodal
    BY <1>4 DEF ValueStates, Nodal
  <2> QED BY <1>1, <2>1, <2>2
<1> QED BY <1>2, <1>3, <1>4 DEF Inner

LEMMA OuterStates ==
  ASSUME NEW s \in Outer
  PROVE  s \in States /\ s # "error" /\ s \notin Inner \cup BlockFirsts
<1>1. s \in States
  BY DEF States
<1>2. s # "error"
  BY DEF Outer
<1>3. s \notin Inner
  BY InnerStates
<1>4. BlockFirsts \subseteq Inner
  BY DEF BlockFirsts, Inner, SequenceStates, KeyStates
<1> QED BY <1>1, <1>2, <1>3, <1>4

\* A step inside of a collection.
LEMMA MovedGood ==
  ASSUME NEW p, WellFormed(p), p.state \in Inner, NEW state \in Inner \ Firsts,
         NEW skipped \in BOOLEAN, NEW t, NEW r, r = Result(Goto(p, state), skipped, NoEvent),
         state \in IndentlessStates => p.states[Len(p.states)] \in MappingBacks,
         Height(state) = Height(p.state), Top(state) = Top(p.state),
         Nest(state) = IF p.state \in BlockFirsts THEN 1 ELSE Nest(p.state),
         skipped /\ t.type \in BlockStarts <=> p.state \in BlockFirsts,
         ~(skipped /\ t.type = "block-end"),
         skipped \/ Patience(p, t) + 1 <= Delay(state)
  PROVE  Good(p, t, r)
<1>1. r.parser = Goto(p, state) /\ r.skipped = skipped /\ r.event = NoEvent
  BY DEF Result
<1>2. r.parser.state = state /\ r.parser.states = p.states
  BY <1>1, GotoFields DEF WellFormed
<1>3. p.state \in States \ Outer /\ p.state \notin Nodal /\ state \notin Nodal
  BY InnerStates
<1>4. WellFormed(r.parser)
  BY <1>1, <1>3, GotoWellFormed
<1>5. Move(p, r.parser, r.event)
  BY <1>1, <1>2, <1>3 DEF Move, Moved, Kept
<1>6. Tokens(p, t, r)
  BY <1>1, <1>2, NoEventType DEF Tokens, Closing
<1>7. Timely(p, t, r)
  <2>1. /\ Patience(p, t) \in 0..4 /\ Patience(r.parser, t) \in 0..4
        /\ Delay(r.parser.state) \in 0..4
        /\ Delay(r.parser.state) <= Patience(r.parser, t)
    BY LeastPatience
  <2> QED BY <1>1, <1>2, <2>1 DEF Timely
<1> QED BY <1>1, <1>4, <1>5, <1>6, <1>7 DEF Good

\* A node that was left out.
LEMMA FilledGood ==
  ASSUME NEW p, WellFormed(p), p.state \in Inner \ Firsts, NEW state \in Inner \ Firsts,
         NEW skipped \in BOOLEAN, NEW t, NEW r, r = Result(Goto(p, state), skipped, Plain("scalar")),
         state \in IndentlessStates => p.states[Len(p.states)] \in MappingBacks,
         Height(state) = Height(p.state), Top(state) = Enclosed[Top(p.state)],
         Nest(state) = Nest(p.state),
         skipped => t.type \notin BlockTokens,
         skipped \/ Patience(p, t) + 1 <= Delay(state)
  PROVE  Good(p, t, r)
<1>1. r.parser = Goto(p, state) /\ r.skipped = skipped /\ r.event.type = "scalar"
  BY NoEventType DEF Result
<1>2. r.parser.state = state /\ r.parser.states = p.states
  BY <1>1, GotoFields DEF WellFormed
<1>3. p.state \in States \ Outer /\ p.state \notin Nodal /\ state \notin Nodal
  BY InnerStates
<1>4. WellFormed(r.parser)
  BY <1>1, <1>3, GotoWellFormed
<1>5. Move(p, r.parser, r.event)
  BY <1>1, <1>2, <1>3 DEF Move, Filled, Kept
<1>6. Tokens(p, t, r)
  BY <1>1, <1>2 DEF Tokens, Closing, Firsts, BlockFirsts, BlockTokens
<1>7. Timely(p, t, r)
  <2>1. /\ Patience(p, t) \in 0..4 /\ Patience(r.parser, t) \in 0..4
        /\ Delay(r.parser.state) \in 0..4
        /\ Delay(r.parser.state) <= Patience(r.parser, t)
    BY LeastPatience
  <2> QED BY <1>1, <1>2, <2>1 DEF Timely
<1> QED BY <1>1, <1>4, <1>5, <1>6, <1>7 DEF Good

\* A node begins.
LEMMA CalledGood ==
  ASSUME NEW p, WellFormed(p), p.state \in Inner \ Firsts, NEW back \in InnerBacks,
         back \in IndentlessStates => p.states[Len(p.states)] \in MappingBacks,
         NEW block, NEW indentless \in BOOLEAN, indentless => back \in MappingBacks,
         Height(back) = Height(p.state), Before(back) = Top(p.state), Nest(back) = Nest(p.state),
         NEW t, Patience(p, t) = 0, NEW r, r = Stay(Node(Call(p, back), block, indentless))
  PROVE  Good(p, t, r)
<1> DEFINE q == Node(Call(p, back), block, indentless)
<1>1. r.parser = q /\ r.skipped = FALSE /\ r.event = NoEvent
  BY DEF Result, Stay
<1>2. q.state = "node" /\ q.states = Append(p.states, back) /\ q.anchor = FALSE /\ q.tag = ""
  <2>1. PICK c : c = Call(p, back)
    OBVIOUS
  <2> DOMAIN c = Fields /\ c.states = Append(p.states, back)
    BY <2>1, CallFields DEF WellFormed
  <2>2. /\ DOMAIN Node(c, block, indentless) = Fields
        /\ Node(c, block, indentless).state = "node"
        /\ Node(c, block, indentless).states = c.states
        /\ Node(c, block, indentless).indentless = indentless
        /\ Node(c, block, indentless).anchor = FALSE /\ Node(c, block, indentless).tag = ""
    BY NodeFields, Zenon
  <2> QED BY <2>1, <2>2
<1>3. WellFormed(q)
  BY CallWellFormed
<1> HIDE DEF q
<1>4. Move(p, r.parser, r.event)
  BY <1>1, <1>2 DEF Move, Called
<1>5. Tokens(p, t, r)
  BY <1>1, <1>2, NoEventType DEF Tokens, Closing, Firsts, BlockFirsts
<1>6. Patience(r.parser, t) = 1
  BY <1>1, <1>2 DEF Patience
<1>7. Timely(p, t, r)
  BY <1>6 DEF Timely
<1> QED BY <1>1, <1>3, <1>4, <1>5, <1>7 DEF Good

\* A collection ends.
LEMMA ClosedGood ==
  ASSUME NEW p, WellFormed(p), p.state \in Inner \ Firsts, NEW type, NEW skipped \in BOOLEAN,
         \/ type = "sequence-end" /\ Top(p.state) = "sequence"
         \/ type = "mapping-end" /\ Top(p.state) = "key",
         Height(p.state) = 1, NEW t, NEW r, r = Result(Return(p), skipped, Plain(type)),
         skipped => t.type \notin BlockStarts,
         skipped /\ t.type = "block-end" <=> Nest(p.state) = 1,
         skipped \/ Patience(p, t) + 1 <= Delay(Last(p.states))
  PROVE  Good(p, t, r)
<1>1. r.parser = Return(p) /\ r.skipped = skipped /\ r.event.type = type
  BY NoEventType DEF Result
<1>2. r.parser.state = Last(p.states) /\ r.parser.states = Front(p.states)
  BY <1>1, ReturnFields DEF WellFormed
<1>3. p.state \in States \ Outer /\ p.state # "error"
  BY DEF States, Inner, Outer, Nodal, SequenceStates, KeyStates, ValueStates
<1>4. r.parser.state \in Backs
  BY <1>2, <1>3, FrontLast DEF WellFormed
<1>5. WellFormed(r.parser)
  BY <1>1, <1>3, ReturnWellFormed
<1>6. Closing(p, r.parser, r.event)
  BY <1>1, <1>2 DEF Closing, Returned
<1>7. r.parser.state \notin Firsts
  BY <1>4 DEF Firsts, Backs, InnerBacks
<1>8. Tokens(p, t, r)
  BY <1>1, <1>6, <1>7 DEF Tokens, Firsts, BlockFirsts
<1>9. Timely(p, t, r)
  <2>1. /\ Patience(p, t) \in Int /\ Patience(r.parser, t) \in Int
        /\ Delay(Last(p.states)) \in Int /\ Delay(Last(p.states)) <= Patience(r.parser, t)
    BY <1>2, LeastPatience
  <2> QED BY <1>1, <2>1 DEF Timely
<1> QED BY <1>1, <1>5, <1>6, <1>8, <1>9 DEF Good, Move

-----------------------------------------------------------------------------
(* Every step of the automaton is good, state by state.                    *)

\* What the states stand for, in one place.
LEMMA StateFacts ==
  /\ \A s \in {"block sequence", "block sequence item"} :
       s \in Inner \ Firsts /\ Top(s) = "sequence" /\ Height(s) = 1 /\ Nest(s) = 1
  /\ \A s \in {"indentless sequence", "indentless sequence item", "flow sequence item",
               "flow sequence"} :
       s \in Inner \ Firsts /\ Top(s) = "sequence" /\ Height(s) = 1 /\ Nest(s) = 0
  /\ \A s \in {"block mapping key", "block mapping key item"} :
       s \in Inner \ Firsts /\ Top(s) = "key" /\ Height(s) = 1 /\ Nest(s) = 1
  /\ \A s \in {"flow mapping item", "flow mapping key", "flow mapping key item"} :
       s \in Inner \ Firsts /\ Top(s) = "key" /\ Height(s) = 1 /\ Nest(s) = 0
  /\ \A s \in {"block mapping value", "block mapping value item"} :
       s \in Inner \ Firsts /\ Top(s) = "value" /\ Height(s) = 1 /\ Nest(s) = 1
  /\ \A s \in {"flow mapping value", "flow mapping value item", "flow mapping empty value"} :
       s \in Inner \ Firsts /\ Top(s) = "value" /\ Height(s) = 1 /\ Nest(s) = 0
  /\ \A s \in {"flow pair key", "flow pair end"} :
       s \in Inner \ Firsts /\ Top(s) = "key" /\ Height(s) = 2 /\ Nest(s) = 0
  /\ \A s \in {"flow pair value", "flow pair value item"} :
       s \in Inner \ Firsts /\ Top(s) = "value" /\ Height(s) = 2 /\ Nest(s) = 0
  /\ \A s \in {"block sequence first", "flow sequence first"} :
       s \in Inner /\ Top(s) = "sequence" /\ Height(s) = 1 /\ Nest(s) = 0
  /\ \A s \in {"block mapping first", "flow mapping first"} :
       s \in Inner /\ Top(s) = "key" /\ Height(s) = 1 /\ Nest(s) = 0
  /\ \A s \in {"block sequence", "indentless sequence", "flow sequence"} : Before(s) = "sequence"
  /\ \A s \in {"block mapping value", "flow mapping value", "flow mapping empty value",
               "flow pair value"} : Before(s) = "key"
  /\ \A s \in {"block mapping key", "flow mapping key", "flow pair end"} : Before(s) = "value"
  /\ Enclosed["sequence"] = "sequence" /\ Enclosed["key"] = "value" /\ Enclosed["value"] = "key"
BY DEF Height, Top, Before, Nest, BlockStates, BlockFirsts, Firsts, SequenceStates, KeyStates,
       ValueStates, PairStates, Outer, Inner, Enclosed

\* Where an item returns to, and whether an indentless sequence may stand there.
LEMMA ItemFacts ==
  /\ Items["block sequence item"].back = "block sequence" /\ Items["block sequence item"].indentless = FALSE
  /\ Items["indentless sequence item"].back = "indentless sequence" /\ Items["indentless sequence item"].indentless = FALSE
  /\ Items["block mapping key item"].back = "block mapping value" /\ Items["block mapping key item"].indentless = TRUE
  /\ Items["block mapping value item"].back = "block mapping key" /\ Items["block mapping value item"].indentless = TRUE
  /\ Items["flow pair value item"].back = "flow pair end" /\ Items["flow pair value item"].indentless = FALSE
  /\ Items["flow mapping key item"].back = "flow mapping value" /\ Items["flow mapping key item"].indentless = FALSE
  /\ Items["flow mapping value item"].back = "flow mapping key" /\ Items["flow mapping value item"].indentless = FALSE
BY DEF Items, ItemStates, Item

\* The step in each state.
LEMMA StepAt ==
  ASSUME NEW p, NEW t
  PROVE  /\ p.state = "stream start" =>
              Step(p, t) = IF t.type = "stream-start"
                           THEN Takes(Goto(p, "implicit document start"), "stream-start")
                           ELSE Error(p)
         /\ p.state = "implicit document start" => Step(p, t) = ImplicitDocumentStart(p, t)
         /\ p.state = "document start" => Step(p, t) = DocumentStart(p, t)
         /\ p.state = "directives" => Step(p, t) = Directives(p, t)
         /\ p.state = "document content" => Step(p, t) = DocumentContent(p, t)
         /\ p.state = "document end" => Step(p, t) = DocumentEnd(p, t)
         /\ p.state = "node" => Step(p, t) = ParseNode(p, t)
         /\ p.state \in ItemStates => Step(p, t) = ParseItem(p, t)
         /\ p.state = "block sequence first" => Step(p, t) = Skip(Goto(p, "block sequence"))
         /\ p.state = "block sequence" =>
              Step(p, t) = ParseEntry(p, t, "-", "block sequence item", "sequence-end")
         /\ p.state = "indentless sequence" => Step(p, t) = ParseIndentlessEntry(p, t)
         /\ p.state = "block mapping first" => Step(p, t) = Skip(Goto(p, "block mapping key"))
         /\ p.state = "block mapping key" =>
              Step(p, t) = ParseEntry(p, t, "?", "block mapping key item", "mapping-end")
         /\ p.state = "block mapping value" =>
              Step(p, t) = ParseValue(p, t, "block mapping value item")
         /\ p.state = "flow sequence first" => Step(p, t) = Skip(Goto(p, "flow sequence item"))
         /\ p.state = "flow sequence item" => Step(p, t) = ParseFlowSequenceItem(p, t)
         /\ p.state = "flow sequence" =>
              Step(p, t) = ParseFlowEntry(p, t, "]", "flow sequence item", "sequence-end")
         /\ p.state = "flow pair key" => Step(p, t) = ParseFlowPairKey(p, t)
         /\ p.state = "flow pair value" => Step(p, t) = ParseValue(p, t, "flow pair value item")
         /\ p.state = "flow pair end" => Step(p, t) = Gives(Goto(p, "flow sequence"), "mapping-end")
         /\ p.state = "flow mapping first" => Step(p, t) = Skip(Goto(p, "flow mapping item"))
         /\ p.state = "flow mapping item" => Step(p, t) = ParseFlowMappingItem(p, t)
         /\ p.state = "flow mapping key" =>
              Step(p, t) = ParseFlowEntry(p, t, "}", "flow mapping item", "mapping-end")
         /\ p.state = "flow mapping value" => Step(p, t) = ParseValue(p, t, "flow mapping value item")
         /\ p.state = "flow mapping empty value" =>
              Step(p, t) = EmptyScalar(Goto(p, "flow mapping key"))
BY DEF Step, ItemStates

\* Small numbers.
LEMMA SmallNumbers ==
  /\ 0 + 1 <= 1 /\ 0 + 1 <= 2 /\ 0 + 1 <= 3 /\ 1 + 1 <= 2 /\ 1 + 1 <= 3 /\ 2 + 1 <= 3
  /\ 0 <= 3 /\ 1 <= 3 /\ 2 <= 3 /\ 3 <= 3 /\ 0 # 1
OBVIOUS

\* A value, or a value that was left out.
LEMMA ValueGoodFor ==
  ASSUME NEW p, WellFormed(p), NEW t, p.state \notin IndentlessStates \cup BlockFirsts,
         p.state \in Inner \ Firsts,
         NEW item \in Inner \ Firsts, item \notin IndentlessStates,
         NEW back \in Inner \ Firsts, back \notin IndentlessStates, Items[item].back = back,
         Height(item) = Height(p.state), Top(item) = Top(p.state), Nest(item) = Nest(p.state),
         Height(back) = Height(p.state), Top(back) = Enclosed[Top(p.state)],
         Nest(back) = Nest(p.state), Patience(p, t) + 1 <= Delay(back),
         NEW r, r = ParseValue(p, t, item)
  PROVE  Good(p, t, r)
<1>1. CASE t.type = ":"
  <2>1. r = Result(Goto(p, item), TRUE, NoEvent)
    BY <1>1 DEF ParseValue, Skip
  <2>2. t.type \notin BlockStarts /\ t.type # "block-end"
    BY <1>1 DEF BlockStarts, BlockTokens
  <2> QED BY <2>1, <2>2, MovedGood
<1>2. CASE t.type # ":"
  <2>1. r = Result(Goto(p, back), FALSE, Plain("scalar"))
    BY <1>2 DEF ParseValue, EmptyScalar, Gives
  <2> QED BY <2>1, FilledGood
<1> QED BY <1>1, <1>2

LEMMA ValueGood ==
  ASSUME NEW p, WellFormed(p), NEW t, p.state \in Firsts => t.type = FirstToken(p.state),
         NEW r, r = Step(p, t),
         p.state \in {"block mapping value", "flow pair value", "flow mapping value"}
  PROVE  Good(p, t, r)
<1>1. p.state \notin IndentlessStates \cup BlockFirsts
  BY DEF IndentlessStates, BlockFirsts
<1>2. ASSUME NEW state \in {"block mapping value item", "flow pair value item",
                            "flow mapping value item", "block mapping key", "flow pair end",
                            "flow mapping key"}
      PROVE  state \notin IndentlessStates
  BY DEF IndentlessStates
<1>4. CASE p.state = "block mapping value"
  <2>1. r = ParseValue(p, t, "block mapping value item")
    BY <1>4, StepAt
  <2>2. /\ p.state \in Inner \ Firsts /\ "block mapping value item" \in Inner \ Firsts
        /\ "block mapping key" \in Inner \ Firsts
        /\ Height("block mapping value item") = Height(p.state)
        /\ Top("block mapping value item") = Top(p.state)
        /\ Nest("block mapping value item") = Nest(p.state)
        /\ Height("block mapping key") = Height(p.state)
        /\ Top("block mapping key") = Enclosed[Top(p.state)]
        /\ Nest("block mapping key") = Nest(p.state)
    BY <1>4, StateFacts
  <2>3. Patience(p, t) = 2 /\ Delay("block mapping key") = 3
    BY <1>4 DEF Patience, Delay
  <2>4. Patience(p, t) + 1 <= Delay("block mapping key")
    BY <2>3, SmallNumbers, Zenon
  <2> QED BY <1>1, <1>2, <2>1, <2>2, <2>4, ItemFacts, ValueGoodFor
<1>5. CASE p.state = "flow pair value"
  <2>1. r = ParseValue(p, t, "flow pair value item")
    BY <1>5, StepAt
  <2>2. /\ p.state \in Inner \ Firsts /\ "flow pair value item" \in Inner \ Firsts
        /\ "flow pair end" \in Inner \ Firsts
        /\ Height("flow pair value item") = Height(p.state)
        /\ Top("flow pair value item") = Top(p.state)
        /\ Nest("flow pair value item") = Nest(p.state)
        /\ Height("flow pair end") = Height(p.state)
        /\ Top("flow pair end") = Enclosed[Top(p.state)]
        /\ Nest("flow pair end") = Nest(p.state)
    BY <1>5, StateFacts
  <2>3. Patience(p, t) = 1 /\ Delay("flow pair end") = 2
    BY <1>5 DEF Patience, Delay
  <2>4. Patience(p, t) + 1 <= Delay("flow pair end")
    BY <2>3, SmallNumbers, Zenon
  <2> QED BY <1>1, <1>2, <2>1, <2>2, <2>4, ItemFacts, ValueGoodFor
<1>6. CASE p.state = "flow mapping value"
  <2>1. r = ParseValue(p, t, "flow mapping value item")
    BY <1>6, StepAt
  <2>2. /\ p.state \in Inner \ Firsts /\ "flow mapping value item" \in Inner \ Firsts
        /\ "flow mapping key" \in Inner \ Firsts
        /\ Height("flow mapping value item") = Height(p.state)
        /\ Top("flow mapping value item") = Top(p.state)
        /\ Nest("flow mapping value item") = Nest(p.state)
        /\ Height("flow mapping key") = Height(p.state)
        /\ Top("flow mapping key") = Enclosed[Top(p.state)]
        /\ Nest("flow mapping key") = Nest(p.state)
    BY <1>6, StateFacts
  <2>3. Patience(p, t) = 1 /\ Delay("flow mapping key") = 2
    BY <1>6 DEF Patience, Delay
  <2>4. Patience(p, t) + 1 <= Delay("flow mapping key")
    BY <2>3, SmallNumbers, Zenon
  <2> QED BY <1>1, <1>2, <2>1, <2>2, <2>4, ItemFacts, ValueGoodFor
<1> QED BY <1>4, <1>5, <1>6

\* A node that may be left out.
LEMMA ItemGoodFor ==
  ASSUME NEW p, WellFormed(p), NEW t, p.state \in ItemStates, p.state \in Inner \ Firsts,
         NEW back \in InnerBacks, back \in Inner \ Firsts, Items[p.state].back = back,
         back \in IndentlessStates => p.state \in IndentlessStates,
         Items[p.state].indentless \in BOOLEAN,
         Items[p.state].indentless => back \in MappingBacks,
         Height(back) = Height(p.state), Top(back) = Enclosed[Top(p.state)],
         Before(back) = Top(p.state), Nest(back) = Nest(p.state),
         Delay(back) >= 1, Delay(back) \in Nat,
         NEW r, r = Step(p, t)
  PROVE  Good(p, t, r)
<1>1. r = ParseItem(p, t)
  BY StepAt
<1>2. back \in IndentlessStates => p.states[Len(p.states)] \in MappingBacks
  <2>1. p.state # "error" BY DEF ItemStates
  <2> QED BY <2>1 DEF WellFormed
<1>3. Patience(p, t) = 0
  BY DEF Patience, Delay, ItemStates
<1>4. CASE t.type \in Items[p.state].stops
  <2>1. r = Result(Goto(p, back), FALSE, Plain("scalar"))
    BY <1>1, <1>4 DEF ParseItem, EmptyScalar, Gives
  <2>2. Patience(p, t) + 1 <= Delay(back)
    BY <1>3
  <2> QED BY <1>2, <2>1, <2>2, FilledGood
<1>5. CASE t.type \notin Items[p.state].stops
  <2>1. PICK block, indentless : block = Items[p.state].block /\ indentless = Items[p.state].indentless
    OBVIOUS
  <2>2. r = Stay(Node(Call(p, back), block, indentless))
    BY <1>1, <1>5, <2>1 DEF ParseItem
  <2> QED BY <1>2, <1>3, <2>1, <2>2, CalledGood
<1> QED BY <1>4, <1>5

LEMMA ItemGood ==
  ASSUME NEW p, WellFormed(p), NEW t, p.state \in Firsts => t.type = FirstToken(p.state),
         NEW r, r = Step(p, t), p.state \in ItemStates
  PROVE  Good(p, t, r)
<1>1. CASE p.state = "block sequence item"
  <2>1. /\ p.state \in Inner \ Firsts /\ "block sequence" \in Inner \ Firsts
        /\ Height("block sequence") = Height(p.state)
        /\ Top("block sequence") = Enclosed[Top(p.state)] /\ Before("block sequence") = Top(p.state)
        /\ Nest("block sequence") = Nest(p.state)
    BY <1>1, StateFacts
  <2>2. /\ "block sequence" \in InnerBacks
        /\ "block sequence" \in IndentlessStates => p.state \in IndentlessStates
        /\ Items[p.state].back = "block sequence" /\ Items[p.state].indentless = FALSE
    BY <1>1, ItemFacts DEF InnerBacks, IndentlessStates
  <2>3. FALSE => "block sequence" \in MappingBacks
    BY DEF MappingBacks
  <2>4. Delay("block sequence") \in Nat /\ Delay("block sequence") >= 1
    BY DEF Delay
  <2> QED BY <2>1, <2>2, <2>3, <2>4, ItemGoodFor
<1>2. CASE p.state = "indentless sequence item"
  <2>1. /\ p.state \in Inner \ Firsts /\ "indentless sequence" \in Inner \ Firsts
        /\ Height("indentless sequence") = Height(p.state)
        /\ Top("indentless sequence") = Enclosed[Top(p.state)] /\ Before("indentless sequence") = Top(p.state)
        /\ Nest("indentless sequence") = Nest(p.state)
    BY <1>2, StateFacts
  <2>2. /\ "indentless sequence" \in InnerBacks
        /\ "indentless sequence" \in IndentlessStates => p.state \in IndentlessStates
        /\ Items[p.state].back = "indentless sequence" /\ Items[p.state].indentless = FALSE
    BY <1>2, ItemFacts DEF InnerBacks, IndentlessStates
  <2>3. FALSE => "indentless sequence" \in MappingBacks
    BY DEF MappingBacks
  <2>4. Delay("indentless sequence") \in Nat /\ Delay("indentless sequence") >= 1
    BY DEF Delay
  <2> QED BY <2>1, <2>2, <2>3, <2>4, ItemGoodFor
<1>3. CASE p.state = "block mapping key item"
  <2>1. /\ p.state \in Inner \ Firsts /\ "block mapping value" \in Inner \ Firsts
        /\ Height("block mapping value") = Height(p.state)
        /\ Top("block mapping value") = Enclosed[Top(p.state)] /\ Before("block mapping value") = Top(p.state)
        /\ Nest("block mapping value") = Nest(p.state)
    BY <1>3, StateFacts
  <2>2. /\ "block mapping value" \in InnerBacks
        /\ "block mapping value" \in IndentlessStates => p.state \in IndentlessStates
        /\ Items[p.state].back = "block mapping value" /\ Items[p.state].indentless = TRUE
    BY <1>3, ItemFacts DEF InnerBacks, IndentlessStates
  <2>3. TRUE => "block mapping value" \in MappingBacks
    BY DEF MappingBacks
  <2>4. Delay("block mapping value") \in Nat /\ Delay("block mapping value") >= 1
    BY DEF Delay
  <2> QED BY <2>1, <2>2, <2>3, <2>4, ItemGoodFor
<1>4. CASE p.state = "block mapping value item"
  <2>1. /\ p.state \in Inner \ Firsts /\ "block mapping key" \in Inner \ Firsts
        /\ Height("block mapping key") = Height(p.state)
        /\ Top("block mapping key") = Enclosed[Top(p.state)] /\ Before("block mapping key") = Top(p.state)
        /\ Nest("block mapping key") = Nest(p.state)
    BY <1>4, StateFacts
  <2>2. /\ "block mapping key" \in InnerBacks
        /\ "block mapping key" \in IndentlessStates => p.state \in IndentlessStates
        /\ Items[p.state].back = "block mapping key" /\ Items[p.state].indentless = TRUE
    BY <1>4, ItemFacts DEF InnerBacks, IndentlessStates
  <2>3. TRUE => "block mapping key" \in MappingBacks
    BY DEF MappingBacks
  <2>4. Delay("block mapping key") \in Nat /\ Delay("block mapping key") >= 1
    BY DEF Delay
  <2> QED BY <2>1, <2>2, <2>3, <2>4, ItemGoodFor
<1>5. CASE p.state = "flow pair value item"
  <2>1. /\ p.state \in Inner \ Firsts /\ "flow pair end" \in Inner \ Firsts
        /\ Height("flow pair end") = Height(p.state)
        /\ Top("flow pair end") = Enclosed[Top(p.state)] /\ Before("flow pair end") = Top(p.state)
        /\ Nest("flow pair end") = Nest(p.state)
    BY <1>5, StateFacts
  <2>2. /\ "flow pair end" \in InnerBacks
        /\ "flow pair end" \in IndentlessStates => p.state \in IndentlessStates
        /\ Items[p.state].back = "flow pair end" /\ Items[p.state].indentless = FALSE
    BY <1>5, ItemFacts DEF InnerBacks, IndentlessStates
  <2>3. FALSE => "flow pair end" \in MappingBacks
    BY DEF MappingBacks
  <2>4. Delay("flow pair end") \in Nat /\ Delay("flow pair end") >= 1
    BY DEF Delay
  <2> QED BY <2>1, <2>2, <2>3, <2>4, ItemGoodFor
<1>6. CASE p.state = "flow mapping key item"
  <2>1. /\ p.state \in Inner \ Firsts /\ "flow mapping value" \in Inner \ Firsts
        /\ Height("flow mapping value") = Height(p.state)
        /\ Top("flow mapping value") = Enclosed[Top(p.state)] /\ Before("flow mapping value") = Top(p.state)
        /\ Nest("flow mapping value") = Nest(p.state)
    BY <1>6, StateFacts
  <2>2. /\ "flow mapping value" \in InnerBacks
        /\ "flow mapping value" \in IndentlessStates => p.state \in IndentlessStates
        /\ Items[p.state].back = "flow mapping value" /\ Items[p.state].indentless = FALSE
    BY <1>6, ItemFacts DEF InnerBacks, IndentlessStates
  <2>3. FALSE => "flow mapping value" \in MappingBacks
    BY DEF MappingBacks
  <2>4. Delay("flow mapping value") \in Nat /\ Delay("flow mapping value") >= 1
    BY DEF Delay
  <2> QED BY <2>1, <2>2, <2>3, <2>4, ItemGoodFor
<1>7. CASE p.state = "flow mapping value item"
  <2>1. /\ p.state \in Inner \ Firsts /\ "flow mapping key" \in Inner \ Firsts
        /\ Height("flow mapping key") = Height(p.state)
        /\ Top("flow mapping key") = Enclosed[Top(p.state)] /\ Before("flow mapping key") = Top(p.state)
        /\ Nest("flow mapping key") = Nest(p.state)
    BY <1>7, StateFacts
  <2>2. /\ "flow mapping key" \in InnerBacks
        /\ "flow mapping key" \in IndentlessStates => p.state \in IndentlessStates
        /\ Items[p.state].back = "flow mapping key" /\ Items[p.state].indentless = FALSE
    BY <1>7, ItemFacts DEF InnerBacks, IndentlessStates
  <2>3. FALSE => "flow mapping key" \in MappingBacks
    BY DEF MappingBacks
  <2>4. Delay("flow mapping key") \in Nat /\ Delay("flow mapping key") >= 1
    BY DEF Delay
  <2> QED BY <2>1, <2>2, <2>3, <2>4, ItemGoodFor
<1> QED BY <1>1, <1>2, <1>3, <1>4, <1>5, <1>6, <1>7 DEF ItemStates

\* The first step in a collection takes its start.
LEMMA FirstGood ==
  ASSUME NEW p, WellFormed(p), NEW t, p.state \in Firsts => t.type = FirstToken(p.state),
         NEW r, r = Step(p, t), p.state \in Firsts
  PROVE  Good(p, t, r)
<1>1. ASSUME NEW state \in {"block sequence", "block mapping key", "flow sequence item",
                            "flow mapping item"}
      PROVE  state \notin IndentlessStates
  BY DEF IndentlessStates
<1>2. CASE p.state = "block sequence first"
  <2>1. r = Result(Goto(p, "block sequence"), TRUE, NoEvent)
    BY <1>2, StepAt DEF Skip
  <2>2. /\ p.state \in Inner /\ "block sequence" \in Inner \ Firsts
        /\ Height("block sequence") = Height(p.state) /\ Top("block sequence") = Top(p.state)
        /\ Nest("block sequence") = 1 /\ Nest(p.state) = 0
    BY <1>2, StateFacts
  <2>3. t.type = "block-sequence-start"
    BY <1>2 DEF Firsts, FirstToken
  <2>4. (t.type \in BlockStarts <=> p.state \in BlockFirsts) /\ t.type # "block-end"
    BY <1>2, <2>3 DEF BlockStarts, BlockTokens, BlockFirsts
  <2>5. Nest("block sequence") = IF p.state \in BlockFirsts THEN 1 ELSE Nest(p.state)
    BY <1>2, <2>2 DEF BlockFirsts
  <2> QED BY <1>1, <2>1, <2>2, <2>4, <2>5, MovedGood
<1>3. CASE p.state = "block mapping first"
  <2>1. r = Result(Goto(p, "block mapping key"), TRUE, NoEvent)
    BY <1>3, StepAt DEF Skip
  <2>2. /\ p.state \in Inner /\ "block mapping key" \in Inner \ Firsts
        /\ Height("block mapping key") = Height(p.state) /\ Top("block mapping key") = Top(p.state)
        /\ Nest("block mapping key") = 1 /\ Nest(p.state) = 0
    BY <1>3, StateFacts
  <2>3. t.type = "block-mapping-start"
    BY <1>3 DEF Firsts, FirstToken
  <2>4. (t.type \in BlockStarts <=> p.state \in BlockFirsts) /\ t.type # "block-end"
    BY <1>3, <2>3 DEF BlockStarts, BlockTokens, BlockFirsts
  <2>5. Nest("block mapping key") = IF p.state \in BlockFirsts THEN 1 ELSE Nest(p.state)
    BY <1>3, <2>2 DEF BlockFirsts
  <2> QED BY <1>1, <2>1, <2>2, <2>4, <2>5, MovedGood
<1>4. CASE p.state = "flow sequence first"
  <2>1. r = Result(Goto(p, "flow sequence item"), TRUE, NoEvent)
    BY <1>4, StepAt DEF Skip
  <2>2. /\ p.state \in Inner /\ "flow sequence item" \in Inner \ Firsts
        /\ Height("flow sequence item") = Height(p.state) /\ Top("flow sequence item") = Top(p.state)
        /\ Nest("flow sequence item") = 0 /\ Nest(p.state) = 0
    BY <1>4, StateFacts
  <2>3. t.type = "["
    BY <1>4 DEF Firsts, FirstToken
  <2>4. (t.type \in BlockStarts <=> p.state \in BlockFirsts) /\ t.type # "block-end"
    BY <1>4, <2>3 DEF BlockStarts, BlockTokens, BlockFirsts
  <2>5. Nest("flow sequence item") = IF p.state \in BlockFirsts THEN 1 ELSE Nest(p.state)
    BY <1>4, <2>2 DEF BlockFirsts
  <2> QED BY <1>1, <2>1, <2>2, <2>4, <2>5, MovedGood
<1>5. CASE p.state = "flow mapping first"
  <2>1. r = Result(Goto(p, "flow mapping item"), TRUE, NoEvent)
    BY <1>5, StepAt DEF Skip
  <2>2. /\ p.state \in Inner /\ "flow mapping item" \in Inner \ Firsts
        /\ Height("flow mapping item") = Height(p.state) /\ Top("flow mapping item") = Top(p.state)
        /\ Nest("flow mapping item") = 0 /\ Nest(p.state) = 0
    BY <1>5, StateFacts
  <2>3. t.type = "{"
    BY <1>5 DEF Firsts, FirstToken
  <2>4. (t.type \in BlockStarts <=> p.state \in BlockFirsts) /\ t.type # "block-end"
    BY <1>5, <2>3 DEF BlockStarts, BlockTokens, BlockFirsts
  <2>5. Nest("flow mapping item") = IF p.state \in BlockFirsts THEN 1 ELSE Nest(p.state)
    BY <1>5, <2>2 DEF BlockFirsts
  <2> QED BY <1>1, <2>1, <2>2, <2>4, <2>5, MovedGood
<1> QED BY <1>2, <1>3, <1>4, <1>5 DEF Firsts

\* An entry of a collection, or its end.
LEMMA EntryGoodFor ==
  ASSUME NEW p, WellFormed(p), NEW t, p.state \notin Firsts \cup IndentlessStates,
         p.state \in Inner, NEW item \in Inner \ Firsts, item \notin IndentlessStates,
         NEW end, NEW closes \in BOOLEAN, NEW goes \in BOOLEAN, ~(closes /\ goes),
         Height(item) = 1, Height(p.state) = 1, Top(item) = Top(p.state), Nest(item) = Nest(p.state),
         \/ end = "sequence-end" /\ Top(p.state) = "sequence"
         \/ end = "mapping-end" /\ Top(p.state) = "key",
         closes \/ goes => t.type \notin BlockStarts,
         closes => (t.type = "block-end" <=> Nest(p.state) = 1),
         goes => t.type # "block-end",
         Patience(p, t) <= 3,
         NEW r, r = IF closes THEN Takes(Return(p), end)
                    ELSE IF goes THEN Skip(Goto(p, item)) ELSE Error(p)
  PROVE  Good(p, t, r)
<1>1. p.state \notin BlockFirsts
  BY DEF Firsts, BlockFirsts
<1>2. CASE closes
  <2>1. r = Result(Return(p), TRUE, Plain(end))
    BY <1>2 DEF Takes
  <2> QED BY <1>2, <2>1, ClosedGood
<1>3. CASE goes
  <2>1. r = Result(Goto(p, item), TRUE, NoEvent)
    BY <1>3 DEF Skip
  <2> QED BY <1>1, <1>3, <2>1, MovedGood
<1>4. CASE ~closes /\ ~goes
  <2>1. r = Error(p)
    BY <1>4
  <2> QED BY <1>1, <2>1, ErrorGood
<1> QED BY <1>2, <1>3, <1>4

LEMMA EntryGood ==
  ASSUME NEW p, WellFormed(p), NEW t, p.state \in Firsts => t.type = FirstToken(p.state),
         NEW r, r = Step(p, t),
         p.state \in {"block sequence", "block mapping key", "flow sequence", "flow mapping key"}
  PROVE  Good(p, t, r)
<1>1. p.state \notin Firsts \cup IndentlessStates
  BY DEF Firsts, IndentlessStates
<1>2. Patience(p, t) <= 3
  <2>1. Delay(p.state) \in {1, 2, 3} /\ p.state \notin Varying
    BY DEF Delay, Varying
  <2>2. Patience(p, t) \in {1, 2, 3}
    BY <2>1, LeastPatience
  <2> QED BY <2>2, SmallNumbers, Zenon
<1>3. CASE p.state = "block sequence"
  <2>1. r = IF t.type = "block-end" THEN Takes(Return(p), "sequence-end")
            ELSE IF t.type = "-" THEN Skip(Goto(p, "block sequence item")) ELSE Error(p)
    BY <1>3, StepAt DEF ParseEntry
  <2>2. PICK closes, goes : closes = (t.type = "block-end") /\ goes = (t.type = "-")
    OBVIOUS
  <2>3. /\ p.state \in Inner /\ "block sequence item" \in Inner \ Firsts
        /\ Height("block sequence item") = 1 /\ Height(p.state) = 1
        /\ Top("block sequence item") = Top(p.state) /\ Nest("block sequence item") = Nest(p.state)
        /\ Top(p.state) = "sequence" /\ Nest(p.state) = 1
    BY <1>3, StateFacts
  <2>4. "block sequence item" \notin IndentlessStates
    BY DEF IndentlessStates
  <2>6. closes \in BOOLEAN /\ goes \in BOOLEAN /\ ~(closes /\ goes)
    BY <2>2, Zenon
  <2>7. /\ closes \/ goes => t.type \notin BlockStarts
        /\ closes => (t.type = "block-end" <=> Nest(p.state) = 1)
        /\ goes => t.type # "block-end"
    BY <2>2, <2>3 DEF BlockStarts, BlockTokens
  <2>5. r = IF closes THEN Takes(Return(p), "sequence-end")
            ELSE IF goes THEN Skip(Goto(p, "block sequence item")) ELSE Error(p)
    BY <2>1, <2>2
  <2> QED BY <1>1, <1>2, <2>3, <2>4, <2>5, <2>6, <2>7, EntryGoodFor
<1>4. CASE p.state = "block mapping key"
  <2>1. r = IF t.type = "block-end" THEN Takes(Return(p), "mapping-end")
            ELSE IF t.type = "?" THEN Skip(Goto(p, "block mapping key item")) ELSE Error(p)
    BY <1>4, StepAt DEF ParseEntry
  <2>2. PICK closes, goes : closes = (t.type = "block-end") /\ goes = (t.type = "?")
    OBVIOUS
  <2>3. /\ p.state \in Inner /\ "block mapping key item" \in Inner \ Firsts
        /\ Height("block mapping key item") = 1 /\ Height(p.state) = 1
        /\ Top("block mapping key item") = Top(p.state) /\ Nest("block mapping key item") = Nest(p.state)
        /\ Top(p.state) = "key" /\ Nest(p.state) = 1
    BY <1>4, StateFacts
  <2>4. "block mapping key item" \notin IndentlessStates
    BY DEF IndentlessStates
  <2>6. closes \in BOOLEAN /\ goes \in BOOLEAN /\ ~(closes /\ goes)
    BY <2>2, Zenon
  <2>7. /\ closes \/ goes => t.type \notin BlockStarts
        /\ closes => (t.type = "block-end" <=> Nest(p.state) = 1)
        /\ goes => t.type # "block-end"
    BY <2>2, <2>3 DEF BlockStarts, BlockTokens
  <2>5. r = IF closes THEN Takes(Return(p), "mapping-end")
            ELSE IF goes THEN Skip(Goto(p, "block mapping key item")) ELSE Error(p)
    BY <2>1, <2>2
  <2> QED BY <1>1, <1>2, <2>3, <2>4, <2>5, <2>6, <2>7, EntryGoodFor
<1>5. CASE p.state = "flow sequence"
  <2>1. r = IF t.type = "]" THEN Takes(Return(p), "sequence-end")
            ELSE IF t.type = "," THEN Skip(Goto(p, "flow sequence item")) ELSE Error(p)
    BY <1>5, StepAt DEF ParseFlowEntry
  <2>2. PICK closes, goes : closes = (t.type = "]") /\ goes = (t.type = ",")
    OBVIOUS
  <2>3. /\ p.state \in Inner /\ "flow sequence item" \in Inner \ Firsts
        /\ Height("flow sequence item") = 1 /\ Height(p.state) = 1
        /\ Top("flow sequence item") = Top(p.state) /\ Nest("flow sequence item") = Nest(p.state)
        /\ Top(p.state) = "sequence" /\ Nest(p.state) = 0
    BY <1>5, StateFacts
  <2>4. "flow sequence item" \notin IndentlessStates
    BY DEF IndentlessStates
  <2>6. closes \in BOOLEAN /\ goes \in BOOLEAN /\ ~(closes /\ goes)
    BY <2>2, Zenon
  <2>8. t.type \in {"]", ","} => t.type \notin BlockStarts /\ t.type # "block-end"
    BY DEF BlockStarts, BlockTokens
  <2>9. Nest(p.state) # 1
    BY <2>3, SmallNumbers, Zenon
  <2>7. /\ closes \/ goes => t.type \notin BlockStarts
        /\ closes => (t.type = "block-end" <=> Nest(p.state) = 1)
        /\ goes => t.type # "block-end"
    BY <2>2, <2>8, <2>9
  <2>5. r = IF closes THEN Takes(Return(p), "sequence-end")
            ELSE IF goes THEN Skip(Goto(p, "flow sequence item")) ELSE Error(p)
    BY <2>1, <2>2
  <2> QED BY <1>1, <1>2, <2>3, <2>4, <2>5, <2>6, <2>7, EntryGoodFor
<1>6. CASE p.state = "flow mapping key"
  <2>1. r = IF t.type = "}" THEN Takes(Return(p), "mapping-end")
            ELSE IF t.type = "," THEN Skip(Goto(p, "flow mapping item")) ELSE Error(p)
    BY <1>6, StepAt DEF ParseFlowEntry
  <2>2. PICK closes, goes : closes = (t.type = "}") /\ goes = (t.type = ",")
    OBVIOUS
  <2>3. /\ p.state \in Inner /\ "flow mapping item" \in Inner \ Firsts
        /\ Height("flow mapping item") = 1 /\ Height(p.state) = 1
        /\ Top("flow mapping item") = Top(p.state) /\ Nest("flow mapping item") = Nest(p.state)
        /\ Top(p.state) = "key" /\ Nest(p.state) = 0
    BY <1>6, StateFacts
  <2>4. "flow mapping item" \notin IndentlessStates
    BY DEF IndentlessStates
  <2>6. closes \in BOOLEAN /\ goes \in BOOLEAN /\ ~(closes /\ goes)
    BY <2>2, Zenon
  <2>8. t.type \in {"}", ","} => t.type \notin BlockStarts /\ t.type # "block-end"
    BY DEF BlockStarts, BlockTokens
  <2>9. Nest(p.state) # 1
    BY <2>3, SmallNumbers, Zenon
  <2>7. /\ closes \/ goes => t.type \notin BlockStarts
        /\ closes => (t.type = "block-end" <=> Nest(p.state) = 1)
        /\ goes => t.type # "block-end"
    BY <2>2, <2>8, <2>9
  <2>5. r = IF closes THEN Takes(Return(p), "mapping-end")
            ELSE IF goes THEN Skip(Goto(p, "flow mapping item")) ELSE Error(p)
    BY <2>1, <2>2
  <2> QED BY <1>1, <1>2, <2>3, <2>4, <2>5, <2>6, <2>7, EntryGoodFor
<1> QED BY <1>3, <1>4, <1>5, <1>6

\* An indentless sequence ends without a token, and its mapping goes on.
LEMMA IndentlessGood ==
  ASSUME NEW p, WellFormed(p), NEW t, p.state \in Firsts => t.type = FirstToken(p.state),
         NEW r, r = Step(p, t), p.state = "indentless sequence"
  PROVE  Good(p, t, r)
<1>1. /\ p.state \in Inner \ Firsts /\ Height(p.state) = 1 /\ Top(p.state) = "sequence"
      /\ Nest(p.state) = 0 /\ "indentless sequence item" \in Inner \ Firsts
      /\ Height("indentless sequence item") = 1 /\ Top("indentless sequence item") = "sequence"
      /\ Nest("indentless sequence item") = 0
  BY StateFacts
<1>2. p.state \notin BlockFirsts /\ p.state \in IndentlessStates /\ p.state # "error"
  BY DEF BlockFirsts, IndentlessStates
<1>3. CASE t.type = "-"
  <2>1. r = Result(Goto(p, "indentless sequence item"), TRUE, NoEvent)
    BY <1>3, StepAt DEF ParseIndentlessEntry, Skip
  <2>2. t.type \notin BlockStarts /\ t.type # "block-end"
    BY <1>3 DEF BlockStarts, BlockTokens
  <2>3. p.states[Len(p.states)] \in MappingBacks
    BY <1>2 DEF WellFormed
  <2> QED BY <1>1, <1>2, <2>1, <2>2, <2>3, MovedGood
<1>4. CASE t.type # "-"
  <2>1. r = Result(Return(p), FALSE, Plain("sequence-end"))
    BY <1>4, StepAt DEF ParseIndentlessEntry, Gives
  <2>2. Last(p.states) \in MappingBacks
    BY <1>2 DEF WellFormed, Last
  <2>3. Patience(p, t) = 1
    BY <1>4 DEF Patience, Delay
  <2>4. PICK back \in MappingBacks : back = Last(p.states)
    BY <2>2
  <2>5. Delay(back) = 2 \/ Delay(back) = 3
    BY <2>4 DEF Delay, MappingBacks
  <2>6. Patience(p, t) + 1 <= Delay(back)
    BY <2>3, <2>5, SmallNumbers, Zenon
  <2>7. Patience(p, t) + 1 <= Delay(Last(p.states))
    BY <2>4, <2>6, Zenon
  <2>8. Nest(p.state) # 1
    BY <1>1, SmallNumbers, Zenon
  <2> QED BY <1>1, <2>1, <2>7, <2>8, ClosedGood
<1> QED BY <1>3, <1>4

\* A step that takes a token, or leaves more patience with it.
LEMMA TimelyStep ==
  ASSUME NEW p, NEW t, NEW r, r.skipped \/ Patience(p, t) + 1 <= Delay(r.parser.state)
  PROVE  Timely(p, t, r)
<1>1. /\ Patience(p, t) \in 0..4 /\ Patience(r.parser, t) \in 0..4
      /\ Delay(r.parser.state) \in 0..4 /\ Delay(r.parser.state) <= Patience(r.parser, t)
  BY LeastPatience
<1> QED BY <1>1 DEF Timely

\* A step between an item of a flow sequence and the pair that stands there.
LEMMA PairGood ==
  ASSUME NEW p, WellFormed(p), NEW t, NEW state, NEW skipped \in BOOLEAN, NEW type,
         \/ p.state = "flow sequence item" /\ state = "flow pair key" /\ type = "mapping-start"
         \/ p.state = "flow pair end" /\ state = "flow sequence" /\ type = "mapping-end",
         skipped => t.type \notin BlockTokens,
         skipped \/ Patience(p, t) + 1 <= Delay(state),
         NEW r, r = Result(Goto(p, state), skipped, Plain(type))
  PROVE  Good(p, t, r)
<1>1. r.parser = Goto(p, state) /\ r.skipped = skipped /\ r.event.type = type
  BY NoEventType DEF Result
<1>2. r.parser.state = state /\ r.parser.states = p.states
  <2>1. DOMAIN p = Fields BY DEF WellFormed
  <2>2. Goto(p, state).state = state /\ Goto(p, state).states = p.states
    BY <2>1, GotoFields, Zenon
  <2> QED BY <1>1, <2>2, Zenon
<1>3. /\ p.state \in States \ Outer /\ p.state \notin BlockFirsts
      /\ state \in Inner /\ state \notin IndentlessStates /\ state \notin Firsts
  BY DEF States, Outer, Inner, SequenceStates, KeyStates, BlockFirsts, Firsts, IndentlessStates
<1>4. WellFormed(r.parser)
  BY <1>1, <1>3, GotoWellFormed
<1>5. PairOpened(p, r.parser, r.event) \/ PairClosed(p, r.parser, r.event)
  BY <1>1, <1>2 DEF PairOpened, PairClosed
<1>6. Nest(p.state) # 1
  <2>1. Nest(p.state) = 0
    BY StateFacts
  <2> QED BY <2>1, SmallNumbers, Zenon
<1>7. Tokens(p, t, r)
  <2>1. ~(r.skipped /\ t.type \in BlockStarts) /\ ~(r.skipped /\ t.type = "block-end")
    BY <1>1 DEF BlockTokens
  <2> QED BY <1>2, <1>3, <1>6, <2>1 DEF Tokens
<1>8. Timely(p, t, r)
  <2>1. r.skipped \/ Patience(p, t) + 1 <= Delay(r.parser.state)
    BY <1>1, <1>2, Zenon
  <2> QED BY <2>1, TimelyStep
<1> QED BY <1>1, <1>4, <1>5, <1>7, <1>8 DEF Good, Move

\* An item of a flow sequence: a node, a pair, or the end.
LEMMA FlowSequenceItemGood ==
  ASSUME NEW p, WellFormed(p), NEW t, NEW r, r = Step(p, t), p.state = "flow sequence item"
  PROVE  Good(p, t, r)
<1>1. /\ p.state \in Inner \ Firsts /\ Top(p.state) = "sequence" /\ Height(p.state) = 1
      /\ Nest(p.state) = 0 /\ Height("flow sequence") = 1 /\ Before("flow sequence") = "sequence"
      /\ Nest("flow sequence") = 0
  BY StateFacts
<1>2. Nest(p.state) # 1
  BY <1>1, SmallNumbers, Zenon
<1>3. "flow sequence" \in InnerBacks /\ "flow sequence" \notin IndentlessStates
  BY DEF InnerBacks, IndentlessStates
<1>4. Patience(p, t) = 0
  BY DEF Patience, Delay
<1>5. CASE t.type = "]"
  <2>1. r = Result(Return(p), TRUE, Plain("sequence-end"))
    BY <1>5, StepAt DEF ParseFlowSequenceItem, Takes
  <2>2. t.type \notin BlockStarts /\ t.type # "block-end"
    BY <1>5 DEF BlockStarts, BlockTokens
  <2> QED BY <1>1, <1>2, <2>1, <2>2, ClosedGood
<1>6. CASE t.type = "?"
  <2>1. r = Result(Goto(p, "flow pair key"), TRUE, Plain("mapping-start"))
    BY <1>6, StepAt DEF ParseFlowSequenceItem, Takes
  <2>2. t.type \notin BlockTokens
    BY <1>6 DEF BlockStarts, BlockTokens
  <2> QED BY <2>1, <2>2, PairGood
<1>7. CASE t.type \notin {"]", "?"}
  <2>1. r = Stay(Node(Call(p, "flow sequence"), FALSE, FALSE))
    BY <1>7, StepAt DEF ParseFlowSequenceItem
  <2> QED BY <1>1, <1>3, <1>4, <2>1, CalledGood
<1> QED BY <1>5, <1>6, <1>7

\* The key of a pair in a flow sequence, and the pair's end.
LEMMA FlowPairGood ==
  ASSUME NEW p, WellFormed(p), NEW t, NEW r, r = Step(p, t),
         p.state \in {"flow pair key", "flow pair end"}
  PROVE  Good(p, t, r)
<1>1. CASE p.state = "flow pair key"
  <2>1. /\ p.state \in Inner \ Firsts /\ "flow pair value" \in Inner \ Firsts
        /\ Height("flow pair value") = Height(p.state)
        /\ Top("flow pair value") = Enclosed[Top(p.state)]
        /\ Before("flow pair value") = Top(p.state) /\ Nest("flow pair value") = Nest(p.state)
    BY <1>1, StateFacts
  <2>2. "flow pair value" \in InnerBacks /\ "flow pair value" \notin IndentlessStates
    BY DEF InnerBacks, IndentlessStates
  <2>3. Patience(p, t) = 0
    BY <1>1 DEF Patience, Delay
  <2>4. CASE t.type \in {":", ",", "]"}
    <3>1. r = Result(Goto(p, "flow pair value"), TRUE, Plain("scalar"))
      BY <1>1, <2>4, StepAt DEF ParseFlowPairKey, Takes
    <3>2. t.type \notin BlockTokens
      BY <2>4 DEF BlockStarts, BlockTokens
    <3> QED BY <2>1, <2>2, <3>1, <3>2, FilledGood
  <2>5. CASE t.type \notin {":", ",", "]"}
    <3>1. r = Stay(Node(Call(p, "flow pair value"), FALSE, FALSE))
      BY <1>1, <2>5, StepAt DEF ParseFlowPairKey
    <3> QED BY <2>1, <2>2, <2>3, <3>1, CalledGood
  <2> QED BY <2>4, <2>5
<1>2. CASE p.state = "flow pair end"
  <2>1. r = Result(Goto(p, "flow sequence"), FALSE, Plain("mapping-end"))
    BY <1>2, StepAt DEF Gives
  <2>2. Patience(p, t) = 2 /\ Delay("flow sequence") = 3
    BY <1>2 DEF Patience, Delay
  <2>3. Patience(p, t) + 1 <= Delay("flow sequence")
    BY <2>2, SmallNumbers, Zenon
  <2> QED BY <1>2, <2>1, <2>3, PairGood
<1> QED BY <1>1, <1>2

\* An entry of a flow mapping: a key with its value, a key alone, or the end.
LEMMA FlowMappingGood ==
  ASSUME NEW p, WellFormed(p), NEW t, NEW r, r = Step(p, t),
         p.state \in {"flow mapping item", "flow mapping empty value"}
  PROVE  Good(p, t, r)
<1>1. CASE p.state = "flow mapping item"
  <2>1. /\ p.state \in Inner \ Firsts /\ Top(p.state) = "key" /\ Height(p.state) = 1
        /\ Nest(p.state) = 0 /\ Height("flow mapping empty value") = 1
        /\ Before("flow mapping empty value") = "key" /\ Nest("flow mapping empty value") = 0
        /\ "flow mapping key item" \in Inner \ Firsts /\ Height("flow mapping key item") = 1
        /\ Top("flow mapping key item") = "key" /\ Nest("flow mapping key item") = 0
    BY <1>1, StateFacts
  <2>2. Nest(p.state) # 1
    BY <2>1, SmallNumbers, Zenon
  <2>3. /\ "flow mapping empty value" \in InnerBacks
        /\ "flow mapping empty value" \notin IndentlessStates
        /\ "flow mapping key item" \notin IndentlessStates /\ p.state \notin BlockFirsts
    BY <1>1 DEF InnerBacks, IndentlessStates, BlockFirsts
  <2>4. Patience(p, t) = 0
    BY <1>1 DEF Patience, Delay
  <2>5. CASE t.type = "}"
    <3>1. r = Result(Return(p), TRUE, Plain("mapping-end"))
      BY <1>1, <2>5, StepAt DEF ParseFlowMappingItem, Takes
    <3>2. t.type \notin BlockStarts /\ t.type # "block-end"
      BY <2>5 DEF BlockStarts, BlockTokens
    <3> QED BY <2>1, <2>2, <3>1, <3>2, ClosedGood
  <2>6. CASE t.type = "?"
    <3>1. r = Result(Goto(p, "flow mapping key item"), TRUE, NoEvent)
      BY <1>1, <2>6, StepAt DEF ParseFlowMappingItem, Skip
    <3>2. t.type \notin BlockStarts /\ t.type # "block-end"
      BY <2>6 DEF BlockStarts, BlockTokens
    <3> QED BY <2>1, <2>3, <3>1, <3>2, MovedGood
  <2>7. CASE t.type \notin {"}", "?"}
    <3>1. r = Stay(Node(Call(p, "flow mapping empty value"), FALSE, FALSE))
      BY <1>1, <2>7, StepAt DEF ParseFlowMappingItem
    <3> QED BY <2>1, <2>3, <2>4, <3>1, CalledGood
  <2> QED BY <2>5, <2>6, <2>7
<1>2. CASE p.state = "flow mapping empty value"
  <2>1. r = Result(Goto(p, "flow mapping key"), FALSE, Plain("scalar"))
    BY <1>2, StepAt DEF EmptyScalar, Gives
  <2>2. /\ p.state \in Inner \ Firsts /\ "flow mapping key" \in Inner \ Firsts
        /\ Height("flow mapping key") = Height(p.state)
        /\ Top("flow mapping key") = Enclosed[Top(p.state)]
        /\ Nest("flow mapping key") = Nest(p.state)
    BY <1>2, StateFacts
  <2>3. Patience(p, t) = 1 /\ Delay("flow mapping key") = 2
    BY <1>2 DEF Patience, Delay
  <2>4. Patience(p, t) + 1 <= Delay("flow mapping key")
    BY <2>3, SmallNumbers, Zenon
  <2>5. "flow mapping key" \notin IndentlessStates
    BY DEF IndentlessStates
  <2> QED BY <2>1, <2>2, <2>4, <2>5, FilledGood
<1> QED BY <1>1, <1>2

-----------------------------------------------------------------------------
(* Nodes and documents.                                                    *)

\* A step that neither enters nor leaves a block.
LEMMA PlainTokens ==
  ASSUME NEW p, NEW t, NEW r, p.state \notin BlockFirsts, r.parser.state \notin Firsts,
         ~Closing(p, r.parser, r.event),
         r.skipped => t.type \notin BlockTokens
  PROVE  Tokens(p, t, r)
<1>1. ~(r.skipped /\ t.type \in BlockStarts) /\ ~(r.skipped /\ t.type = "block-end")
  BY DEF BlockTokens
<1> QED BY <1>1 DEF Tokens

\* The states a node returns to, and those about to read one.
LEMMA BackFacts ==
  /\ \A s \in Backs : s \notin Firsts \cup Nodal /\ s # "error" /\ Delay(s) \in {1, 2, 3}
  /\ \A s \in Nodal : /\ s \in States \ Outer /\ s # "error"
                      /\ s \notin Inner \cup BlockFirsts \cup IndentlessStates
BY DEF Backs, InnerBacks, Firsts, Nodal, Delay, States, Outer, Inner, SequenceStates, KeyStates,
       ValueStates, BlockFirsts, IndentlessStates

\* A node is complete.
LEMMA AnswerGood ==
  ASSUME NEW p, WellFormed(p), p.state \in Nodal, NEW t, NEW skipped \in BOOLEAN, NEW e,
         e.type \in Answers,
         skipped => t.type \notin BlockTokens, skipped \/ Patience(p, t) = 0,
         NEW r, r = Result(Return(p), skipped, e)
  PROVE  Good(p, t, r)
<1>1. r.parser = Return(p) /\ r.skipped = skipped /\ r.event = e
  BY DEF Result
<1>2. p.state \in States \ Outer /\ p.state # "error" /\ p.state \notin Inner \cup BlockFirsts
  BY BackFacts
<1>3. r.parser.state = Last(p.states) /\ r.parser.states = Front(p.states)
  BY <1>1, ReturnFields DEF WellFormed
<1>4. r.parser.state \in Backs
  BY <1>2, <1>3, FrontLast DEF WellFormed
<1>5. WellFormed(r.parser)
  BY <1>1, <1>2, ReturnWellFormed
<1>6. Answered(p, r.parser, r.event)
  BY <1>1, <1>3 DEF Answered, Returned
<1>7. Tokens(p, t, r)
  <2>1. ~Closing(p, r.parser, r.event)
    BY <1>2 DEF Closing
  <2> QED BY <1>1, <1>2, <1>4, <2>1, BackFacts, PlainTokens
<1>8. Timely(p, t, r)
  <2>1. CASE skipped
    BY <1>1, <2>1 DEF Timely
  <2>2. CASE Patience(p, t) = 0
    <3>1. Delay(r.parser.state) = 1 \/ Delay(r.parser.state) = 2 \/ Delay(r.parser.state) = 3
      BY <1>4, BackFacts
    <3>2. 0 + 1 <= Delay(r.parser.state)
      BY <3>1, SmallNumbers, Zenon
    <3>3. Patience(p, t) + 1 <= Delay(r.parser.state)
      BY <2>2, <3>2, Zenon
    <3> QED BY <3>3, TimelyStep
  <2> QED BY <2>1, <2>2
<1> QED BY <1>1, <1>5, <1>6, <1>7, <1>8 DEF Good, Move

\* A node goes on: behind one of its properties, or behind a document's "---".
LEMMA ContinueGood ==
  ASSUME NEW p, WellFormed(p), p.state \in Nodal, NEW t, NEW skipped \in BOOLEAN,
         NEW q, DOMAIN q = Fields, q.state = "node", q.states = p.states,
         q.indentless => p.state = "node" /\ p.indentless,
         skipped => t.type \notin BlockTokens,
         skipped \/ (Patience(p, t) = 0 /\ q.anchor = FALSE /\ q.tag = ""),
         NEW r, r = Result(q, skipped, NoEvent)
  PROVE  Good(p, t, r)
<1>1. r.parser = q /\ r.skipped = skipped /\ r.event = NoEvent
  BY DEF Result
<1>2. p.state \in States \ Outer /\ p.state # "error" /\ p.state \notin Inner \cup BlockFirsts
  BY BackFacts
<1>3. q.state \in States \ Outer /\ q.state # "error" /\ q.state \notin IndentlessStates \cup Firsts
  BY DEF States, Nodal, Outer, IndentlessStates, Firsts
<1>4. WellFormed(q)
  BY <1>2, <1>3 DEF WellFormed
<1>5. Continued(p, r.parser, r.event)
  BY <1>1 DEF Continued
<1>6. Tokens(p, t, r)
  <2>1. ~Closing(p, r.parser, r.event)
    BY <1>2 DEF Closing
  <2> QED BY <1>1, <1>2, <1>3, <2>1, PlainTokens
<1>7. Timely(p, t, r)
  <2>1. CASE skipped
    BY <1>1, <2>1 DEF Timely
  <2>2. CASE Patience(p, t) = 0 /\ q.anchor = FALSE /\ q.tag = ""
    <3>1. Patience(r.parser, t) = 1
      BY <1>1, <2>2 DEF Patience
    <3>2. Patience(p, t) + 1 <= Patience(r.parser, t)
      BY <2>2, <3>1, SmallNumbers, Zenon
    <3> QED BY <3>2 DEF Timely
  <2> QED BY <2>1, <2>2
<1> QED BY <1>1, <1>4, <1>5, <1>6, <1>7 DEF Good, Move

\* What the first states of collections stand for.
LEMMA OpenFacts ==
  \A s \in Firsts \cup {"indentless sequence"} :
    /\ s \in Inner /\ Height(s) = 1 /\ Nest(s) = 0 /\ s # "error" /\ s # "node"
    /\ Delay(s) = 2 \/ s = "indentless sequence"
BY DEF Firsts, Inner, SequenceStates, KeyStates, ValueStates, PairStates, Outer, Height, Nest,
       BlockStates, BlockFirsts, Delay

\* A collection begins.
LEMMA OpeningGood ==
  ASSUME NEW p, WellFormed(p), p.state = "node", NEW t,
         NEW state \in Firsts \cup {"indentless sequence"}, NEW type,
         \/ type = "sequence-start" /\ Top(state) = "sequence"
         \/ type = "mapping-start" /\ Top(state) = "key",
         state \in Firsts => t.type = FirstToken(state),
         state = "indentless sequence" => p.indentless /\ t.type = "-",
         NEW r, r = Opens(p, state, type)
  PROVE  Good(p, t, r)
<1>1. r.parser = Goto(p, state) /\ r.skipped = FALSE /\ r.event.type = type
  BY DEF Opens, Result, Event
<1>2. p.state \in States \ Outer /\ p.state # "error" /\ p.state \notin Inner \cup BlockFirsts
  BY BackFacts DEF Nodal
<1>3. r.parser.state = state /\ r.parser.states = p.states
  <2>1. DOMAIN p = Fields BY DEF WellFormed
  <2>2. Goto(p, state).state = state /\ Goto(p, state).states = p.states
    BY <2>1, GotoFields, Zenon
  <2> QED BY <1>1, <2>2, Zenon
<1>4. /\ state \in Inner /\ Height(state) = 1 /\ Nest(state) = 0
      /\ Delay(state) = 2 \/ state = "indentless sequence"
  BY OpenFacts
<1>5. WellFormed(r.parser)
  <2>1. state \in IndentlessStates => p.indentless
    BY DEF IndentlessStates, Firsts
  <2>2. p.indentless => p.states[Len(p.states)] \in MappingBacks
    BY <1>2 DEF WellFormed
  <2> QED BY <1>1, <1>2, <1>4, <2>1, <2>2, GotoWellFormed
<1>6. Opening(p, r.parser, r.event)
  BY <1>1, <1>3, <1>4 DEF Opening
<1>7. Tokens(p, t, r)
  BY <1>1, <1>2, <1>3 DEF Tokens, Closing
<1>8. Timely(p, t, r)
  <2>1. Patience(p, t) = 0 \/ Patience(p, t) = 1
    BY DEF Patience
  <2>2. Patience(r.parser, t) = 2
    <3>1. CASE state = "indentless sequence"
      BY <1>3, <3>1 DEF Patience
    <3>2. CASE state # "indentless sequence"
      <4>1. r.parser.state \notin Varying
        BY <1>3, <3>2 DEF Varying, Firsts
      <4> QED BY <1>3, <1>4, <3>2, <4>1, LeastPatience
    <3> QED BY <3>1, <3>2
  <2>3. Patience(p, t) + 1 <= Patience(r.parser, t)
    BY <2>1, <2>2, SmallNumbers, Zenon
  <2> QED BY <2>3 DEF Timely
<1> QED BY <1>1, <1>5, <1>6, <1>7, <1>8 DEF Good, Move
\* The content of a node: a scalar, the start of a collection, or nothing.
LEMMA ContentGood ==
  ASSUME NEW p, WellFormed(p), NEW t, NEW r, r = NodeContent(p, t), p.state = "node",
         r = Error(p) => Good(p, t, r)
  PROVE  Good(p, t, r)
<1>1. p.state \in Nodal
  BY DEF Nodal
<1>2. /\ Top("indentless sequence") = "sequence" /\ Top("flow sequence first") = "sequence"
      /\ Top("flow mapping first") = "key" /\ Top("block sequence first") = "sequence"
      /\ Top("block mapping first") = "key"
  BY StateFacts
<1>3. CASE p.indentless /\ t.type = "-"
  <2>1. r = Opens(p, "indentless sequence", "sequence-start")
    BY <1>3 DEF NodeContent
  <2>2. "indentless sequence" \notin Firsts
    BY DEF Firsts
  <2> QED BY <1>2, <1>3, <2>1, <2>2, OpeningGood
<1>4. CASE t.type = "scalar"
  <2>0. PICK e : e = Event("scalar", t.value, p.anchor)
    OBVIOUS
  <2>1. r = Result(Return(p), TRUE, e)
    BY <2>0, <1>4 DEF NodeContent
  <2>2. e.type \in Answers
    BY <2>0 DEF Event, Answers
  <2>3. t.type \notin BlockTokens
    BY <1>4 DEF BlockStarts, BlockTokens
  <2> QED BY <1>1, <2>1, <2>2, <2>3, AnswerGood
<1>5. CASE t.type = "["
  <2>1. r = Opens(p, "flow sequence first", "sequence-start")
    BY <1>5 DEF NodeContent
  <2>2. "flow sequence first" \in Firsts /\ t.type = FirstToken("flow sequence first")
    BY <1>5 DEF Firsts, FirstToken
  <2> QED BY <1>2, <2>1, <2>2, OpeningGood
<1>6. CASE t.type = "{"
  <2>1. r = Opens(p, "flow mapping first", "mapping-start")
    BY <1>6 DEF NodeContent
  <2>2. "flow mapping first" \in Firsts /\ t.type = FirstToken("flow mapping first")
    BY <1>6 DEF Firsts, FirstToken
  <2> QED BY <1>2, <2>1, <2>2, OpeningGood
<1>7. CASE p.block /\ t.type = "block-sequence-start"
  <2>1. r = Opens(p, "block sequence first", "sequence-start")
    BY <1>7 DEF NodeContent
  <2>2. "block sequence first" \in Firsts /\ t.type = FirstToken("block sequence first")
    BY <1>7 DEF Firsts, FirstToken
  <2> QED BY <1>2, <2>1, <2>2, OpeningGood
<1>8. CASE p.block /\ t.type = "block-mapping-start"
  <2>1. r = Opens(p, "block mapping first", "mapping-start")
    BY <1>8 DEF NodeContent
  <2>2. "block mapping first" \in Firsts /\ t.type = FirstToken("block mapping first")
    BY <1>8 DEF Firsts, FirstToken
  <2> QED BY <1>2, <2>1, <2>2, OpeningGood
<1>9. CASE /\ ~(p.indentless /\ t.type = "-") /\ t.type \notin {"scalar", "[", "{"}
           /\ ~(p.block /\ t.type = "block-sequence-start")
           /\ ~(p.block /\ t.type = "block-mapping-start")
  <2>1. r = IF p.anchor \/ p.tag # "" THEN Result(Return(p), FALSE, Event("scalar", Empty, p.anchor))
            ELSE Error(p)
    BY <1>9 DEF NodeContent
  <2>2. CASE p.anchor \/ p.tag # ""
    <3>0. PICK e : e = Event("scalar", Empty, p.anchor)
      OBVIOUS
    <3>1. e.type \in Answers
      BY <3>0 DEF Event, Answers
    <3>2. Patience(p, t) = 0
      BY <2>2 DEF Patience
    <3>3. r = Result(Return(p), FALSE, e)
      BY <3>0, <2>1, <2>2
    <3> QED BY <1>1, <3>1, <3>2, <3>3, AnswerGood
  <2> QED BY <2>1, <2>2
<1> QED BY <1>3, <1>4, <1>5, <1>6, <1>7, <1>8, <1>9

\* A node: its properties, then its content.
LEMMA NodeGood ==
  ASSUME NEW p, WellFormed(p), NEW t, NEW r, r = Step(p, t), p.state = "node"
  PROVE  Good(p, t, r)
<1>1. r = ParseNode(p, t) /\ p.state \in Nodal
  BY StepAt DEF Nodal
<1>2. DOMAIN p = Fields
  BY DEF WellFormed
<1>3. CASE t.type = "alias" /\ ~p.anchor /\ p.tag = ""
  <2>0. PICK e : e = Event("alias", t.value, FALSE)
    OBVIOUS
  <2>1. r = Result(Return(p), TRUE, e)
    BY <2>0, <1>1, <1>3 DEF ParseNode
  <2>2. e.type \in Answers
    BY <2>0 DEF Event, Answers
  <2>3. t.type \notin BlockTokens
    BY <1>3 DEF BlockStarts, BlockTokens
  <2> QED BY <1>1, <2>1, <2>2, <2>3, AnswerGood
<1>4. CASE t.type = "anchor" /\ ~p.anchor
  <2>1. PICK q : q = [p EXCEPT !.anchor = TRUE]
    OBVIOUS
  <2>2. r = Result(q, TRUE, NoEvent)
    BY <1>1, <1>4, <2>1 DEF ParseNode, Skip
  <2>3. /\ DOMAIN q = Fields /\ q.state = "node" /\ q.states = p.states
        /\ q.indentless = p.indentless
    BY <1>2, <2>1 DEF Fields
  <2>4. t.type \notin BlockTokens
    BY <1>4 DEF BlockStarts, BlockTokens
  <2> QED BY <1>1, <2>2, <2>3, <2>4, ContinueGood
<1>5. CASE t.type = "tag" /\ p.tag = ""
  <2>1. PICK q : q = [p EXCEPT !.tag = t.value.text]
    OBVIOUS
  <2>2. r = Result(q, TRUE, NoEvent)
    BY <1>1, <1>5, <2>1 DEF ParseNode, Skip
  <2>3. /\ DOMAIN q = Fields /\ q.state = "node" /\ q.states = p.states
        /\ q.indentless = p.indentless
    BY <1>2, <2>1 DEF Fields
  <2>4. t.type \notin BlockTokens
    BY <1>5 DEF BlockStarts, BlockTokens
  <2> QED BY <1>1, <2>2, <2>3, <2>4, ContinueGood
<1>6. CASE /\ ~(t.type = "alias" /\ ~p.anchor /\ p.tag = "")
           /\ ~(t.type = "anchor" /\ ~p.anchor) /\ ~(t.type = "tag" /\ p.tag = "")
  <2>1. r = NodeContent(p, t) \/ r = Error(p)
    BY <1>1, <1>6 DEF ParseNode
  <2>2. ASSUME r = Error(p) PROVE Good(p, t, r)
    <3>1. Patience(p, t) \in {0, 1}
      BY DEF Patience
    <3>2. Patience(p, t) <= 3
      BY <3>1, SmallNumbers, Zenon
    <3> QED BY <2>2, <3>2, ErrorGood DEF BlockFirsts
  <2>3. ASSUME r = NodeContent(p, t) PROVE Good(p, t, r)
    BY <1>1, <2>2, <2>3, ContentGood
  <2> QED BY <2>1, <2>2, <2>3
<1> QED BY <1>3, <1>4, <1>5, <1>6

\* The first of a stack.
LEMMA OnEmpty ==
  /\ \A S : \A x \in S : /\ Append(<<>>, x) \in Seq(S) /\ Append(<<>>, x) # <<>>
                        /\ Len(Append(<<>>, x)) = 1 /\ Append(<<>>, x)[1] = x
  /\ 2..1 = {}
<1>1. ASSUME NEW S, NEW x \in S
      PROVE  /\ Append(<<>>, x) \in Seq(S) /\ Append(<<>>, x) # <<>>
             /\ Len(Append(<<>>, x)) = 1 /\ Append(<<>>, x)[1] = x
  <2>1. <<>> \in Seq(S) /\ Len(<<>>) = 0
    BY EmptySeq
  <2> QED BY <2>1, AppendProperties
<1>2. 2..1 = {}
  OBVIOUS
<1> QED BY <1>1, <1>2

\* A result that says that the token was taken.
LEMMA TakenResult == \A q, e : Result(q, TRUE, e).skipped
BY DEF Result

\* A step outside of every document.
LEMMA OuterGood ==
  ASSUME NEW p, WellFormed(p), p.state \in Outer, NEW t, NEW skipped \in BOOLEAN, NEW e,
         NEW q, DOMAIN q = Fields,
         \/ q.state \in Outer /\ q.states = p.states
         \/ q.state \in Nodal /\ q.states = Append(p.states, "document end")
              /\ (q.state = "node" => ~q.indentless),
         Move(p, q, e), skipped => t.type \notin BlockTokens,
         NEW r, r = Result(q, skipped, e), Timely(p, t, r)
  PROVE  Good(p, t, r)
<1>1. r.parser = q /\ r.skipped = skipped /\ r.event = e
  BY DEF Result
<1>2. p.state \in States /\ p.state # "error" /\ p.state \notin Inner \cup BlockFirsts
  BY OuterStates
<1>3. p.states = <<>>
  BY <1>2 DEF WellFormed
<1>4. q.state \in States /\ q.state \notin {"error"} \cup IndentlessStates \cup Firsts
  BY DEF Outer, Nodal, States, IndentlessStates, Firsts
<1>5. WellFormed(q)
  <2>1. CASE q.state \in Outer /\ q.states = p.states
    <3>1. q.states \in Seq(Backs) /\ Len(q.states) = 0
      BY <1>3, <2>1, EmptySeq
    <3>2. q.state # "node"
      BY <2>1 DEF Outer
    <3> QED BY <1>3, <1>4, <2>1, <3>1, <3>2 DEF WellFormed
  <2>2. CASE q.state \in Nodal /\ q.states = Append(p.states, "document end")
              /\ (q.state = "node" => ~q.indentless)
    <3>1. "document end" \in Backs /\ "document end" \notin InnerBacks
      BY DEF Backs, InnerBacks
    <3>2. q.states = Append(<<>>, "document end")
      BY <1>3, <2>2
    <3>3. /\ q.states \in Seq(Backs) /\ q.states # <<>> /\ Len(q.states) = 1
          /\ q.states[1] = "document end"
      BY <3>1, <3>2, OnEmpty
    <3>4. q.state \notin Outer
      BY <2>2 DEF Outer, Nodal
    <3>5. 2..Len(q.states) = {}
      BY <3>3, OnEmpty, Zenon
    <3>6. \A i \in 2..Len(q.states) :
            /\ q.states[i] \in InnerBacks
            /\ q.states[i] \in IndentlessStates => q.states[i - 1] \in MappingBacks
      BY <3>5, Zenon
    <3>7. q.states[1] \notin InnerBacks
      BY <3>1, <3>3, Zenon
    <3>8. ~(q.state \in IndentlessStates \/ (q.state = "node" /\ q.indentless))
      BY <1>4, <2>2
    <3> QED BY <1>4, <3>3, <3>4, <3>6, <3>7, <3>8 DEF WellFormed
  <2> QED BY <2>1, <2>2
<1>6. Tokens(p, t, r)
  <2>1. ~Closing(p, r.parser, r.event)
    BY <1>2 DEF Closing
  <2> QED BY <1>1, <1>2, <1>4, <2>1, PlainTokens
<1> QED BY <1>1, <1>5, <1>6 DEF Good

\* Outside of every document no call of the builder stands for the state, except at
\* the end of one.
LEMMA OuterFacts ==
  /\ \A s \in Outer : Top(s) = "document done" /\ Nest(s) = 0 /\ s \notin Nodal \cup BlockFirsts
  /\ \A s \in {"stream start", "implicit document start", "document start", "directives",
               "end"} : s \in Outer /\ Height(s) = 0
  /\ "document end" \in Outer /\ Height("document end") = 1
BY DEF Outer, Top, Height, Nest, Nodal, SequenceStates, KeyStates, ValueStates, PairStates,
       BlockStates, BlockFirsts

\* The start and the end of the stream and of the documents.
LEMMA StreamGood ==
  ASSUME NEW p, WellFormed(p), NEW t, NEW r, r = Step(p, t), p.state = "stream start"
  PROVE  Good(p, t, r)
<1>1. DOMAIN p = Fields /\ p.state \in Outer /\ p.state \notin BlockFirsts
  BY OuterFacts DEF WellFormed
<1>2. CASE t.type = "stream-start"
  <2>1. PICK q, e : q = Goto(p, "implicit document start") /\ e = Plain("stream-start")
    OBVIOUS
  <2>2. r = Result(q, TRUE, e)
    BY <1>2, <2>1, StepAt DEF Takes
  <2>3. /\ DOMAIN q = Fields /\ q.state = "implicit document start" /\ q.states = p.states
        /\ e.type = "stream-start"
    BY <1>1, <2>1, GotoFields, NoEventType
  <2>4. Move(p, q, e) /\ q.state \in Outer
    BY <2>3, OuterFacts DEF Move, StreamStarted
  <2>5. t.type \notin BlockTokens
    BY <1>2 DEF BlockStarts, BlockTokens
  <2>6. Timely(p, t, r)
    <3>1. r.skipped
      BY <2>2, TakenResult, Zenon
    <3> QED BY <3>1 DEF Timely
  <2> QED BY <1>1, <2>2, <2>3, <2>4, <2>5, <2>6, OuterGood
<1>3. CASE t.type # "stream-start"
  <2>1. r = Error(p)
    BY <1>3, StepAt
  <2>2. Patience(p, t) = 0
    BY DEF Patience, Delay
  <2>3. Patience(p, t) <= 3
    BY <2>2, SmallNumbers, Zenon
  <2> QED BY <1>1, <2>1, <2>3, ErrorGood
<1> QED BY <1>2, <1>3

\* The end of the stream.
LEMMA StreamEndGood ==
  ASSUME NEW p, WellFormed(p), NEW t, NEW r, r = StreamEnd(p), t.type = "stream-end",
         p.state \in {"implicit document start", "document start"}
  PROVE  Good(p, t, r)
<1>1. DOMAIN p = Fields /\ p.state \in Outer
  BY OuterFacts DEF WellFormed
<1>2. PICK q, e : q = Goto(p, "end") /\ e = Plain("stream-end")
  OBVIOUS
<1>3. r = Result(q, TRUE, e)
  BY <1>2 DEF StreamEnd, Takes
<1>4. DOMAIN q = Fields /\ q.state = "end" /\ q.states = p.states /\ e.type = "stream-end"
  BY <1>1, <1>2, GotoFields, NoEventType
<1>5. Move(p, q, e) /\ q.state \in Outer
  BY <1>4, OuterFacts DEF Move, StreamEnded
<1>6. t.type \notin BlockTokens
  BY DEF BlockStarts, BlockTokens
<1>7. Timely(p, t, r)
  <2>1. r.skipped
    BY <1>3, TakenResult, Zenon
  <2> QED BY <2>1 DEF Timely
<1> QED BY <1>1, <1>3, <1>4, <1>5, <1>6, <1>7, OuterGood

\* A step to the directives of a document, or past an end marker.
LEMMA BetweenGood ==
  ASSUME NEW p, WellFormed(p), NEW t, NEW skipped \in BOOLEAN, NEW q, DOMAIN q = Fields,
         q.states = p.states, {p.state, q.state} \subseteq Outer \ {"document end"},
         skipped => t.type \notin BlockTokens, skipped \/ Patience(p, t) + 1 <= Delay(q.state),
         NEW r, r = Result(q, skipped, NoEvent)
  PROVE  Good(p, t, r)
<1>1. Move(p, q, NoEvent)
  <2>1. Kept(p, q)
    BY OuterFacts DEF Kept
  <2>2. Height(p.state) = 0 /\ Height(q.state) = 0
    BY OuterFacts DEF Outer
  <2>3. /\ Top(p.state) = "document done" /\ Top(q.state) = "document done"
        /\ Nest(p.state) = 0 /\ Nest(q.state) = 0 /\ p.state \notin BlockFirsts
    BY OuterFacts
  <2> QED BY <2>1, <2>2, <2>3 DEF Move, Moved
<1>2. Timely(p, t, r)
  <2>1. r.skipped = skipped /\ r.parser = q
    BY DEF Result
  <2>2. r.skipped \/ Patience(p, t) + 1 <= Delay(r.parser.state)
    BY <2>1, Zenon
  <2> QED BY <2>2, TimelyStep
<1>3. PICK e : e = NoEvent
  OBVIOUS
<1> QED BY <1>1, <1>2, <1>3, OuterGood
\* A result that says so.
LEMMA TimelyResult ==
  ASSUME NEW p, NEW t, NEW q, NEW skipped \in BOOLEAN, NEW e,
         skipped \/ Patience(p, t) + 1 <= Patience(q, t), NEW r, r = Result(q, skipped, e)
  PROVE  Timely(p, t, r)
<1>1. r.parser = q /\ r.skipped = skipped
  BY DEF Result
<1> QED BY <1>1, Zenon DEF Timely

\* A node that may be a block and begins no indentless sequence.
LEMMA PlainNode ==
  ASSUME NEW p, DOMAIN p = Fields
  PROVE  /\ DOMAIN Node(p, TRUE, FALSE) = Fields
         /\ Node(p, TRUE, FALSE).state = "node" /\ Node(p, TRUE, FALSE).states = p.states
         /\ Node(p, TRUE, FALSE).indentless = FALSE
         /\ Node(p, TRUE, FALSE).anchor = FALSE /\ Node(p, TRUE, FALSE).tag = ""
BY DEF Node, Fields

\* A document begins.
LEMMA DocumentGood ==
  ASSUME NEW p, WellFormed(p), NEW t, NEW skipped \in BOOLEAN, NEW q, DOMAIN q = Fields,
         p.state \in {"implicit document start", "directives"},
         q.states = Append(p.states, "document end"), q.state \in Nodal,
         q.state = "node" => ~q.indentless,
         skipped => t.type \notin BlockTokens, skipped \/ Patience(p, t) + 1 <= Patience(q, t),
         NEW r, r = Result(q, skipped, Plain("document-start"))
  PROVE  Good(p, t, r)
<1>1. PICK e : e = Plain("document-start")
  OBVIOUS
<1>2. p.state \in Outer
  BY OuterFacts
<1>3. Move(p, q, e)
  BY <1>1, NoEventType DEF Move, DocumentStarted
<1>4. r = Result(q, skipped, e)
  BY <1>1
<1>5. Timely(p, t, r)
  BY <1>4, TimelyResult
<1> QED BY <1>2, <1>3, <1>4, <1>5, OuterGood

\* The first document may begin without a marker.
LEMMA ImplicitDocumentStartGood ==
  ASSUME NEW p, WellFormed(p), NEW t, NEW r, r = Step(p, t), p.state = "implicit document start"
  PROVE  Good(p, t, r)
<1>1. DOMAIN p = Fields
  BY DEF WellFormed
<1>2. r = ImplicitDocumentStart(p, t)
  BY StepAt
<1>3. Patience(p, t) = 0
  BY DEF Patience, Delay
<1>4. CASE t.type = "stream-end"
  <2>1. r = StreamEnd(p)
    BY <1>2, <1>4 DEF ImplicitDocumentStart
  <2> QED BY <1>4, <2>1, StreamEndGood
<1>5. CASE t.type \in {"directive", "---"}
  <2>1. PICK q : q = Goto(p, "directives")
    OBVIOUS
  <2>2. r = Result(q, FALSE, NoEvent)
    BY <1>2, <1>5, <2>1 DEF ImplicitDocumentStart, Stay
  <2>3. DOMAIN q = Fields /\ q.state = "directives" /\ q.states = p.states
    BY <1>1, <2>1, GotoFields
  <2>4. {p.state, q.state} \subseteq Outer \ {"document end"}
    BY <2>3, OuterFacts
  <2>5. Delay(q.state) = 3
    BY <2>3 DEF Delay
  <2>6. Patience(p, t) + 1 <= Delay(q.state)
    BY <1>3, <2>5, SmallNumbers, Zenon
  <2> QED BY <2>2, <2>3, <2>4, <2>6, BetweenGood
<1>6. CASE t.type \notin {"stream-end", "directive", "---"}
  <2>1. PICK d : d = Document(p)
    OBVIOUS
  <2>2. DOMAIN d = Fields /\ d.states = Append(p.states, "document end")
    BY <1>1, <2>1, DocumentFields
  <2>3. PICK q : q = Node(d, TRUE, FALSE)
    OBVIOUS
  <2>4. /\ DOMAIN q = Fields /\ q.state = "node" /\ q.states = d.states
        /\ q.indentless = FALSE /\ q.anchor = FALSE /\ q.tag = ""
    BY <2>2, <2>3, PlainNode
  <2>5. r = Result(q, FALSE, Plain("document-start"))
    BY <1>2, <1>6, <2>1, <2>3 DEF ImplicitDocumentStart, Gives
  <2>6. Patience(q, t) = 1
    BY <2>4 DEF Patience
  <2>7. Patience(p, t) + 1 <= Patience(q, t)
    BY <1>3, <2>6, SmallNumbers, Zenon
  <2>8. q.state \in Nodal
    BY <2>4 DEF Nodal
  <2> QED BY <2>2, <2>4, <2>5, <2>7, <2>8, DocumentGood
<1> QED BY <1>4, <1>5, <1>6

\* Between two documents.
LEMMA DocumentStartGood ==
  ASSUME NEW p, WellFormed(p), NEW t, NEW r, r = Step(p, t), p.state = "document start"
  PROVE  Good(p, t, r)
<1>1. DOMAIN p = Fields
  BY DEF WellFormed
<1>2. r = DocumentStart(p, t)
  BY StepAt
<1>3. CASE t.type = "..."
  <2>1. r = Result(p, TRUE, NoEvent)
    BY <1>2, <1>3 DEF DocumentStart, Skip
  <2>2. {p.state, p.state} \subseteq Outer \ {"document end"}
    BY OuterFacts
  <2>3. t.type \notin BlockTokens
    BY <1>3 DEF BlockStarts, BlockTokens
  <2> QED BY <1>1, <2>1, <2>2, <2>3, BetweenGood
<1>4. CASE t.type = "stream-end"
  <2>1. r = StreamEnd(p)
    BY <1>2, <1>4 DEF DocumentStart
  <2> QED BY <1>4, <2>1, StreamEndGood
<1>5. CASE t.type \notin {"...", "stream-end"}
  <2>1. PICK q : q = Goto(p, "directives")
    OBVIOUS
  <2>2. r = Result(q, FALSE, NoEvent)
    BY <1>2, <1>5, <2>1 DEF DocumentStart, Stay
  <2>3. DOMAIN q = Fields /\ q.state = "directives" /\ q.states = p.states
    BY <1>1, <2>1, GotoFields
  <2>4. {p.state, q.state} \subseteq Outer \ {"document end"}
    BY <2>3, OuterFacts
  <2>5. Patience(p, t) = 2 /\ Delay(q.state) = 3
    BY <2>3 DEF Patience, Delay
  <2>6. Patience(p, t) + 1 <= Delay(q.state)
    BY <2>5, SmallNumbers, Zenon
  <2> QED BY <2>2, <2>3, <2>4, <2>6, BetweenGood
<1> QED BY <1>3, <1>4, <1>5

\* The directives of a document and its "---".
LEMMA DirectivesGood ==
  ASSUME NEW p, WellFormed(p), NEW t, NEW r, r = Step(p, t), p.state = "directives"
  PROVE  Good(p, t, r)
<1>1. DOMAIN p = Fields
  BY DEF WellFormed
<1>2. r = Directives(p, t)
  BY StepAt
<1>3. CASE t.type = "---"
  <2>1. PICK d : d = Document(p)
    OBVIOUS
  <2>2. DOMAIN d = Fields /\ d.states = Append(p.states, "document end")
    BY <1>1, <2>1, DocumentFields
  <2>3. PICK q : q = Goto(d, "document content")
    OBVIOUS
  <2>4. DOMAIN q = Fields /\ q.state = "document content" /\ q.states = d.states
    BY <2>2, <2>3, GotoFields
  <2>5. r = Result(q, TRUE, Plain("document-start"))
    BY <1>2, <1>3, <2>1, <2>3 DEF Directives, Takes
  <2>6. q.state \in Nodal /\ q.state # "node"
    BY <2>4 DEF Nodal
  <2>7. t.type \notin BlockTokens
    BY <1>3 DEF BlockStarts, BlockTokens
  <2> QED BY <2>2, <2>4, <2>5, <2>6, <2>7, DocumentGood
<1>4. CASE t.type # "---"
  <2>1. \/ r = Error(p)
        \/ t.type = "directive" /\ r = Skip([p EXCEPT !.version = TRUE])
        \/ t.type = "directive" /\ r = Skip([p EXCEPT !.tags = @ \cup {t.value.text}])
    BY <1>2, <1>4 DEF Directives
  <2>2. CASE r = Error(p)
    <3>1. Patience(p, t) = 3
      BY DEF Patience, Delay
    <3>2. Patience(p, t) <= 3
      BY <3>1, SmallNumbers, Zenon
    <3>3. p.state \notin BlockFirsts
      BY DEF BlockFirsts
    <3> QED BY <2>2, <3>2, <3>3, ErrorGood
  <2>3. CASE t.type = "directive" /\ r # Error(p)
    <3>1. PICK q : /\ r = Result(q, TRUE, NoEvent)
                   /\ \/ q = [p EXCEPT !.version = TRUE]
                      \/ q = [p EXCEPT !.tags = @ \cup {t.value.text}]
      BY <2>1, <2>3 DEF Skip
    <3>2. DOMAIN q = Fields /\ q.state = p.state /\ q.states = p.states
      BY <1>1, <3>1 DEF Fields
    <3>3. {p.state, q.state} \subseteq Outer \ {"document end"}
      BY <3>2, OuterFacts
    <3>4. t.type \notin BlockTokens
      BY <2>3 DEF BlockStarts, BlockTokens
    <3> QED BY <3>1, <3>2, <3>3, <3>4, BetweenGood
  <2> QED BY <2>1, <2>2, <2>3
<1> QED BY <1>3, <1>4

\* What follows a document's "---".
LEMMA DocumentContentGood ==
  ASSUME NEW p, WellFormed(p), NEW t, NEW r, r = Step(p, t), p.state = "document content"
  PROVE  Good(p, t, r)
<1>1. DOMAIN p = Fields /\ p.state \in Nodal
  BY DEF WellFormed, Nodal
<1>2. r = DocumentContent(p, t)
  BY StepAt
<1>3. Patience(p, t) = 0
  BY DEF Patience, Delay
<1>4. CASE t.type \in Markers
  <2>1. PICK e : e = Plain("scalar")
    OBVIOUS
  <2>2. r = Result(Return(p), FALSE, e)
    BY <1>2, <1>4, <2>1 DEF DocumentContent, EmptyScalar, Gives
  <2>3. e.type \in Answers
    BY <2>1, NoEventType DEF Answers
  <2> QED BY <1>1, <1>3, <2>2, <2>3, AnswerGood
<1>5. CASE t.type \notin Markers
  <2>1. PICK q : q = Node(p, TRUE, FALSE)
    OBVIOUS
  <2>2. /\ DOMAIN q = Fields /\ q.state = "node" /\ q.states = p.states
        /\ q.indentless = FALSE /\ q.anchor = FALSE /\ q.tag = ""
    BY <1>1, <2>1, PlainNode
  <2>3. r = Result(q, FALSE, NoEvent)
    BY <1>2, <1>5, <2>1 DEF DocumentContent, Stay
  <2> QED BY <1>1, <1>3, <2>2, <2>3, ContinueGood
<1> QED BY <1>4, <1>5

\* The end of a document.
LEMMA DocumentEndGood ==
  ASSUME NEW p, WellFormed(p), NEW t, NEW r, r = Step(p, t), p.state = "document end"
  PROVE  Good(p, t, r)
<1>1. DOMAIN p = Fields /\ p.state \in Outer
  BY OuterFacts DEF WellFormed
<1>2. PICK c : c = Goto(p, "document start")
  OBVIOUS
<1>3. DOMAIN c = Fields /\ c.state = "document start" /\ c.states = p.states
  BY <1>1, <1>2, GotoFields
<1>4. PICK q, e : q = [c EXCEPT !.tags = {}] /\ e = Plain("document-end")
  OBVIOUS
<1>5. PICK skipped \in BOOLEAN : skipped = (t.type = "...")
  OBVIOUS
<1>6. r = Result(q, skipped, e)
  BY <1>2, <1>4, <1>5, StepAt DEF DocumentEnd
<1>7. /\ DOMAIN q = Fields /\ q.state = "document start" /\ q.states = p.states
      /\ e.type = "document-end"
  BY <1>3, <1>4, NoEventType DEF Fields
<1>8. Move(p, q, e) /\ q.state \in Outer
  BY <1>7, OuterFacts DEF Move, DocumentEnded
<1>9. skipped => t.type \notin BlockTokens
  BY <1>5 DEF BlockStarts, BlockTokens
<1>10. Timely(p, t, r)
  <2>1. Patience(p, t) = 1 /\ Patience(q, t) = 2
    BY <1>7 DEF Patience, Delay
  <2>2. Patience(p, t) + 1 <= Patience(q, t)
    BY <2>1, SmallNumbers, Zenon
  <2> QED BY <1>6, <2>2, TimelyResult
<1> QED BY <1>1, <1>6, <1>7, <1>8, <1>9, <1>10, OuterGood

\* Every step is good.
LEMMA StepGood ==
  ASSUME NEW p, WellFormed(p), p.state \notin {"end", "error"}, NEW t,
         p.state \in Firsts => t.type = FirstToken(p.state), NEW r, r = Step(p, t)
  PROVE  Good(p, t, r)
<1>1. p.state \in States
  BY DEF WellFormed
<1>2. \/ p.state \in {"stream start", "implicit document start", "document start", "directives",
                      "document end"}
      \/ p.state \in {"node", "document content"}
      \/ p.state \in Firsts
      \/ p.state \in ItemStates
      \/ p.state \in {"block mapping value", "flow pair value", "flow mapping value"}
      \/ p.state \in {"block sequence", "block mapping key", "flow sequence", "flow mapping key"}
      \/ p.state \in {"indentless sequence", "flow sequence item"}
      \/ p.state \in {"flow pair key", "flow pair end"}
      \/ p.state \in {"flow mapping item", "flow mapping empty value"}
  BY <1>1 DEF States, Outer, Nodal, Inner, SequenceStates, KeyStates, ValueStates, Firsts,
              ItemStates
<1>3. CASE p.state \in {"stream start", "implicit document start", "document start",
                        "directives", "document end"}
  BY <1>3, StreamGood, ImplicitDocumentStartGood, DocumentStartGood, DirectivesGood,
     DocumentEndGood
<1>4. CASE p.state \in {"node", "document content"}
  BY <1>4, NodeGood, DocumentContentGood
<1>5. CASE p.state \in Firsts
  BY <1>5, FirstGood
<1>6. CASE p.state \in ItemStates
  BY <1>6, ItemGood
<1>7. CASE p.state \in {"block mapping value", "flow pair value", "flow mapping value"}
  BY <1>7, ValueGood
<1>8. CASE p.state \in {"block sequence", "block mapping key", "flow sequence",
                        "flow mapping key"}
  BY <1>8, EntryGood
<1>9. CASE p.state \in {"indentless sequence", "flow sequence item"}
  BY <1>9, IndentlessGood, FlowSequenceItemGood
<1>10. CASE p.state \in {"flow pair key", "flow pair end"}
  BY <1>10, FlowPairGood
<1>11. CASE p.state \in {"flow mapping item", "flow mapping empty value"}
  BY <1>11, FlowMappingGood
<1> QED BY <1>2, <1>3, <1>4, <1>5, <1>6, <1>7, <1>8, <1>9, <1>10, <1>11
-----------------------------------------------------------------------------
(* The calls of the builder stay those of the automaton's stack.           *)

\* The height of a state is one of three.
LEMMA Heights == \A s : Height(s) \in 0..2
BY DEF Height

\* A state's calls are the same where the stack is.
LEMMA StandsAlike ==
  ASSUME NEW stack, NEW other, NEW k \in Nat, NEW height \in 0..2, NEW top,
         Stands(stack, k, height, top), \A j \in k + 1..k + height : other[j] = stack[j]
  PROVE  Stands(other, k, height, top)
<1>1. CASE height = 0
  BY <1>1 DEF Stands
<1>2. CASE height = 1
  <2>1. other[k + 1] = stack[k + 1]
    BY <1>2
  <2>2. stack[k + 1] = top
    BY <1>2 DEF Stands
  <2> QED BY <1>2, <2>1, <2>2 DEF Stands
<1>3. CASE height = 2
  <2>1. other[k + 1] = stack[k + 1] /\ other[k + 2] = stack[k + 2]
    BY <1>3
  <2>2. stack[k + 2] = top /\ stack[k + 1] = "sequence"
    BY <1>3 DEF Stands
  <2> QED BY <1>3, <2>1, <2>2 DEF Stands
<1> QED BY <1>1, <1>2, <1>3

\* What is above the lowest calls does not matter to them.
LEMMA GroundedAlike ==
  ASSUME NEW states, NEW others, NEW n \in Nat, NEW stack, NEW other, NEW f,
         Grounded(states, n, stack, f), \A i \in 1..n : others[i] = states[i],
         \A j \in 1..f[n + 1] : other[j] = stack[j]
  PROVE  Grounded(others, n, other, f)
<1>1. /\ f \in [1..n + 1 -> Nat] /\ f[1] = 1
      /\ \A i \in 1..n : /\ f[i + 1] = f[i] + Height(states[i])
                         /\ Stands(stack, f[i], Height(states[i]), Top(states[i]))
      /\ \A i, j \in 1..n + 1 : i <= j => f[i] <= f[j]
  BY DEF Grounded
<1>2. ASSUME NEW i \in 1..n
      PROVE  /\ f[i + 1] = f[i] + Height(others[i])
             /\ Stands(other, f[i], Height(others[i]), Top(others[i]))
  <2>1. others[i] = states[i] /\ Height(states[i]) \in 0..2
    BY Heights
  <2>2. PICK h \in 0..2 : h = Height(states[i])
    BY <2>1
  <2>3. /\ f[i] \in Nat /\ f[i + 1] \in Nat /\ f[n + 1] \in Nat /\ f[i + 1] = f[i] + h
        /\ f[i + 1] <= f[n + 1]
    BY <1>1, <2>2
  <2>4. \A j \in f[i] + 1..f[i] + h : other[j] = stack[j]
    BY <2>3
  <2>5. Stands(stack, f[i], h, Top(states[i]))
    BY <1>1, <2>2
  <2>6. Stands(other, f[i], h, Top(states[i]))
    BY <2>3, <2>4, <2>5, StandsAlike
  <2> QED BY <1>1, <2>1, <2>2, <2>6
<1> QED BY <1>1, <1>2 DEF Grounded

\* One more state.
LEMMA GroundedPush ==
  ASSUME NEW states, NEW n \in Nat, NEW stack, NEW f, Grounded(states, n, stack, f),
         Stands(stack, f[n + 1], Height(states[n + 1]), Top(states[n + 1]))
  PROVE  \E g : /\ Grounded(states, n + 1, stack, g)
                /\ g[n + 2] = f[n + 1] + Height(states[n + 1])
<1>1. /\ f \in [1..n + 1 -> Nat] /\ f[1] = 1
      /\ \A i \in 1..n : /\ f[i + 1] = f[i] + Height(states[i])
                         /\ Stands(stack, f[i], Height(states[i]), Top(states[i]))
      /\ \A i, j \in 1..n + 1 : i <= j => f[i] <= f[j]
  BY DEF Grounded
<1>2. PICK h \in 0..2 : h = Height(states[n + 1])
  BY Heights
<1> DEFINE g == [i \in 1..n + 2 |-> IF i = n + 2 THEN f[n + 1] + h ELSE f[i]]
<1>3. /\ g \in [1..n + 2 -> Nat] /\ g[n + 2] = f[n + 1] + h
      /\ \A i \in 1..n + 1 : g[i] = f[i]
  BY <1>1
<1> HIDE DEF g
<1>4. g[1] = 1
  BY <1>1, <1>3
<1>5. ASSUME NEW i \in 1..n + 1
      PROVE  /\ g[i + 1] = g[i] + Height(states[i])
             /\ Stands(stack, g[i], Height(states[i]), Top(states[i]))
  <2>1. CASE i = n + 1
    BY <1>2, <1>3, <2>1
  <2>2. CASE i \in 1..n
    BY <1>1, <1>3, <2>2
  <2> QED BY <2>1, <2>2
<1>6. ASSUME NEW i \in 1..n + 2, NEW j \in 1..n + 2, i <= j
      PROVE  g[i] <= g[j]
  <2>1. CASE j \in 1..n + 1
    BY <1>1, <1>3, <1>6, <2>1
  <2>2. CASE j = n + 2 /\ i = n + 2
    BY <1>3, <2>2
  <2>3. CASE j = n + 2 /\ i \in 1..n + 1
    <3>1. f[i] <= f[n + 1] /\ f[i] \in Nat /\ f[n + 1] \in Nat
      BY <1>1, <2>3
    <3> QED BY <1>3, <2>3, <3>1
  <2> QED BY <1>6, <2>1, <2>2, <2>3
<1>7. (n + 1) + 1 = n + 2
  OBVIOUS
<1>8. Grounded(states, n + 1, stack, g)
  BY <1>3, <1>4, <1>5, <1>6, <1>7 DEF Grounded
<1> QED BY <1>2, <1>3, <1>8

\* One state less.
LEMMA GroundedPop ==
  ASSUME NEW states, NEW n \in Nat, NEW stack, NEW f, Grounded(states, n + 1, stack, f)
  PROVE  \E g : /\ Grounded(states, n, stack, g)
                /\ g[n + 1] \in Nat \ {0}
                /\ f[n + 2] = g[n + 1] + Height(states[n + 1])
                /\ Stands(stack, g[n + 1], Height(states[n + 1]), Top(states[n + 1]))
<1>1. /\ f \in [1..n + 2 -> Nat] /\ f[1] = 1
      /\ \A i \in 1..n + 1 : /\ f[i + 1] = f[i] + Height(states[i])
                             /\ Stands(stack, f[i], Height(states[i]), Top(states[i]))
      /\ \A i, j \in 1..n + 2 : i <= j => f[i] <= f[j]
  <2>1. (n + 1) + 1 = n + 2
    OBVIOUS
  <2> QED BY <2>1 DEF Grounded
<1> DEFINE g == [i \in 1..n + 1 |-> f[i]]
<1>2. g \in [1..n + 1 -> Nat] /\ \A i \in 1..n + 1 : g[i] = f[i]
  BY <1>1
<1> HIDE DEF g
<1>3. Grounded(states, n, stack, g)
  BY <1>1, <1>2 DEF Grounded
<1>4. /\ f[n + 2] = f[n + 1] + Height(states[n + 1])
      /\ Stands(stack, f[n + 1], Height(states[n + 1]), Top(states[n + 1]))
      /\ f[1] <= f[n + 1]
  BY <1>1
<1>5. g[n + 1] = f[n + 1] /\ f[n + 1] \in Nat \ {0}
  BY <1>1, <1>2, <1>4
<1>6. /\ Grounded(states, n, stack, g) /\ g[n + 1] \in Nat \ {0}
      /\ f[n + 2] = g[n + 1] + Height(states[n + 1])
      /\ Stands(stack, g[n + 1], Height(states[n + 1]), Top(states[n + 1]))
  BY <1>3, <1>4, <1>5, Zenon
<1> QED BY <1>6, Zenon
-----------------------------------------------------------------------------
(* What the builder does with an event.                                    *)

Typed(b) == DOMAIN b = BuilderFields /\ b.stack \in Seq(Waits) /\ b.outcome = "reading"
\* What it waits for where a node may stand, and the stack with a node in its place.
Enclosing == {"document", "sequence", "key", "value"}
Replaced(s) == [s EXCEPT ![Len(s)] = Enclosed[@]]

\* A node in its place changes the top of the stack alone.
LEMMA ReplacedFacts ==
  ASSUME NEW s \in Seq(Waits), s # <<>>, Last(s) \in Enclosing
  PROVE  /\ Replaced(s) \in Seq(Waits) /\ Len(Replaced(s)) = Len(s) /\ Len(s) \in Nat \ {0}
         /\ Replaced(s)[Len(s)] = Enclosed[Last(s)]
         /\ \A j \in 1..Len(s) - 1 : Replaced(s)[j] = s[j]
<1>1. Len(s) \in Nat \ {0} /\ DOMAIN s = 1..Len(s) /\ Last(s) = s[Len(s)]
  BY FrontLast
<1>2. \A x \in Enclosing : Enclosed[x] \in Waits
  <2>1. /\ Enclosed["document"] = "document done" /\ Enclosed["sequence"] = "sequence"
        /\ Enclosed["key"] = "value" /\ Enclosed["value"] = "key"
    BY DEF Enclosed
  <2> QED BY <2>1 DEF Enclosing, Waits
<1>3. Replaced(s) = [s EXCEPT ![Len(s)] = Enclosed[s[Len(s)]]]
  BY DEF Replaced
<1>4. Enclosed[s[Len(s)]] \in Waits
  BY <1>1, <1>2
<1>5. PICK w \in Waits : w = Enclosed[s[Len(s)]]
  BY <1>4
<1>6. Replaced(s) = [s EXCEPT ![Len(s)] = w]
  BY <1>3, <1>5
<1>7. PICK n : n = Len(s)
  OBVIOUS
<1>8. n \in 1..Len(s) /\ n \in Nat \ {0}
  BY <1>1, <1>7
<1>9. PICK r : r = [s EXCEPT ![n] = w]
  OBVIOUS
<1>10. /\ r \in Seq(Waits) /\ Len(r) = Len(s)
       /\ \A j \in 1..Len(s) : r[j] = IF j = n THEN w ELSE s[j]
  BY <1>8, <1>9, ExceptSeq
<1>11. r[n] = w /\ \A j \in 1..n - 1 : r[j] = s[j]
  BY <1>7, <1>8, <1>10
<1>12. Replaced(s) = r
  BY <1>6, <1>7, <1>9
<1> QED BY <1>1, <1>5, <1>7, <1>10, <1>11, <1>12

\* A scalar or an alias.
LEMMA BuildAnswer ==
  ASSUME NEW b, Typed(b), Waiting(b) \in Enclosing, NEW e, e.type \in Answers,
         NEW c, c = Build(b, e)
  PROVE  c.outcome = "unknown anchor" \/ (DOMAIN c = BuilderFields /\ c.outcome = "reading"
                                           /\ c.stack = Replaced(b.stack))
<1>1. DOMAIN b = BuilderFields /\ b.outcome = "reading"
  BY DEF Typed
<1>2. PICK d : d = Completed(b)
  OBVIOUS
<1>3. DOMAIN d = BuilderFields /\ d.outcome = "reading" /\ d.stack = Replaced(b.stack)
  BY <1>1, <1>2 DEF Completed, Replaced, BuilderFields
<1>4. \/ c = [d EXCEPT !.anchored = @ \/ e.anchor]
      \/ c = d
      \/ c = Over(b, "unknown anchor")
  BY <1>2 DEF Build, Enclosing, Answers
<1>5. CASE c = [d EXCEPT !.anchored = @ \/ e.anchor]
  BY <1>3, <1>5 DEF BuilderFields
<1>6. CASE c = d
  BY <1>3, <1>6
<1>7. CASE c = Over(b, "unknown anchor")
  BY <1>1, <1>7 DEF Over, BuilderFields
<1> QED BY <1>4, <1>5, <1>6, <1>7

\* The start of a collection.
LEMMA BuildStart ==
  ASSUME NEW b, Typed(b), Waiting(b) \in Enclosing, NEW e, NEW inside,
         \/ e.type = "sequence-start" /\ inside = "sequence"
         \/ e.type = "mapping-start" /\ inside = "key",
         NEW c, c = Build(b, e)
  PROVE  /\ DOMAIN c = BuilderFields /\ c.outcome = "reading"
         /\ c.stack = Append(Replaced(b.stack), inside)
<1>1. DOMAIN b = BuilderFields /\ b.outcome = "reading"
  BY DEF Typed
<1>2. PICK d : d = Completed(b)
  OBVIOUS
<1>3. DOMAIN d = BuilderFields /\ d.outcome = "reading" /\ d.stack = Replaced(b.stack)
  BY <1>1, <1>2 DEF Completed, Replaced, BuilderFields
<1>4. c = Begun(b, e, inside)
  BY DEF Build, Enclosing
<1>5. c = [d EXCEPT !.stack = Append(@, inside), !.anchored = @ \/ e.anchor]
  BY <1>2, <1>4 DEF Begun
<1> QED BY <1>3, <1>5 DEF BuilderFields

\* The end of a collection or of a document.
LEMMA BuildEnd ==
  ASSUME NEW b, Typed(b), NEW e,
         \/ e.type = "sequence-end" /\ Waiting(b) = "sequence"
         \/ e.type = "mapping-end" /\ Waiting(b) = "key"
         \/ e.type = "document-end" /\ Waiting(b) = "document done",
         NEW c, c = Build(b, e)
  PROVE  DOMAIN c = BuilderFields /\ c.outcome = "reading" /\ c.stack = Front(b.stack)
<1>1. DOMAIN b = BuilderFields /\ b.outcome = "reading"
  BY DEF Typed
<1>2. c = [b EXCEPT !.stack = Front(@)]
  BY DEF Build
<1> QED BY <1>1, <1>2 DEF BuilderFields

\* The stream and the start of a document.
LEMMA BuildStream ==
  ASSUME NEW b, Typed(b), Waiting(b) = "stream", NEW e, NEW c, c = Build(b, e)
  PROVE  /\ e.type = "stream-start" => c = b
         /\ e.type = "stream-end" => c.outcome = "read"
         /\ e.type = "document-start" => /\ DOMAIN c = BuilderFields /\ c.outcome = "reading"
                                         /\ c.stack = Append(b.stack, "document")
<1>1. DOMAIN b = BuilderFields /\ b.outcome = "reading"
  BY DEF Typed
<1>2. CASE e.type = "stream-start"
  BY <1>2 DEF Build
<1>3. CASE e.type = "stream-end"
  <2>1. c = Over(b, "read")
    BY <1>3 DEF Build
  <2> QED BY <1>1, <1>3, <2>1 DEF Over, BuilderFields
<1>4. CASE e.type = "document-start"
  <2>1. c = [b EXCEPT !.stack = Append(@, "document")]
    BY <1>4 DEF Build
  <2> QED BY <1>1, <1>4, <2>1 DEF BuilderFields
<1> QED BY <1>2, <1>3, <1>4
-----------------------------------------------------------------------------
(* The builder waits for what the state stands for after every move.       *)

\* The invariant with its witnesses: n states are below the innermost one, and k calls.
Found(p, b, n, k, f) ==
  /\ n \in Nat /\ k \in Nat \ {0} /\ n = Lower(p) /\ f[n + 1] = k
  /\ Grounded(p.states, n, b.stack, f)
  /\ Len(b.stack) = k + Height(Innermost(p))
  /\ Stands(b.stack, k, Height(Innermost(p)), Awaited(p))
  /\ Typed(b) /\ b.stack # <<>> /\ b.stack[1] = "stream"

\* They are there.
LEMMA MatchedFound ==
  ASSUME NEW p, WellFormed(p), p.state # "error", NEW b, Matched(p, b)
  PROVE  \E n, k, f : Found(p, b, n, k, f)
<1>1. p.states \in Seq(Backs) /\ (p.state \notin Outer => p.states # <<>>)
  BY DEF WellFormed
<1>2. Lower(p) \in Nat
  <2>1. Len(p.states) \in Nat
    BY <1>1, LenProperties
  <2>2. CASE p.state \in Nodal
    <3>1. p.states # <<>>
      BY <1>1, <2>2, BackFacts
    <3>2. Len(p.states) \in Nat \ {0}
      BY <1>1, <3>1, FrontLast
    <3> QED BY <2>2, <3>2 DEF Lower
  <2>3. CASE p.state \notin Nodal
    BY <2>1, <2>3 DEF Lower
  <2> QED BY <2>2, <2>3
<1>3. PICK f : Founded(p, b, f)
  BY DEF Matched
<1>4. PICK n \in Nat : n = Lower(p)
  BY <1>2
<1>5. /\ Grounded(p.states, n, b.stack, f)
      /\ Len(b.stack) = f[n + 1] + Height(Innermost(p))
      /\ Stands(b.stack, f[n + 1], Height(Innermost(p)), Awaited(p))
  BY <1>3, <1>4 DEF Founded
<1>6. f[n + 1] \in Nat \ {0}
  <2>1. f \in [1..n + 1 -> Nat] /\ f[1] = 1 /\ \A i, j \in 1..n + 1 : i <= j => f[i] <= f[j]
    BY <1>5 DEF Grounded
  <2>2. f[n + 1] \in Nat /\ f[1] <= f[n + 1]
    BY <2>1
  <2> QED BY <2>1, <2>2
<1>7. Typed(b) /\ b.stack # <<>> /\ b.stack[1] = "stream"
  BY DEF Matched, Typed
<1>8. PICK k : k = f[n + 1]
  OBVIOUS
<1>9. Found(p, b, n, k, f)
  BY <1>4, <1>5, <1>6, <1>7, <1>8 DEF Found
<1> QED BY <1>9, Zenon

\* What the builder waits for.
LEMMA FoundWaits ==
  ASSUME NEW p, NEW b, NEW n, NEW k, NEW f, Found(p, b, n, k, f)
  PROVE  /\ Height(Innermost(p)) \in {1, 2} => Waiting(b) = Awaited(p)
         /\ n = 0 /\ Height(Innermost(p)) = 0 => Waiting(b) = "stream" /\ k = 1
<1>1. /\ b.stack \in Seq(Waits) /\ b.stack # <<>> /\ b.stack[1] = "stream"
      /\ k \in Nat \ {0} /\ Len(b.stack) = k + Height(Innermost(p))
      /\ Stands(b.stack, k, Height(Innermost(p)), Awaited(p))
  BY DEF Found, Typed
<1>2. Last(b.stack) = b.stack[Len(b.stack)]
  BY <1>1, FrontLast
<1>3. ASSUME Height(Innermost(p)) \in {1, 2}
      PROVE  Waiting(b) = Awaited(p)
  <2>1. b.stack[k + Height(Innermost(p))] = Awaited(p)
    BY <1>1, <1>3 DEF Stands
  <2> QED BY <1>1, <1>2, <2>1 DEF Waiting
<1>4. ASSUME n = 0, Height(Innermost(p)) = 0
      PROVE  Waiting(b) = "stream" /\ k = 1
  <2>1. k = 1
    <3>1. f[n + 1] = k /\ f[1] = 1
      BY DEF Found, Grounded
    <3> QED BY <1>4, <3>1
  <2>2. Len(b.stack) = 1
    BY <1>1, <1>4, <2>1
  <2> QED BY <1>1, <1>2, <2>1, <2>2 DEF Waiting
<1> QED BY <1>3, <1>4

\* A move at the same depth.
LEMMA SameDepth ==
  ASSUME NEW p, NEW b, NEW n, NEW k, NEW f, Found(p, b, n, k, f),
         NEW q, Lower(q) = n, \A i \in 1..n : q.states[i] = p.states[i],
         NEW c, Typed(c), \A j \in 1..k : c.stack[j] = b.stack[j],
         Len(c.stack) = k + Height(Innermost(q)),
         Stands(c.stack, k, Height(Innermost(q)), Awaited(q))
  PROVE  Matched(q, c)
<1>1. /\ n \in Nat /\ k \in Nat \ {0} /\ f[n + 1] = k /\ Grounded(p.states, n, b.stack, f)
      /\ b.stack[1] = "stream"
  BY DEF Found
<1>2. Grounded(q.states, n, c.stack, f)
  BY <1>1, GroundedAlike
<1>3. Founded(q, c, f)
  BY <1>1, <1>2 DEF Founded
<1>4. c.stack[1] = "stream"
  BY <1>1
<1>5. c.stack # <<>>
  <2>1. Height(Innermost(q)) \in 0..2
    BY Heights
  <2>2. Len(c.stack) # 0
    BY <1>1, <2>1
  <2> QED BY <2>2, EmptySeq
<1> QED BY <1>3, <1>4, <1>5, Zenon DEF Matched, Typed

\* A collection begins.
LEMMA Deeper ==
  ASSUME NEW p, NEW b, NEW n, NEW k, NEW f, Found(p, b, n, k, f),
         NEW q, Lower(q) = n + 1, \A i \in 1..n : q.states[i] = p.states[i],
         NEW c, Typed(c), \A j \in 1..k : c.stack[j] = b.stack[j],
         NEW h, h = Height(q.states[n + 1]), Stands(c.stack, k, h, Top(q.states[n + 1])),
         Len(c.stack) = (k + h) + Height(Innermost(q)),
         Stands(c.stack, k + h, Height(Innermost(q)), Awaited(q))
  PROVE  Matched(q, c)
<1>1. /\ n \in Nat /\ k \in Nat \ {0} /\ f[n + 1] = k /\ Grounded(p.states, n, b.stack, f)
      /\ b.stack[1] = "stream"
  BY DEF Found
<1>2. Grounded(q.states, n, c.stack, f)
  BY <1>1, GroundedAlike
<1>3. PICK g : Grounded(q.states, n + 1, c.stack, g) /\ g[n + 2] = k + h
  BY <1>1, <1>2, GroundedPush
<1>4. (n + 1) + 1 = n + 2
  BY <1>1
<1>5. Founded(q, c, g)
  BY <1>3, <1>4 DEF Founded
<1>6. c.stack[1] = "stream"
  BY <1>1
<1>7. c.stack # <<>>
  <2>1. Height(Innermost(q)) \in 0..2 /\ h \in 0..2
    BY Heights
  <2>2. Len(c.stack) # 0
    BY <1>1, <2>1
  <2> QED BY <2>2, EmptySeq
<1> QED BY <1>5, <1>6, <1>7, Zenon DEF Matched, Typed

\* A collection ends.
LEMMA Shallower ==
  ASSUME NEW p, NEW b, NEW n, NEW k, NEW f, Found(p, b, n, k, f),
         NEW q, Lower(q) \in Nat, n = Lower(q) + 1,
         \A i \in 1..Lower(q) : q.states[i] = p.states[i], Innermost(q) = p.states[n], Awaited(q) = Top(p.states[n]),
         NEW c, Typed(c), \A j \in 1..k : c.stack[j] = b.stack[j], Len(c.stack) = k
  PROVE  Matched(q, c)
<1>0. PICK m \in Nat : m = Lower(q) /\ n = m + 1
  OBVIOUS
<1>1. /\ k \in Nat \ {0} /\ f[m + 2] = k /\ Grounded(p.states, m + 1, b.stack, f)
      /\ b.stack[1] = "stream"
  <2>1. (m + 1) + 1 = m + 2
    OBVIOUS
  <2> QED BY <1>0, <2>1 DEF Found
<1>2. PICK g : /\ Grounded(p.states, m, b.stack, g) /\ g[m + 1] \in Nat \ {0}
               /\ f[m + 2] = g[m + 1] + Height(p.states[n])
               /\ Stands(b.stack, g[m + 1], Height(p.states[n]), Top(p.states[n]))
  BY <1>0, <1>1, GroundedPop
<1>3. PICK l \in Nat \ {0} : l = g[m + 1]
  BY <1>2
<1>4. PICK h \in 0..2 : h = Height(p.states[n])
  BY Heights
<1>5. k = l + h
  BY <1>1, <1>2, <1>3, <1>4
<1>6. Grounded(q.states, m, c.stack, g)
  <2>1. \A j \in 1..l : c.stack[j] = b.stack[j]
    BY <1>5
  <2> QED BY <1>0, <1>2, <1>3, <2>1, GroundedAlike
<1>7. Stands(c.stack, l, h, Top(p.states[n]))
  <2>1. \A j \in l + 1..l + h : c.stack[j] = b.stack[j]
    BY <1>5
  <2>2. PICK top : top = Top(p.states[n])
    OBVIOUS
  <2>3. Stands(b.stack, l, h, top)
    BY <1>2, <1>3, <1>4, <2>2
  <2>4. Stands(c.stack, l, h, top)
    BY <2>1, <2>3, StandsAlike
  <2> QED BY <2>2, <2>4
<1>8. Founded(q, c, g)
  BY <1>0, <1>3, <1>4, <1>5, <1>6, <1>7 DEF Founded
<1>9. c.stack[1] = "stream"
  BY <1>1
<1>10. c.stack # <<>>
  BY <1>1, EmptySeq
<1> QED BY <1>8, <1>9, <1>10, Zenon DEF Matched, Typed
\* What the states stand for where they are the innermost one.
LEMMA PlaceFacts ==
  ASSUME NEW p
  PROVE  /\ p.state \notin Nodal => /\ Lower(p) = Len(p.states) /\ Innermost(p) = p.state
                                    /\ Awaited(p) = Top(p.state)
         /\ p.state \in Nodal => /\ Lower(p) = Len(p.states) - 1
                                 /\ Innermost(p) = p.states[Len(p.states)]
                                 /\ Awaited(p) = Before(p.states[Len(p.states)])
BY DEF Lower, Innermost, Awaited

\* In a collection, and behind a node.
LEMMA StateKinds ==
  /\ \A s \in Inner : Height(s) \in {1, 2} /\ Top(s) \in Enclosing /\ s \notin Nodal \cup Outer
                      /\ s \in States
  /\ \A s \in Backs : Height(s) \in {1, 2} /\ Before(s) \in Enclosing /\ s \notin Nodal
                      /\ Enclosed[Before(s)] = Top(s)
<1>1. ASSUME NEW s \in Inner
      PROVE  /\ Height(s) \in {1, 2} /\ Top(s) \in Enclosing /\ s \notin Nodal \cup Outer
             /\ s \in States
  BY DEF Inner, Outer, Nodal, Height, Top, Enclosing, States, SequenceStates, KeyStates, ValueStates
<1>2. ASSUME NEW s \in Backs
      PROVE  /\ Height(s) \in {1, 2} /\ Before(s) \in Enclosing /\ s \notin Nodal
             /\ Enclosed[Before(s)] = Top(s)
  <2>1. /\ Enclosed["document"] = "document done" /\ Enclosed["sequence"] = "sequence"
        /\ Enclosed["key"] = "value" /\ Enclosed["value"] = "key"
    BY DEF Enclosed
  <2>2. Height(s) \in {1, 2} /\ s \notin Nodal
    BY DEF Backs, InnerBacks, Outer, Nodal, Height
  <2>3. \/ Before(s) = "document" /\ Top(s) = "document done"
        \/ Before(s) = "sequence" /\ Top(s) = "sequence"
        \/ Before(s) = "key" /\ Top(s) = "value"
        \/ Before(s) = "value" /\ Top(s) = "key"
    BY DEF Backs, InnerBacks, Before, Top, SequenceStates, KeyStates, ValueStates
  <2> QED BY <2>1, <2>2, <2>3 DEF Enclosing
<1> QED BY <1>1, <1>2

\* The states of a parser in a collection or about to read a node.
LEMMA InsideStates ==
  ASSUME NEW p, WellFormed(p), p.state \in Inner \cup Nodal
  PROVE  /\ DOMAIN p = Fields /\ p.states \in Seq(Backs) /\ p.states # <<>>
         /\ Len(p.states) \in Nat \ {0} /\ p.states[Len(p.states)] \in Backs
<1>1. p.state \notin Outer /\ p.state # "error"
  BY DEF Inner, Nodal, Outer, SequenceStates, KeyStates, ValueStates
<1>2. DOMAIN p = Fields /\ p.states \in Seq(Backs) /\ p.states # <<>>
  BY <1>1 DEF WellFormed
<1> QED BY <1>2, FrontLast

\* A step inside of a collection, or between two documents.
LEMMA MovedMatched ==
  ASSUME NEW p, NEW b, NEW n, NEW k, NEW f, Found(p, b, n, k, f), NEW q, NEW e, Moved(p, q, e)
  PROVE  Matched(q, b)
<1>1. /\ q.states = p.states /\ p.state \notin Nodal /\ q.state \notin Nodal
      /\ Height(q.state) = Height(p.state) /\ Top(q.state) = Top(p.state)
  BY DEF Moved, Kept
<1>2. Lower(q) = Lower(p) /\ Height(Innermost(q)) = Height(Innermost(p)) /\ Awaited(q) = Awaited(p)
  BY <1>1, PlaceFacts
<1>3. /\ Lower(p) = n /\ Typed(b) /\ Len(b.stack) = k + Height(Innermost(p))
      /\ Stands(b.stack, k, Height(Innermost(p)), Awaited(p))
  BY DEF Found
<1>4. /\ Lower(q) = n /\ Len(b.stack) = k + Height(Innermost(q))
      /\ Stands(b.stack, k, Height(Innermost(q)), Awaited(q))
  BY <1>2, <1>3
<1> QED BY <1>1, <1>3, <1>4, SameDepth

\* A step in the properties of a node.
LEMMA ContinuedMatched ==
  ASSUME NEW p, NEW b, NEW n, NEW k, NEW f, Found(p, b, n, k, f), NEW q, NEW e, Continued(p, q, e)
  PROVE  Matched(q, b)
<1>1. q.states = p.states /\ p.state \in Nodal /\ q.state \in Nodal
  BY DEF Continued, Nodal
<1>2. Lower(q) = Lower(p) /\ Innermost(q) = Innermost(p) /\ Awaited(q) = Awaited(p)
  BY <1>1, PlaceFacts
<1>3. /\ Lower(p) = n /\ Typed(b) /\ Len(b.stack) = k + Height(Innermost(p))
      /\ Stands(b.stack, k, Height(Innermost(p)), Awaited(p))
  BY DEF Found
<1>4. /\ Lower(q) = n /\ Len(b.stack) = k + Height(Innermost(q))
      /\ Stands(b.stack, k, Height(Innermost(q)), Awaited(q))
  BY <1>2, <1>3
<1> QED BY <1>1, <1>3, <1>4, SameDepth

\* A node begins in a collection.
LEMMA CalledMatched ==
  ASSUME NEW p, WellFormed(p), NEW b, NEW n, NEW k, NEW f, Found(p, b, n, k, f),
         NEW q, NEW e, Called(p, q, e)
  PROVE  Matched(q, b)
<1>1. p.state \in Inner /\ q.state \in Nodal
  BY DEF Called, Nodal
<1>2. PICK back \in InnerBacks : /\ q.states = Append(p.states, back)
                                 /\ Height(back) = Height(p.state) /\ Before(back) = Top(p.state)
  BY DEF Called
<1>3. back \in Backs /\ p.state \notin Nodal
  BY <1>1, StateKinds DEF Backs
<1>4. p.states \in Seq(Backs) /\ Len(p.states) \in Nat
  BY <1>1, InsideStates
<1>5. /\ Len(q.states) = Len(p.states) + 1 /\ q.states[Len(p.states) + 1] = back
      /\ \A i \in 1..Len(p.states) : q.states[i] = p.states[i]
  BY <1>2, <1>3, <1>4, AppendProperties
<1>6. Lower(p) = Len(p.states) /\ Innermost(p) = p.state /\ Awaited(p) = Top(p.state)
  BY <1>3, PlaceFacts
<1>7. /\ Lower(q) = Len(q.states) - 1 /\ Innermost(q) = q.states[Len(q.states)]
      /\ Awaited(q) = Before(q.states[Len(q.states)])
  BY <1>1, PlaceFacts
<1>8. Lower(q) = Lower(p) /\ Innermost(q) = back /\ Awaited(q) = Before(back)
  BY <1>4, <1>5, <1>6, <1>7
<1>9. /\ Lower(p) = n /\ Typed(b) /\ Len(b.stack) = k + Height(Innermost(p))
      /\ Stands(b.stack, k, Height(Innermost(p)), Awaited(p))
  BY DEF Found
<1>10. /\ Lower(q) = n /\ Len(b.stack) = k + Height(Innermost(q))
       /\ Stands(b.stack, k, Height(Innermost(q)), Awaited(q))
  BY <1>2, <1>6, <1>8, <1>9
<1>11. \A i \in 1..n : q.states[i] = p.states[i]
  BY <1>5, <1>6, <1>9
<1> QED BY <1>9, <1>10, <1>11, SameDepth

\* The stack with a node in its place.
LEMMA FoundReplaced ==
  ASSUME NEW p, NEW b, NEW n, NEW k, NEW f, Found(p, b, n, k, f),
         NEW h \in {1, 2}, h = Height(Innermost(p)), Awaited(p) \in Enclosing,
         NEW s, s = Replaced(b.stack)
  PROVE  /\ s \in Seq(Waits) /\ Len(s) = k + h /\ k \in Nat \ {0}
         /\ \A j \in 1..k : s[j] = b.stack[j]
         /\ Stands(s, k, h, Enclosed[Awaited(p)])
<1>1. /\ b.stack \in Seq(Waits) /\ b.stack # <<>> /\ k \in Nat \ {0}
      /\ Len(b.stack) = k + h /\ Stands(b.stack, k, h, Awaited(p))
  BY DEF Found, Typed
<1>2. Last(b.stack) = Awaited(p)
  <2>1. Waiting(b) = Awaited(p)
    BY FoundWaits
  <2> QED BY <2>1 DEF Waiting
<1>3. /\ s \in Seq(Waits) /\ Len(s) = k + h
      /\ s[k + h] = Enclosed[Awaited(p)]
      /\ \A j \in 1..(k + h) - 1 : s[j] = b.stack[j]
  BY <1>1, <1>2, ReplacedFacts
<1>4. \A j \in 1..k : s[j] = b.stack[j]
  BY <1>1, <1>3
<1>5. CASE h = 1
  BY <1>1, <1>3, <1>4, <1>5 DEF Stands
<1>6. CASE h = 2
  <2>1. s[k + 1] = b.stack[k + 1]
    BY <1>1, <1>3, <1>6
  <2>2. b.stack[k + 1] = "sequence"
    BY <1>1, <1>6 DEF Stands
  <2> QED BY <1>1, <1>3, <1>4, <1>6, <2>1, <2>2 DEF Stands
<1> QED BY <1>5, <1>6
\* A node that was left out, in the eyes of the builder.
LEMMA FilledMatched ==
  ASSUME NEW p, NEW b, NEW n, NEW k, NEW f, Found(p, b, n, k, f),
         NEW q, NEW e, Filled(p, q, e), NEW c, c = Build(b, e)
  PROVE  c.outcome = "unknown anchor" \/ Matched(q, c)
<1>1. /\ q.states = p.states /\ p.state \in Inner /\ q.state \in Inner
      /\ Height(q.state) = Height(p.state) /\ Top(q.state) = Enclosed[Top(p.state)]
      /\ e.type \in Answers
  BY DEF Filled, Kept, Answers
<1>2. p.state \notin Nodal /\ q.state \notin Nodal /\ Top(p.state) \in Enclosing
  BY <1>1, StateKinds
<1>3. PICK h \in {1, 2} : h = Height(p.state)
  BY <1>1, StateKinds
<1>4. /\ Lower(q) = Lower(p) /\ Innermost(p) = p.state /\ Awaited(p) = Top(p.state)
      /\ Innermost(q) = q.state /\ Awaited(q) = Enclosed[Top(p.state)]
  BY <1>1, <1>2, PlaceFacts
<1>5. Waiting(b) \in Enclosing /\ Typed(b) /\ Lower(p) = n
  <2>1. Waiting(b) = Awaited(p)
    BY <1>3, <1>4, FoundWaits
  <2> QED BY <1>2, <1>4, <2>1 DEF Found
<1>6. CASE c.outcome # "unknown anchor"
  <2>1. DOMAIN c = BuilderFields /\ c.outcome = "reading" /\ c.stack = Replaced(b.stack)
    BY <1>1, <1>5, <1>6, BuildAnswer
  <2>2. /\ c.stack \in Seq(Waits) /\ Len(c.stack) = k + h
        /\ \A j \in 1..k : c.stack[j] = b.stack[j]
        /\ Stands(c.stack, k, h, Enclosed[Awaited(p)])
    BY <1>2, <1>3, <1>4, <2>1, FoundReplaced
  <2>3. Typed(c)
    BY <2>1, <2>2 DEF Typed
  <2>4. /\ Lower(q) = n /\ \A i \in 1..n : q.states[i] = p.states[i]
    BY <1>1, <1>4, <1>5
  <2>5. /\ Len(c.stack) = k + Height(Innermost(q))
        /\ Stands(c.stack, k, Height(Innermost(q)), Awaited(q))
    BY <1>1, <1>3, <1>4, <2>2
  <2>6. Matched(q, c)
    BY <2>2, <2>3, <2>4, <2>5, SameDepth
  <2> QED BY <2>6
<1> QED BY <1>6

\* The state a node returns to.
LEMMA ReturnFacts ==
  ASSUME NEW p, WellFormed(p), p.state \in Inner \cup Nodal, NEW q, Returned(p, q)
  PROVE  /\ q.state = p.states[Len(p.states)] /\ q.state \in Backs
         /\ Len(p.states) \in Nat \ {0} /\ Len(q.states) = Len(p.states) - 1
         /\ \A i \in 1..Len(p.states) - 1 : q.states[i] = p.states[i]
         /\ Lower(q) = Len(p.states) - 1 /\ Innermost(q) = q.state /\ Awaited(q) = Top(q.state)
<1>1. p.states \in Seq(Backs) /\ p.states # <<>>
  BY InsideStates
<1>2. q.state = Last(p.states) /\ q.states = Front(p.states)
  BY DEF Returned
<1>3. /\ q.state = p.states[Len(p.states)] /\ q.state \in Backs
      /\ Len(p.states) \in Nat \ {0} /\ Len(q.states) = Len(p.states) - 1
      /\ \A i \in 1..Len(p.states) - 1 : q.states[i] = p.states[i]
  BY <1>1, <1>2, FrontLast
<1>4. q.state \notin Nodal
  BY <1>3, StateKinds
<1> QED BY <1>3, <1>4, PlaceFacts

\* A scalar or an alias.
LEMMA AnsweredMatched ==
  ASSUME NEW p, WellFormed(p), NEW b, NEW n, NEW k, NEW f, Found(p, b, n, k, f),
         NEW q, NEW e, Answered(p, q, e), NEW c, c = Build(b, e)
  PROVE  c.outcome = "unknown anchor" \/ Matched(q, c)
<1>1. p.state \in Nodal /\ Returned(p, q) /\ e.type \in Answers
  BY DEF Answered, Answers
<1>2. PICK back : back = p.states[Len(p.states)]
  OBVIOUS
<1>3. /\ q.state = back /\ back \in Backs
      /\ Len(p.states) \in Nat \ {0}
      /\ \A i \in 1..Len(p.states) - 1 : q.states[i] = p.states[i]
      /\ Lower(q) = Len(p.states) - 1 /\ Innermost(q) = back /\ Awaited(q) = Top(back)
  BY <1>1, <1>2, ReturnFacts
<1>4. Lower(p) = Len(p.states) - 1 /\ Innermost(p) = back /\ Awaited(p) = Before(back)
  BY <1>1, <1>2, PlaceFacts
<1>5. Before(back) \in Enclosing /\ Enclosed[Before(back)] = Top(back)
  BY <1>3, StateKinds
<1>6. PICK h \in {1, 2} : h = Height(back)
  BY <1>3, StateKinds
<1>7. Waiting(b) \in Enclosing /\ Typed(b) /\ Lower(p) = n
  <2>1. Waiting(b) = Awaited(p)
    BY <1>4, <1>6, FoundWaits
  <2> QED BY <1>4, <1>5, <2>1 DEF Found
<1>8. CASE c.outcome # "unknown anchor"
  <2>1. DOMAIN c = BuilderFields /\ c.outcome = "reading" /\ c.stack = Replaced(b.stack)
    BY <1>1, <1>7, <1>8, BuildAnswer
  <2>2. /\ c.stack \in Seq(Waits) /\ Len(c.stack) = k + h
        /\ \A j \in 1..k : c.stack[j] = b.stack[j]
        /\ Stands(c.stack, k, h, Enclosed[Awaited(p)])
    BY <1>4, <1>5, <1>6, <2>1, FoundReplaced
  <2>3. Typed(c)
    BY <2>1, <2>2 DEF Typed
  <2>4. /\ Lower(q) = n /\ \A i \in 1..n : q.states[i] = p.states[i]
    BY <1>3, <1>4, <1>7
  <2>5. /\ Len(c.stack) = k + Height(Innermost(q))
        /\ Stands(c.stack, k, Height(Innermost(q)), Awaited(q))
    BY <1>3, <1>4, <1>5, <1>6, <2>2
  <2>6. Matched(q, c)
    BY <2>2, <2>3, <2>4, <2>5, SameDepth
  <2> QED BY <2>6
<1> QED BY <1>8

\* The start of a collection.
LEMMA OpeningMatched ==
  ASSUME NEW p, WellFormed(p), NEW b, NEW n, NEW k, NEW f, Found(p, b, n, k, f),
         NEW q, NEW e, Opening(p, q, e), NEW c, c = Build(b, e)
  PROVE  Matched(q, c)
<1>1. /\ p.state \in Nodal /\ q.states = p.states /\ q.state \in Inner
      /\ Height(q.state) = 1
  BY DEF Opening, Nodal
<1>2. PICK inside : /\ Top(q.state) = inside
                    /\ \/ e.type = "sequence-start" /\ inside = "sequence"
                       \/ e.type = "mapping-start" /\ inside = "key"
  BY DEF Opening
<1>3. PICK back : back = p.states[Len(p.states)]
  OBVIOUS
<1>4. back \in Backs /\ Len(p.states) \in Nat \ {0}
  BY <1>1, <1>3, InsideStates
<1>5. Lower(p) = Len(p.states) - 1 /\ Innermost(p) = back /\ Awaited(p) = Before(back)
  BY <1>1, <1>3, PlaceFacts
<1>6. q.state \notin Nodal
  BY <1>1, StateKinds
<1>7. Lower(q) = Len(p.states) /\ Innermost(q) = q.state /\ Awaited(q) = inside
  BY <1>1, <1>2, <1>6, PlaceFacts
<1>8. Before(back) \in Enclosing /\ Enclosed[Before(back)] = Top(back)
  BY <1>4, StateKinds
<1>9. PICK h \in {1, 2} : h = Height(back)
  BY <1>4, StateKinds
<1>10. Waiting(b) \in Enclosing /\ Typed(b) /\ Lower(p) = n
  <2>1. Waiting(b) = Awaited(p)
    BY <1>5, <1>9, FoundWaits
  <2> QED BY <1>5, <1>8, <2>1 DEF Found
<1>11. PICK s : s = Replaced(b.stack)
  OBVIOUS
<1>12. /\ s \in Seq(Waits) /\ Len(s) = k + h /\ k \in Nat \ {0}
       /\ \A j \in 1..k : s[j] = b.stack[j]
       /\ Stands(s, k, h, Top(back))
  BY <1>5, <1>8, <1>9, <1>11, FoundReplaced
<1>13. /\ DOMAIN c = BuilderFields /\ c.outcome = "reading" /\ c.stack = Append(s, inside)
  BY <1>2, <1>10, <1>11, BuildStart
<1>14. inside \in Waits
  BY <1>2 DEF Waits
<1>15. /\ c.stack \in Seq(Waits) /\ Len(c.stack) = (k + h) + 1 /\ c.stack[(k + h) + 1] = inside
       /\ \A j \in 1..k + h : c.stack[j] = s[j]
  BY <1>12, <1>13, <1>14, AppendProperties
<1>16. /\ \A j \in 1..k : c.stack[j] = b.stack[j]
       /\ \A j \in k + 1..k + h : c.stack[j] = s[j]
  BY <1>12, <1>15
<1>17. Stands(c.stack, k, h, Top(back))
  <2>1. k \in Nat /\ h \in 0..2
    BY <1>12
  <2> QED BY <1>12, <1>16, <2>1, StandsAlike
<1>18. Stands(c.stack, k + h, Height(Innermost(q)), Awaited(q))
  BY <1>1, <1>7, <1>15 DEF Stands
<1>19. Lower(q) = n + 1 /\ q.states[n + 1] = back /\ n \in Nat
  BY <1>1, <1>3, <1>4, <1>5, <1>7, <1>10
<1>20. Typed(c)
  BY <1>13, <1>15 DEF Typed
<1>21. Len(c.stack) = (k + h) + Height(Innermost(q))
  BY <1>1, <1>7, <1>15
<1> QED BY <1>1, <1>9, <1>16, <1>17, <1>18, <1>19, <1>20, <1>21, Deeper

\* The end of a collection.
LEMMA ClosingMatched ==
  ASSUME NEW p, WellFormed(p), NEW b, NEW n, NEW k, NEW f, Found(p, b, n, k, f),
         NEW q, NEW e, Closing(p, q, e), NEW c, c = Build(b, e)
  PROVE  Matched(q, c)
<1>1. p.state \in Inner /\ Returned(p, q) /\ Height(p.state) = 1
  BY DEF Closing
<1>2. p.state \notin Nodal
  BY <1>1, StateKinds
<1>3. Lower(p) = Len(p.states) /\ Innermost(p) = p.state /\ Awaited(p) = Top(p.state)
  BY <1>2, PlaceFacts
<1>4. Waiting(b) = Top(p.state)
  BY <1>1, <1>3, FoundWaits
<1>5. /\ Typed(b) /\ b.stack \in Seq(Waits) /\ b.stack # <<>> /\ Len(b.stack) = k + 1
      /\ k \in Nat \ {0} /\ n \in Nat /\ Lower(p) = n
  BY <1>1, <1>3 DEF Found, Typed
<1>6. DOMAIN c = BuilderFields /\ c.outcome = "reading" /\ c.stack = Front(b.stack)
  BY <1>4, <1>5, BuildEnd DEF Closing
<1>7. /\ c.stack \in Seq(Waits) /\ Len(c.stack) = k /\ \A j \in 1..k : c.stack[j] = b.stack[j]
  BY <1>5, <1>6, FrontLast
<1>8. Typed(c)
  BY <1>6, <1>7 DEF Typed
<1>9. /\ q.state = p.states[Len(p.states)] /\ Len(p.states) \in Nat \ {0}
      /\ \A i \in 1..Len(p.states) - 1 : q.states[i] = p.states[i]
      /\ Lower(q) = Len(p.states) - 1 /\ Innermost(q) = q.state /\ Awaited(q) = Top(q.state)
  BY <1>1, ReturnFacts
<1>10. Len(p.states) = n
  BY <1>3, <1>5
<1>11. /\ Lower(q) = n - 1 /\ \A i \in 1..n - 1 : q.states[i] = p.states[i]
       /\ Innermost(q) = p.states[n] /\ Awaited(q) = Top(p.states[n])
  BY <1>9, <1>10, Zenon
<1>12. Lower(q) \in Nat /\ n = Lower(q) + 1
  BY <1>9, <1>10, <1>11
<1> QED BY <1>7, <1>8, <1>11, <1>12, Shallower

\* A pair begins in a flow sequence.
LEMMA PairOpenedMatched ==
  ASSUME NEW p, NEW b, NEW n, NEW k, NEW f, Found(p, b, n, k, f),
         NEW q, NEW e, PairOpened(p, q, e), NEW c, c = Build(b, e)
  PROVE  Matched(q, c)
<1>1. /\ p.state = "flow sequence item" /\ q.state = "flow pair key" /\ q.states = p.states
      /\ e.type = "mapping-start"
  BY DEF PairOpened
<1>2. /\ p.state \in Inner /\ q.state \in Inner /\ Top(p.state) = "sequence"
      /\ Height(p.state) = 1 /\ Top(q.state) = "key" /\ Height(q.state) = 2
  BY <1>1, StateFacts
<1>3. p.state \notin Nodal /\ q.state \notin Nodal
  BY <1>2, StateKinds
<1>4. /\ Lower(q) = Lower(p) /\ Innermost(p) = p.state /\ Awaited(p) = "sequence"
      /\ Innermost(q) = q.state /\ Awaited(q) = "key"
  BY <1>1, <1>2, <1>3, PlaceFacts
<1>5. "sequence" \in Enclosing /\ "key" \in Waits
  BY DEF Enclosing, Waits
<1>6. Waiting(b) = "sequence" /\ Typed(b) /\ Lower(p) = n
  BY <1>2, <1>4, FoundWaits DEF Found
<1>7. PICK s, h : s = Replaced(b.stack) /\ h = 1
  OBVIOUS
<1>8. /\ s \in Seq(Waits) /\ Len(s) = k + h /\ k \in Nat \ {0}
      /\ \A j \in 1..k : s[j] = b.stack[j]
      /\ Stands(s, k, h, Enclosed["sequence"])
  <2>1. h \in {1, 2} /\ h = Height(Innermost(p))
    BY <1>2, <1>4, <1>7
  <2> QED BY <1>4, <1>5, <1>7, <2>1, FoundReplaced
<1>9. s[k + 1] = "sequence" /\ Len(s) = k + 1
  <2>1. s[k + 1] = Enclosed["sequence"] /\ Len(s) = k + 1
    BY <1>7, <1>8 DEF Stands
  <2>2. Enclosed["sequence"] = "sequence"
    BY StateFacts
  <2> QED BY <2>1, <2>2
<1>10. PICK inside : /\ inside = "key"
                     /\ \/ e.type = "sequence-start" /\ inside = "sequence"
                        \/ e.type = "mapping-start" /\ inside = "key"
  BY <1>1
<1>11. DOMAIN c = BuilderFields /\ c.outcome = "reading" /\ c.stack = Append(s, inside)
  <2>1. Waiting(b) \in Enclosing /\ Typed(b)
    BY <1>5, <1>6, Zenon
  <2> QED BY <1>7, <1>10, <2>1, BuildStart
<1>12. /\ c.stack \in Seq(Waits) /\ Len(c.stack) = (k + 1) + 1 /\ c.stack[(k + 1) + 1] = inside
       /\ \A j \in 1..k + 1 : c.stack[j] = s[j]
  BY <1>5, <1>8, <1>9, <1>10, <1>11, AppendProperties
<1>13. \A j \in 1..k : c.stack[j] = b.stack[j]
  <2>1. \A j \in 1..k : j \in 1..k + 1
    BY <1>8
  <2> QED BY <1>8, <1>12, <2>1, Zenon
<1>14. c.stack[k + 1] = "sequence" /\ c.stack[k + 2] = "key" /\ Len(c.stack) = k + 2
  <2>1. (k + 1) + 1 = k + 2 /\ k + 1 \in 1..k + 1
    BY <1>8
  <2> QED BY <1>9, <1>10, <1>12, <2>1
<1>15. Stands(c.stack, k, 2, "key")
  BY <1>14 DEF Stands
<1>16. Typed(c)
  BY <1>11, <1>12 DEF Typed
<1>17. /\ Lower(q) = n /\ \A i \in 1..n : q.states[i] = p.states[i]
       /\ Len(c.stack) = k + Height(Innermost(q))
       /\ Stands(c.stack, k, Height(Innermost(q)), Awaited(q))
  BY <1>1, <1>2, <1>4, <1>6, <1>14, <1>15
<1> QED BY <1>13, <1>16, <1>17, SameDepth

\* A pair ends in a flow sequence.
LEMMA PairClosedMatched ==
  ASSUME NEW p, NEW b, NEW n, NEW k, NEW f, Found(p, b, n, k, f),
         NEW q, NEW e, PairClosed(p, q, e), NEW c, c = Build(b, e)
  PROVE  Matched(q, c)
<1>1. /\ p.state = "flow pair end" /\ q.state = "flow sequence" /\ q.states = p.states
      /\ e.type = "mapping-end"
  BY DEF PairClosed
<1>2. /\ p.state \in Inner /\ q.state \in Inner /\ Top(p.state) = "key"
      /\ Height(p.state) = 2 /\ Top(q.state) = "sequence" /\ Height(q.state) = 1
  BY <1>1, StateFacts
<1>3. p.state \notin Nodal /\ q.state \notin Nodal
  BY <1>2, StateKinds
<1>4. /\ Lower(q) = Lower(p) /\ Innermost(p) = p.state /\ Awaited(p) = "key"
      /\ Innermost(q) = q.state /\ Awaited(q) = "sequence"
  BY <1>1, <1>2, <1>3, PlaceFacts
<1>5. Waiting(b) = "key" /\ Typed(b) /\ Lower(p) = n
  BY <1>2, <1>4, FoundWaits DEF Found
<1>6. /\ b.stack \in Seq(Waits) /\ b.stack # <<>> /\ Len(b.stack) = k + 2
      /\ k \in Nat \ {0} /\ Stands(b.stack, k, 2, "key")
  BY <1>2, <1>4 DEF Found, Typed
<1>7. b.stack[k + 1] = "sequence"
  BY <1>6 DEF Stands
<1>8. DOMAIN c = BuilderFields /\ c.outcome = "reading" /\ c.stack = Front(b.stack)
  BY <1>1, <1>5, BuildEnd
<1>9. /\ c.stack \in Seq(Waits) /\ Len(c.stack) = k + 1
      /\ \A j \in 1..k + 1 : c.stack[j] = b.stack[j]
  BY <1>6, <1>8, FrontLast
<1>10. Typed(c)
  BY <1>8, <1>9 DEF Typed
<1>11. (\A j \in 1..k : c.stack[j] = b.stack[j]) /\ c.stack[k + 1] = "sequence"
  BY <1>6, <1>7, <1>9
<1>12. Stands(c.stack, k, 1, "sequence")
  BY <1>11 DEF Stands
<1>13. /\ Lower(q) = n /\ \A i \in 1..n : q.states[i] = p.states[i]
       /\ Len(c.stack) = k + Height(Innermost(q))
       /\ Stands(c.stack, k, Height(Innermost(q)), Awaited(q))
  BY <1>1, <1>2, <1>4, <1>5, <1>9, <1>12
<1> QED BY <1>10, <1>11, <1>13, SameDepth

\* Outside of every document the builder is in the stream alone, or at the end of one.
AtStream(b) == Waiting(b) = "stream" /\ Typed(b)
Alone(p, b, n, k) ==
  /\ n = 0 /\ p.states = <<>> /\ Lower(p) = 0
  /\ Innermost(p) = p.state /\ Awaited(p) = "document done"
  /\ Typed(b) /\ Len(b.stack) = k + Height(p.state)
  /\ Height(p.state) = 0 => AtStream(b) /\ k = 1
LEMMA OuterPlace ==
  ASSUME NEW p, WellFormed(p), p.state \in Outer, NEW b, NEW n, NEW k, NEW f,
         Found(p, b, n, k, f)
  PROVE  Alone(p, b, n, k)
<1>1. p.state # "error" /\ p.state \notin Nodal /\ Top(p.state) = "document done"
  BY OuterFacts DEF Outer
<1>2. p.states = <<>>
  BY <1>1 DEF WellFormed
<1>3. Lower(p) = 0 /\ Innermost(p) = p.state /\ Awaited(p) = "document done"
  <2>1. Len(p.states) = 0
    BY <1>2, EmptySeq
  <2> QED BY <1>1, <2>1, PlaceFacts
<1>4. n = 0 /\ Typed(b) /\ Len(b.stack) = k + Height(p.state)
  BY <1>3 DEF Found
<1>5. Height(p.state) = 0 => AtStream(b) /\ k = 1
  BY <1>3, <1>4, FoundWaits DEF AtStream
<1> QED BY <1>2, <1>3, <1>4, <1>5 DEF Alone

\* The stream begins.
LEMMA StreamStartedMatched ==
  ASSUME NEW p, WellFormed(p), NEW b, NEW n, NEW k, NEW f, Found(p, b, n, k, f),
         NEW q, NEW e, StreamStarted(p, q, e), NEW c, c = Build(b, e)
  PROVE  Matched(q, c)
<1>1. /\ p.state = "stream start" /\ q.state = "implicit document start" /\ q.states = p.states
      /\ e.type = "stream-start"
  BY DEF StreamStarted
<1>2. p.state \in Outer /\ Height(p.state) = 0 /\ q.state \in Outer /\ Height(q.state) = 0
  BY <1>1, OuterFacts
<1>3. q.state \notin Nodal
  BY <1>2, OuterFacts
<1>4. /\ n = 0 /\ p.states = <<>> /\ Waiting(b) = "stream" /\ k = 1 /\ Typed(b)
      /\ Len(b.stack) = k + Height(p.state)
  <2>1. Alone(p, b, n, k)
    BY <1>2, OuterPlace
  <2> QED BY <1>2, <2>1 DEF Alone, AtStream
<1>5. c = b
  BY <1>1, <1>4, BuildStream
<1>6. Lower(q) = n /\ Innermost(q) = q.state
  <2>1. Len(q.states) = 0
    BY <1>1, <1>4, EmptySeq
  <2> QED BY <1>3, <1>4, <2>1, PlaceFacts
<1>7. /\ Len(c.stack) = k + Height(Innermost(q))
      /\ Stands(c.stack, k, Height(Innermost(q)), Awaited(q))
  <2>1. Height(Innermost(q)) = 0 /\ Height(p.state) = 0
    BY <1>2, <1>6
  <2>2. Stands(c.stack, k, Height(Innermost(q)), Awaited(q))
    BY <2>1 DEF Stands
  <2> QED BY <1>4, <1>5, <2>1, <2>2
<1>8. /\ \A i \in 1..n : q.states[i] = p.states[i]
      /\ \A j \in 1..k : c.stack[j] = b.stack[j]
  BY <1>1, <1>5
<1> QED BY <1>4, <1>5, <1>6, <1>7, <1>8, SameDepth

\* The stream ends.
LEMMA StreamEndedRead ==
  ASSUME NEW p, WellFormed(p), NEW b, NEW n, NEW k, NEW f, Found(p, b, n, k, f),
         NEW q, NEW e, StreamEnded(p, q, e), NEW c, c = Build(b, e)
  PROVE  c.outcome = "read"
<1>1. p.state \in {"implicit document start", "document start"} /\ e.type = "stream-end"
  BY DEF StreamEnded
<1>2. p.state \in Outer /\ Height(p.state) = 0
  BY <1>1, OuterFacts
<1>3. Waiting(b) = "stream" /\ Typed(b)
  <2>1. Alone(p, b, n, k)
    BY <1>2, OuterPlace
  <2> QED BY <1>2, <2>1 DEF Alone, AtStream
<1>4. c = Over(b, "read")
  BY <1>1, <1>3 DEF Build
<1> QED BY <1>3, <1>4 DEF Over, Typed, BuilderFields

\* A document begins.
LEMMA DocumentStartedMatched ==
  ASSUME NEW p, WellFormed(p), NEW b, NEW n, NEW k, NEW f, Found(p, b, n, k, f),
         NEW q, NEW e, DocumentStarted(p, q, e), NEW c, c = Build(b, e)
  PROVE  Matched(q, c)
<1>1. PICK back : back = "document end"
  OBVIOUS
<1>2. /\ p.state \in {"implicit document start", "directives"} /\ q.state \in Nodal
      /\ q.states = Append(p.states, back) /\ e.type = "document-start"
  BY <1>1 DEF DocumentStarted
<1>3. p.state \in Outer /\ Height(p.state) = 0
  BY <1>2, OuterFacts
<1>4. /\ n = 0 /\ p.states = <<>> /\ Waiting(b) = "stream" /\ k = 1 /\ Typed(b)
      /\ Len(b.stack) = k + Height(p.state)
  <2>1. Alone(p, b, n, k)
    BY <1>3, OuterPlace
  <2> QED BY <1>3, <2>1 DEF Alone, AtStream
<1>5. back \in Backs /\ Height(back) = 1 /\ Before(back) = "document"
  BY <1>1, OuterFacts DEF Backs, Before
<1>6. Len(q.states) = 1 /\ q.states[1] = back
  BY <1>2, <1>4, <1>5, OnEmpty
<1>7. Lower(q) = n /\ Innermost(q) = back /\ Awaited(q) = "document"
  <2>1. /\ Lower(q) = Len(q.states) - 1 /\ Innermost(q) = q.states[Len(q.states)]
        /\ Awaited(q) = Before(q.states[Len(q.states)])
    BY <1>2, PlaceFacts
  <2> QED BY <1>4, <1>5, <1>6, <2>1
<1>8. PICK inside : inside = "document"
  OBVIOUS
<1>9. DOMAIN c = BuilderFields /\ c.outcome = "reading" /\ c.stack = Append(b.stack, inside)
  <2>1. e.type = "document-start" /\ Waiting(b) = "stream" /\ Typed(b)
    BY <1>2, <1>4
  <2> QED BY <1>8, <2>1, BuildStream
<1>10. b.stack \in Seq(Waits) /\ Len(b.stack) = 1 /\ inside \in Waits
  <2>1. inside \in Waits
    BY <1>8 DEF Waits
  <2> QED BY <1>3, <1>4, <2>1 DEF Typed
<1>11. /\ c.stack \in Seq(Waits) /\ Len(c.stack) = 2 /\ c.stack[2] = inside
       /\ c.stack[1] = b.stack[1]
  BY <1>9, <1>10, AppendProperties
<1>12. /\ Len(c.stack) = k + Height(Innermost(q))
       /\ Stands(c.stack, k, Height(Innermost(q)), Awaited(q))
  BY <1>4, <1>5, <1>7, <1>8, <1>11 DEF Stands
<1>13. /\ \A i \in 1..n : q.states[i] = p.states[i]
       /\ \A j \in 1..k : c.stack[j] = b.stack[j]
  BY <1>4, <1>11
<1>14. Typed(c)
  BY <1>9, <1>11 DEF Typed
<1> QED BY <1>7, <1>12, <1>13, <1>14, SameDepth

\* A document ends.
LEMMA DocumentEndedMatched ==
  ASSUME NEW p, WellFormed(p), NEW b, NEW n, NEW k, NEW f, Found(p, b, n, k, f),
         NEW q, NEW e, DocumentEnded(p, q, e), NEW c, c = Build(b, e)
  PROVE  Matched(q, c)
<1>1. /\ p.state = "document end" /\ q.state = "document start" /\ q.states = p.states
      /\ e.type = "document-end"
  BY DEF DocumentEnded
<1>2. p.state \in Outer /\ Height(p.state) = 1 /\ q.state \in Outer /\ Height(q.state) = 0
  BY <1>1, OuterFacts
<1>3. q.state \notin Nodal
  BY <1>2, OuterFacts
<1>4. /\ n = 0 /\ p.states = <<>> /\ Typed(b) /\ Len(b.stack) = k + 1
      /\ Innermost(p) = p.state /\ Awaited(p) = "document done"
  <2>1. Alone(p, b, n, k)
    BY <1>2, OuterPlace
  <2> QED BY <1>2, <2>1 DEF Alone
<1>5. Waiting(b) = "document done"
  BY <1>2, <1>4, FoundWaits
<1>6. DOMAIN c = BuilderFields /\ c.outcome = "reading" /\ c.stack = Front(b.stack)
  BY <1>1, <1>4, <1>5, BuildEnd
<1>7. b.stack \in Seq(Waits) /\ b.stack # <<>> /\ k \in Nat \ {0}
  BY DEF Found, Typed
<1>8. /\ c.stack \in Seq(Waits) /\ Len(c.stack) = k /\ \A j \in 1..k : c.stack[j] = b.stack[j]
  <2>1. b.stack \in Seq(Waits) /\ b.stack # <<>> /\ Len(b.stack) = k + 1 /\ k \in Nat
    BY <1>4, <1>7
  <2>2. (k + 1) - 1 = k
    BY <2>1
  <2> QED BY <1>6, <2>1, <2>2, FrontLast
<1>9. Typed(c)
  BY <1>6, <1>8 DEF Typed
<1>10. Lower(q) = n /\ Innermost(q) = q.state
  <2>1. Len(q.states) = 0
    BY <1>1, <1>4, EmptySeq
  <2> QED BY <1>3, <1>4, <2>1, PlaceFacts
<1>11. /\ Len(c.stack) = k + Height(Innermost(q))
       /\ Stands(c.stack, k, Height(Innermost(q)), Awaited(q))
  BY <1>2, <1>7, <1>8, <1>10 DEF Stands
<1>12. \A i \in 1..n : q.states[i] = p.states[i]
  BY <1>1
<1> QED BY <1>8, <1>9, <1>10, <1>11, <1>12, SameDepth

\* After every move the builder waits for what the state stands for, unless it is done.
LEMMA MoveMatched ==
  ASSUME NEW p, WellFormed(p), p.state # "error", NEW b, Matched(p, b),
         NEW q, NEW e, Move(p, q, e), NEW c, c = IF e = NoEvent THEN b ELSE Build(b, e)
  PROVE  \/ c.outcome \in {"read", "unknown anchor"}
         \/ c.outcome = "reading" /\ q.state = "error"
         \/ Matched(q, c)
<1>1. PICK n, k, f : Found(p, b, n, k, f)
  BY MatchedFound
<1>2. b.outcome = "reading"
  BY DEF Matched
<1>3. e = NoEvent => c = b
  OBVIOUS
<1>4. e.type # "none" => c = Build(b, e)
  BY NoEventType
<1>5. CASE Fails(q, e)
  BY <1>2, <1>3, <1>5 DEF Fails
<1>6. CASE Moved(p, q, e)
  <2>1. c = b
    BY <1>3, <1>6 DEF Moved
  <2> QED BY <1>1, <1>6, <2>1, MovedMatched
<1>7. CASE Continued(p, q, e)
  <2>1. c = b
    BY <1>3, <1>7 DEF Continued
  <2> QED BY <1>1, <1>7, <2>1, ContinuedMatched
<1>8. CASE Called(p, q, e)
  <2>1. c = b
    BY <1>3, <1>8 DEF Called
  <2> QED BY <1>1, <1>8, <2>1, CalledMatched
<1>9. CASE Filled(p, q, e)
  <2>1. c = Build(b, e)
    BY <1>4, <1>9 DEF Filled
  <2> QED BY <1>1, <1>9, <2>1, FilledMatched
<1>10. CASE Answered(p, q, e)
  <2>1. c = Build(b, e)
    <3>1. e.type # "none"
      BY <1>10 DEF Answered, Answers
    <3> QED BY <1>4, <3>1, Zenon
  <2> QED BY <1>1, <1>10, <2>1, AnsweredMatched
<1>11. CASE Opening(p, q, e)
  <2>1. c = Build(b, e)
    BY <1>4, <1>11 DEF Opening
  <2> QED BY <1>1, <1>11, <2>1, OpeningMatched
<1>12. CASE Closing(p, q, e)
  <2>1. c = Build(b, e)
    BY <1>4, <1>12 DEF Closing
  <2> QED BY <1>1, <1>12, <2>1, ClosingMatched
<1>13. CASE PairOpened(p, q, e)
  <2>1. c = Build(b, e)
    BY <1>4, <1>13 DEF PairOpened
  <2> QED BY <1>1, <1>13, <2>1, PairOpenedMatched
<1>14. CASE PairClosed(p, q, e)
  <2>1. c = Build(b, e)
    BY <1>4, <1>14 DEF PairClosed
  <2> QED BY <1>1, <1>14, <2>1, PairClosedMatched
<1>15. CASE StreamStarted(p, q, e)
  <2>1. c = Build(b, e)
    BY <1>4, <1>15 DEF StreamStarted
  <2> QED BY <1>1, <1>15, <2>1, StreamStartedMatched
<1>16. CASE StreamEnded(p, q, e)
  <2>1. c = Build(b, e)
    BY <1>4, <1>16 DEF StreamEnded
  <2> QED BY <1>1, <1>16, <2>1, StreamEndedRead
<1>17. CASE DocumentStarted(p, q, e)
  <2>1. c = Build(b, e)
    BY <1>4, <1>17 DEF DocumentStarted
  <2> QED BY <1>1, <1>17, <2>1, DocumentStartedMatched
<1>18. CASE DocumentEnded(p, q, e)
  <2>1. c = Build(b, e)
    BY <1>4, <1>18 DEF DocumentEnded
  <2> QED BY <1>1, <1>18, <2>1, DocumentEndedMatched
<1> QED BY <1>5, <1>6, <1>7, <1>8, <1>9, <1>10, <1>11, <1>12, <1>13, <1>14, <1>15, <1>16, <1>17,
           <1>18 DEF Move

-----------------------------------------------------------------------------
(* Scanning a token leaves alone whether one is offered to the automaton.  *)

ScannerFields == {"mark", "tokens", "parsed", "available", "started", "ended", "indent",
                  "indents", "keys", "byTok", "allowed", "error"}
Keeps(s, available) == DOMAIN s = ScannerFields /\ s.available = available

\* Failing, inserting and adding a token, and what a fetcher does at its end.
LEMMA AddKeeps ==
  ASSUME NEW s, NEW a, Keeps(s, a)
  PROVE  /\ \A why : Keeps(Fail(s, why), a)
         /\ \A place, token : Keeps(Insert(s, place, token), a)
         /\ \A type, value : Keeps(Add(s, type, value), a)
         /\ \A b : Keeps(Allow(s, b), a)
         /\ \A x : Keeps(Past(s, x), a)
         /\ \A x : Keeps(Reached(s, x), a)
<1>1. \A place, token : Keeps(Insert(s, place, token), a)
  BY DEF Keeps, Insert, ScannerFields
<1>2. \A why : Keeps(Fail(s, why), a)
  BY DEF Keeps, Fail, ScannerFields
<1>3. \A b : Keeps(Allow(s, b), a)
  BY DEF Keeps, Allow, ScannerFields
<1>4. \A x : Keeps(Past(s, x), a)
  BY DEF Keeps, Past, ScannerFields
<1>5. \A x : Keeps(Reached(s, x), a)
  BY DEF Keeps, Reached, ScannerFields
<1>6. \A type, value : Keeps(Add(s, type, value), a)
  BY <1>1 DEF Add
<1> QED BY <1>1, <1>2, <1>3, <1>4, <1>5, <1>6

\* The simple keys.
LEMMA KeyKeeps ==
  ASSUME NEW s, NEW a, Keeps(s, a)
  PROVE  /\ \A level : Keeps(Expire(s, level), a)
         /\ \A level : Keeps(Drop(s, level), a)
         /\ Keeps(RemoveSimpleKey(s), a)
         /\ Keeps(SaveSimpleKey(s), a)
<1>1. \A level : Keeps(Drop(s, level), a)
  BY DEF Keeps, Drop, ScannerFields
<1>2. \A level : Keeps([s EXCEPT !.keys[level].possible = FALSE], a)
  BY DEF Keeps, ScannerFields
<1>3. \A level : Keeps(Expire(s, level), a)
  BY <1>2, AddKeeps DEF Expire
<1>4. Keeps(RemoveSimpleKey(s), a)
  BY <1>1, AddKeeps DEF RemoveSimpleKey
<1>5. Keeps(SaveSimpleKey(s), a)
  <2>1. \A r, key, token, level :
          Keeps(r, a) => Keeps([r EXCEPT !.keys[level] = key, !.byTok = With(@, token, level)], a)
    BY DEF Keeps, ScannerFields
  <2> QED BY <1>4, <2>1 DEF SaveSimpleKey
<1> QED BY <1>1, <1>3, <1>4, <1>5

\* The flow levels and the indentation.
LEMMA LevelKeeps ==
  ASSUME NEW s, NEW a, Keeps(s, a)
  PROVE  /\ Keeps(IncreaseFlowLevel(s), a)
         /\ Keeps(DecreaseFlowLevel(s), a)
         /\ \A col, number, type : Keeps(RollIndent(s, col, number, type), a)
         /\ \A col : Keeps(UnrollIndent(s, col), a)
         /\ Keeps(Reset(s), a)
         /\ \A x, type : Keeps(Opened(s, x, type), a)
<1>1. Keeps(IncreaseFlowLevel(s), a)
  <2>1. \A keys : Keeps([s EXCEPT !.keys = keys], a)
    BY DEF Keeps, ScannerFields
  <2>2. Keeps([s EXCEPT !.keys = Append(@, [NoKey EXCEPT !.token = NextToken(s), !.mark = s.mark])], a)
    BY DEF Keeps, ScannerFields
  <2> QED BY <2>2, AddKeeps DEF IncreaseFlowLevel
<1>2. Keeps(DecreaseFlowLevel(s), a)
  <2>1. Keeps([s EXCEPT !.keys = Front(@), !.byTok = Without(@, Last(s.keys).token)], a)
    BY DEF Keeps, ScannerFields
  <2> QED BY <2>1 DEF DecreaseFlowLevel
<1>3. \A col, number, type : Keeps(RollIndent(s, col, number, type), a)
  <2> TAKE col, number, type
  <2>1. Keeps([s EXCEPT !.indents = Append(@, s.indent), !.indent = col], a)
    BY DEF Keeps, ScannerFields
  <2>2. \A place, token :
          Keeps(Insert([s EXCEPT !.indents = Append(@, s.indent), !.indent = col], place, token), a)
    BY <2>1, AddKeeps
  <2> QED BY <2>2, AddKeeps DEF RollIndent
<1>4. \A col : Keeps(UnrollIndent(s, col), a)
  <2>1. \A indent, indents, ends :
          Keeps([s EXCEPT !.indent = indent, !.indents = indents, !.tokens = @ \o ends], a)
    BY DEF Keeps, ScannerFields
  <2> QED BY <2>1 DEF UnrollIndent
<1>5. Keeps(Reset(s), a)
  BY <1>4, AddKeeps, KeyKeeps DEF Reset
<1>6. \A x, type : Keeps(Opened(s, x, type), a)
  BY <1>3, AddKeeps DEF Opened
<1> QED BY <1>1, <1>2, <1>3, <1>4, <1>5, <1>6

\* The fetchers of the stream's ends, of directives and of document indicators.
LEMMA StreamKeeps ==
  ASSUME NEW s, NEW a, Keeps(s, a)
  PROVE  /\ Keeps(FetchStreamStart(s), a)
         /\ Keeps(FetchStreamEnd(s), a)
         /\ \A x : Keeps(FetchDirective(s, x), a)
         /\ \A x : Keeps(FetchDocumentIndicator(s, x), a)
<1>1. Keeps([s EXCEPT !.keys = <<NoKey>>, !.allowed = TRUE, !.started = TRUE], a)
  BY DEF Keeps, ScannerFields
<1>2. \A line : Keeps([s EXCEPT !.mark = Mark(line, 0)], a)
  BY DEF Keeps, ScannerFields
<1>3. Keeps(FetchStreamStart(s), a)
  BY <1>1, AddKeeps DEF FetchStreamStart
<1>4. Keeps(FetchStreamEnd(s), a)
  BY <1>2, AddKeeps, LevelKeeps DEF FetchStreamEnd
<1>5. \A x : Keeps(FetchDirective(s, x), a)
  BY AddKeeps, LevelKeeps DEF FetchDirective
<1>6. \A x : Keeps(FetchDocumentIndicator(s, x), a)
  BY AddKeeps, LevelKeeps DEF FetchDocumentIndicator
<1> QED BY <1>3, <1>4, <1>5, <1>6

\* The fetchers of what stands in a document.
LEMMA ContentKeeps ==
  ASSUME NEW s, NEW a, Keeps(s, a), NEW x
  PROVE  /\ Keeps(FetchFlowStart(s, x), a) /\ Keeps(FetchFlowEnd(s, x), a)
         /\ Keeps(FetchFlowEntry(s, x), a) /\ Keeps(FetchBlockEntry(s, x), a)
         /\ Keeps(FetchKey(s, x), a) /\ Keeps(FetchValue(s, x), a)
         /\ Keeps(FetchBlockScalar(s, x), a) /\ Keeps(FetchQuoted(s, x), a)
         /\ Keeps(FetchPlain(s, x), a) /\ Keeps(FetchProperty(s, x), a)
<1>1. Keeps(FetchFlowStart(s, x), a)
  BY AddKeeps, KeyKeeps, LevelKeeps DEF FetchFlowStart
<1>2. Keeps(FetchFlowEnd(s, x), a)
  BY AddKeeps, KeyKeeps, LevelKeeps DEF FetchFlowEnd
<1>3. Keeps(FetchFlowEntry(s, x), a)
  BY AddKeeps, KeyKeeps DEF FetchFlowEntry
<1>4. Keeps(FetchBlockEntry(s, x), a)
  BY AddKeeps, KeyKeeps, LevelKeeps DEF FetchBlockEntry
<1>5. Keeps(FetchKey(s, x), a)
  BY AddKeeps, KeyKeeps, LevelKeeps DEF FetchKey
<1>6. Keeps(FetchValue(s, x), a)
  BY AddKeeps, KeyKeeps, LevelKeeps DEF FetchValue
<1>7. Keeps(FetchBlockScalar(s, x), a)
  <2>1. \A r, mark : Keeps(r, a) => Keeps([r EXCEPT !.mark = mark], a)
    BY DEF Keeps, ScannerFields
  <2>2. PICK r : r = IF TabIndents(s, x) THEN Fail(s, "found a tab character") ELSE s
    OBVIOUS
  <2>3. Keeps(Allow(RemoveSimpleKey(r), TRUE), a)
    <3>1. Keeps(r, a)
      BY <2>2, AddKeeps
    <3> QED BY <3>1, AddKeeps, KeyKeeps
  <2> QED BY <2>1, <2>2, <2>3, AddKeeps DEF FetchBlockScalar
<1>8. Keeps(FetchQuoted(s, x), a) /\ Keeps(FetchPlain(s, x), a) /\ Keeps(FetchProperty(s, x), a)
  BY AddKeeps, KeyKeeps DEF FetchQuoted, FetchPlain, FetchProperty
<1> QED BY <1>1, <1>2, <1>3, <1>4, <1>5, <1>6, <1>7, <1>8

\* Every token.
LEMMA FetchKeeps ==
  ASSUME NEW s, NEW a, Keeps(s, a), NEW x
  PROVE  Keeps(FetchNextToken(s, x), a)
<1>1. PICK r : r = UnrollIndent(Reached(s, x), x.col)
  OBVIOUS
<1>2. Keeps(r, a)
  BY <1>1, AddKeeps, LevelKeeps
<1>3. Keeps([r EXCEPT !.ended = TRUE], a)
  BY <1>2 DEF Keeps, ScannerFields
<1>4. Keeps(FetchStreamStart(s), a) /\ Keeps(FetchStreamEnd([r EXCEPT !.ended = TRUE]), a)
  BY <1>3, StreamKeeps
<1>5. Keeps(FetchDirective(r, x), a) /\ Keeps(FetchDocumentIndicator(r, x), a)
  BY <1>2, StreamKeeps
<1>6. \/ FetchNextToken(s, x) = FetchStreamStart(s)
      \/ FetchNextToken(s, x) = FetchStreamEnd([r EXCEPT !.ended = TRUE])
      \/ FetchNextToken(s, x) = FetchDirective(r, x)
      \/ FetchNextToken(s, x) = FetchDocumentIndicator(r, x)
      \/ FetchNextToken(s, x) \in
           {FetchFlowStart(r, x), FetchFlowEnd(r, x), FetchFlowEntry(r, x), FetchBlockEntry(r, x),
            FetchKey(r, x), FetchValue(r, x), FetchBlockScalar(r, x), FetchQuoted(r, x),
            FetchPlain(r, x), FetchProperty(r, x)}
  BY <1>1 DEF FetchNextToken
<1> QED BY <1>2, <1>4, <1>5, <1>6, ContentKeeps

-----------------------------------------------------------------------------
(* The invariant holds in every state.                                     *)

\* At the first state of a collection the token that opened it is looked at again.
HeadInv == parser.state \in Firsts =>
             scanner.available /\ Head(scanner.tokens).type = FirstToken(parser.state)
ScannerShape == DOMAIN scanner = ScannerFields
ParserInv == WellFormed(parser) /\ BuilderInv /\ IdleInv /\ HeadInv /\ ScannerShape

\* It holds before the first token.
LEMMA InitParserInv == Init => ParserInv
<1> SUFFICES ASSUME Init PROVE ParserInv
  OBVIOUS
<1>1. parser = NewParser /\ builder = NewBuilder /\ scanner = NewScanner /\ idle = 0
  BY DEF Init
<1>2. /\ DOMAIN parser = Fields /\ parser.state = "stream start" /\ parser.states = <<>>
  BY <1>1 DEF NewParser, Fields
<1>3. parser.state \in Outer /\ Height(parser.state) = 0 /\ parser.state \notin Nodal \cup Firsts
  <2>1. "stream start" \in Outer /\ Height("stream start") = 0
    BY OuterFacts
  <2>2. "stream start" \notin Nodal \cup Firsts
    BY DEF Nodal, Firsts
  <2> QED BY <1>2, <2>1, <2>2
<1>4. Len(parser.states) = 0 /\ parser.states \in Seq(Backs)
  BY <1>2, EmptySeq
<1>5. WellFormed(parser)
  <2>1. parser.state \in States /\ parser.state \notin IndentlessStates \cup {"node", "error"}
    BY <1>2, <1>3 DEF States, IndentlessStates
  <2>2. \A i : i \notin 2..Len(parser.states)
    BY <1>4
  <2> QED BY <1>2, <1>3, <1>4, <2>1, <2>2 DEF WellFormed
<1>6. /\ DOMAIN builder = BuilderFields /\ builder.stack = <<"stream">>
      /\ builder.outcome = "reading"
  BY <1>1 DEF NewBuilder, BuilderFields
<1>7. /\ builder.stack \in Seq(Waits) /\ builder.stack # <<>> /\ builder.stack[1] = "stream"
      /\ Len(builder.stack) = 1
  <2>1. "stream" \in Waits
    BY DEF Waits
  <2> QED BY <1>6, <2>1
<1>8. PICK f : f = [i \in 1..1 |-> 1]
  OBVIOUS
<1>9. Lower(parser) = 0 /\ Innermost(parser) = parser.state
  BY <1>3, <1>4, PlaceFacts
<1>10. Grounded(parser.states, 0, builder.stack, f)
  BY <1>8 DEF Grounded
<1>11. Founded(parser, builder, f)
  <2>1. f[0 + 1] = 1 /\ Len(builder.stack) = f[0 + 1] + 0
    BY <1>7, <1>8
  <2>2. Stands(builder.stack, f[0 + 1], 0, Awaited(parser))
    BY DEF Stands
  <2> QED BY <1>3, <1>9, <1>10, <2>1, <2>2 DEF Founded
<1>12. BuilderInv
  BY <1>6, <1>7, <1>11 DEF BuilderInv, Matched
<1>13. DOMAIN scanner = ScannerFields /\ scanner.available = FALSE
  BY <1>1 DEF NewScanner, ScannerFields
<1> QED BY <1>1, <1>3, <1>5, <1>12, <1>13 DEF ParserInv, IdleInv, HeadInv, ScannerShape

\* A step of the automaton.
LEMMA ParseParserInv ==
  ASSUME ParserInv, Parse
  PROVE  ParserInv'
<1>1. PICK t, r : /\ t = Head(scanner.tokens) /\ r = Step(parser, t)
                  /\ parser' = r.parser
                  /\ scanner' = IF r.skipped THEN Take(scanner) ELSE scanner
                  /\ builder' = IF r.event = NoEvent THEN builder ELSE Build(builder, r.event)
                  /\ idle' = IF r.skipped THEN 0 ELSE IF idle > MaxIdle THEN idle ELSE idle + 1
  BY Zenon DEF Parse
<1>2. /\ scanner.available /\ parser.state \notin {"end", "error"}
      /\ builder.outcome = "reading"
  BY DEF Parse, Reading, Stopped
<1>3. parser.state \in Firsts => t.type = FirstToken(parser.state)
  BY <1>1 DEF ParserInv, HeadInv
<1>4. WellFormed(parser) /\ IdleInv /\ DOMAIN scanner = ScannerFields
  BY DEF ParserInv, ScannerShape
<1>5. Good(parser, t, r)
  BY <1>1, <1>2, <1>3, <1>4, StepGood
<1>6. /\ WellFormed(r.parser) /\ r.skipped \in BOOLEAN /\ Move(parser, r.parser, r.event)
      /\ Timely(parser, t, r)
      /\ r.parser.state \in Firsts => ~r.skipped /\ t.type = FirstToken(r.parser.state)
  BY <1>5 DEF Good, Tokens
<1>7. BuilderInv'
  <2>1. Matched(parser, builder)
    BY <1>2 DEF ParserInv, BuilderInv
  <2>2. \/ builder'.outcome \in {"read", "unknown anchor"}
        \/ builder'.outcome = "reading" /\ r.parser.state = "error"
        \/ Matched(r.parser, builder')
    <3>1. parser.state # "error"
      BY <1>2
    <3> QED BY <1>1, <1>4, <1>6, <2>1, <3>1, MoveMatched
  <2> QED BY <1>1, <2>2 DEF BuilderInv
<1>8. Keeps(Take(scanner), FALSE)
  BY <1>4 DEF Take, Keeps, ScannerFields
<1>9. ScannerShape'
  BY <1>1, <1>4, <1>6, <1>8 DEF ScannerShape, Keeps
<1>10. IdleInv'
  <2>1. CASE r.skipped
    BY <1>1, <1>8, <2>1 DEF IdleInv, Keeps
  <2>2. CASE ~r.skipped
    <3>1. idle \in Nat /\ idle <= Patience(parser, t)
      BY <1>1, <1>2, <1>4 DEF IdleInv
    <3>2. Patience(parser, t) + 1 <= Patience(r.parser, t)
      BY <1>6, <2>2 DEF Timely
    <3>3. Patience(parser, t) \in 0..4 /\ Patience(r.parser, t) \in 0..4
      BY LeastPatience
    <3>4. idle' = idle + 1
      BY <1>1, <2>2, <3>1, <3>3 DEF MaxIdle
    <3>5. idle' \in Nat /\ idle' <= Patience(r.parser, t)
      BY <3>1, <3>2, <3>3, <3>4
    <3>6. scanner'.available /\ Head(scanner.tokens)' = t
      BY <1>1, <1>2, <2>2
    <3> QED BY <1>1, <3>5, <3>6 DEF IdleInv
  <2> QED BY <2>1, <2>2
<1>11. HeadInv'
  BY <1>1, <1>2, <1>6 DEF HeadInv
<1> QED BY <1>1, <1>6, <1>7, <1>9, <1>10, <1>11 DEF ParserInv

\* A token more.
LEMMA FetchParserInv ==
  ASSUME ParserInv, Fetch
  PROVE  ParserInv'
<1>1. /\ ~scanner.available /\ UNCHANGED <<parser, builder, idle>>
      /\ \E x \in Upcoming : scanner' = FetchNextToken(scanner, x)
  BY Zenon DEF Fetch
<1>2. Keeps(scanner, scanner.available)
  BY DEF ParserInv, ScannerShape, Keeps
<1>3. Keeps(scanner', scanner.available)
  BY <1>1, <1>2, FetchKeeps
<1>4. ScannerShape' /\ scanner'.available = scanner.available
  BY <1>3 DEF Keeps, ScannerShape
<1> QED BY <1>1, <1>4 DEF ParserInv, BuilderInv, IdleInv, HeadInv

\* A token is offered.
LEMMA ReadyParserInv ==
  ASSUME ParserInv, Ready
  PROVE  ParserInv'
<1>1. /\ ~scanner.available /\ UNCHANGED <<parser, builder, idle>> /\ scanner' = Offer(scanner)
  BY DEF Ready
<1>2. Keeps(scanner, scanner.available)
  BY DEF ParserInv, ScannerShape, Keeps
<1>3. Keeps(scanner', TRUE)
  <2>1. \A s, a : Keeps(s, a) => Keeps([s EXCEPT !.available = TRUE], TRUE)
    BY DEF Keeps, ScannerFields
  <2> QED BY <1>1, <1>2, <2>1, KeyKeeps DEF Offer
<1>4. ScannerShape' /\ scanner'.available = TRUE
  BY <1>3 DEF Keeps, ScannerShape
<1>5. parser.state \notin Firsts /\ idle = 0
  BY <1>1 DEF ParserInv, HeadInv, IdleInv
<1>6. Patience(parser', Head(scanner.tokens)') \in 0..4
  BY LeastPatience
<1>7. IdleInv'
  <2>1. idle' = 0 /\ 0 <= Patience(parser', Head(scanner.tokens)')
    BY <1>1, <1>5, <1>6
  <2> QED BY <1>4, <2>1 DEF IdleInv
<1>8. BuilderInv' /\ HeadInv' /\ WellFormed(parser')
  BY <1>1, <1>5 DEF ParserInv, BuilderInv, HeadInv
<1> QED BY <1>4, <1>7, <1>8 DEF ParserInv

\* Every other step leaves the decoder alone.
LEMMA StepParserInv == ParserInv /\ [Next]_vars => ParserInv'
<1> SUFFICES ASSUME ParserInv, [Next]_vars PROVE ParserInv'
  OBVIOUS
<1>1. CASE UNCHANGED <<scanner, parser, builder, idle>>
  BY <1>1 DEF ParserInv, BuilderInv, IdleInv, HeadInv, ScannerShape
<1>2. CASE Writing
  <2>1. UNCHANGED <<scanner, parser, builder, idle>>
    BY <1>2 DEF Writing, BeginDocument, EndDocument, SendScalar, BeginCollection,
                EndCollection, Finish, Emit, Close, Send
  <2> QED BY <1>1, <2>1
<1>3. CASE Fetch
  BY <1>3, FetchParserInv
<1>4. CASE Ready
  BY <1>4, ReadyParserInv
<1>5. CASE Parse
  BY <1>5, ParseParserInv
<1>6. CASE Done \/ UNCHANGED vars
  <2>1. UNCHANGED <<scanner, parser, builder, idle>>
    BY <1>6 DEF Done, vars
  <2> QED BY <1>1, <2>1
<1> QED BY <1>2, <1>3, <1>4, <1>5, <1>6 DEF Next, Read

\* The invariant.
THEOREM Parsing == Spec => []ParserInv
BY InitParserInv, StepParserInv, PTL DEF Spec

\* The automaton takes a token every few steps (parserc.go: every state function
\* either skips the token it looked at, or moves to a state nearer to one that does),
\* whatever the tokens are: yaml_parser_parse cannot give events for ever in one place.
THEOREM TokensTaken == Spec => []TakesTokens
<1>1. ParserInv => TakesTokens
  <2> SUFFICES ASSUME ParserInv PROVE idle <= 4
    BY DEF TakesTokens, MaxIdle
  <2>1. Patience(parser, Head(scanner.tokens)) \in 0..4
    BY LeastPatience
  <2> QED BY <2>1 DEF ParserInv, IdleInv
<1> QED BY <1>1, Parsing, PTL

\* The events of the automaton are those the node builder has a branch for
\* (decode.go's panics "attempted to parse unknown event" and "expected ... event but
\* got"), for every sequence of tokens the scanner may give.
THEOREM BuilderNeverSurprised == Spec => []NeverSurprised
<1>1. ParserInv => NeverSurprised
  BY DEF ParserInv, BuilderInv, Matched, NeverSurprised
<1> QED BY <1>1, Parsing, PTL

-----------------------------------------------------------------------------
(* Counting in sequences.                                                  *)

\* What is counted is a finite set of places.
LEMMA CountType ==
  ASSUME NEW S, NEW s \in Seq(S), NEW set
  PROVE  /\ IsFiniteSet({i \in 1..Len(s) : s[i] \in set})
         /\ Count(set, s) = Cardinality({i \in 1..Len(s) : s[i] \in set})
         /\ Count(set, s) \in Nat
<1>1. Len(s) \in Nat /\ DOMAIN s = 1..Len(s)
  BY LenProperties
<1>2. IsFiniteSet(1..Len(s))
  BY <1>1, FS_Interval
<1>3. IsFiniteSet({i \in 1..Len(s) : s[i] \in set})
  <2>1. {i \in 1..Len(s) : s[i] \in set} \in SUBSET (1..Len(s))
    OBVIOUS
  <2> QED BY <1>2, <2>1, FS_Subset
<1>4. Count(set, s) = Cardinality({i \in 1..Len(s) : s[i] \in set})
  BY <1>1 DEF Count
<1> QED BY <1>3, <1>4, FS_CardinalityType

\* The places of the second part are those of the sequence it was, moved on.
LEMMA CountConcat ==
  ASSUME NEW S, NEW s \in Seq(S), NEW t \in Seq(S), NEW set
  PROVE  Count(set, s \o t) = Count(set, s) + Count(set, t)
<1>1. PICK m, n : m = Len(s) /\ n = Len(t) /\ m \in Nat /\ n \in Nat
  BY LenProperties
<1>2. PICK c : c = s \o t
  OBVIOUS
<1>3. /\ c \in Seq(S) /\ Len(c) = m + n
      /\ \A i \in 1..m + n : c[i] = IF i <= m THEN s[i] ELSE t[i - m]
  BY <1>1, <1>2, ConcatProperties
<1>4. PICK A, B, C : /\ A = {i \in 1..m : s[i] \in set}
                     /\ B = {i \in 1..n : t[i] \in set}
                     /\ C = {i \in m + 1..m + n : c[i] \in set}
  OBVIOUS
<1>5. /\ IsFiniteSet(A) /\ Count(set, s) = Cardinality(A)
      /\ IsFiniteSet(B) /\ Count(set, t) = Cardinality(B)
      /\ Count(set, c) = Cardinality({i \in 1..m + n : c[i] \in set})
  <2>1. IsFiniteSet(A) /\ Count(set, s) = Cardinality(A)
    BY <1>1, <1>4, CountType
  <2>2. IsFiniteSet(B) /\ Count(set, t) = Cardinality(B)
    BY <1>1, <1>4, CountType
  <2>3. Count(set, c) = Cardinality({i \in 1..Len(c) : c[i] \in set})
    BY <1>3, CountType
  <2> QED BY <1>3, <2>1, <2>2, <2>3
<1>6. {i \in 1..m + n : c[i] \in set} = A \cup C /\ A \cap C = {}
  BY <1>1, <1>3, <1>4
<1>7. IsFiniteSet(C) /\ Cardinality(C) = Cardinality(B)
  <2>1. PICK f : f = [i \in B |-> i + m]
    OBVIOUS
  <2>2. f \in [B -> C] /\ \A i \in B : f[i] = i + m
    <3> SUFFICES ASSUME NEW i \in B PROVE i + m \in C
      BY <2>1
    <3>1. i \in 1..n /\ i + m \in m + 1..m + n /\ i + m \in 1..m + n /\ (i + m) - m = i
      BY <1>1, <1>4
    <3>2. c[i + m] = t[(i + m) - m]
      BY <1>1, <1>3, <3>1
    <3> QED BY <1>4, <3>1, <3>2
  <2>3. \A i, j \in B : f[i] = f[j] => i = j
    BY <1>1, <1>4, <2>2
  <2>4. \A j \in C : j - m \in B /\ f[j - m] = j
    <3> TAKE j \in C
    <3>1. j \in m + 1..m + n /\ j \in 1..m + n /\ j - m \in 1..n /\ (j - m) + m = j
      BY <1>1, <1>4
    <3>2. c[j] = t[j - m]
      BY <1>1, <1>3, <3>1
    <3>3. j - m \in B
      BY <1>4, <3>1, <3>2
    <3> QED BY <2>2, <3>1, <3>3
  <2>5. f \in Bijection(B, C)
    BY <2>2, <2>3, <2>4 DEF Bijection, Injection, IsInjective, Surjection
  <2>6. ExistsBijection(B, C)
    BY <2>5 DEF ExistsBijection
  <2> QED BY <1>5, <2>6, FS_Bijection
<1>8. Cardinality(A \cup C) = Cardinality(A) + Cardinality(C) - Cardinality(A \cap C)
  BY <1>5, <1>7, FS_Union
<1>9. Cardinality(A \cap C) = 0
  BY <1>6, FS_EmptySet
<1>10. Cardinality(A) \in Nat /\ Cardinality(C) \in Nat
  BY <1>5, <1>7, FS_CardinalityType
<1>11. Count(set, c) = Cardinality(A \cup C)
  BY <1>5, <1>6
<1>12. Cardinality(A \cup C) = Cardinality(A) + Cardinality(C)
  BY <1>8, <1>9, <1>10
<1>13. Count(set, c) = Count(set, s) + Count(set, t)
  BY <1>5, <1>7, <1>11, <1>12
<1> QED BY <1>2, <1>13

\* One element counts for one or for nothing.
LEMMA CountOne ==
  ASSUME NEW x, NEW set
  PROVE  /\ Count(set, <<x>>) = IF x \in set THEN 1 ELSE 0
         /\ Count(set, <<>>) = 0
<1>1. Count(set, <<>>) = 0
  <2>1. {i \in DOMAIN <<>> : <<>>[i] \in set} = {}
    OBVIOUS
  <2> QED BY <2>1, FS_EmptySet DEF Count
<1>2. Count(set, <<x>>) = Cardinality({i \in {1} : x \in set})
  <2>1. DOMAIN <<x>> = {1} /\ <<x>>[1] = x
    OBVIOUS
  <2>2. {i \in DOMAIN <<x>> : <<x>>[i] \in set} = {i \in {1} : x \in set}
    BY <2>1
  <2> QED BY <2>2 DEF Count
<1>3. CASE x \in set
  <2>1. {i \in {1} : x \in set} = {1}
    BY <1>3
  <2> QED BY <1>1, <1>2, <1>3, <2>1, FS_Singleton
<1>4. CASE x \notin set
  <2>1. {i \in {1} : x \in set} = {}
    BY <1>4
  <2> QED BY <1>1, <1>2, <1>4, <2>1, FS_EmptySet
<1> QED BY <1>3, <1>4

\* At the end, at the head, and at the end again.
LEMMA CountAppend ==
  ASSUME NEW S, NEW s \in Seq(S), NEW x \in S, NEW set
  PROVE  Count(set, Append(s, x)) = Count(set, s) + IF x \in set THEN 1 ELSE 0
<1>1. PICK o : o = <<x>>
  OBVIOUS
<1>5. o \in Seq(S)
  BY <1>1
<1>2. Append(s, x) = s \o o
  BY <1>1, AppendIsConcat
<1>3. Count(set, s \o o) = Count(set, s) + Count(set, o)
  BY <1>5, CountConcat
<1>4. Count(set, o) = IF x \in set THEN 1 ELSE 0
  BY <1>1, CountOne
<1> QED BY <1>2, <1>3, <1>4

LEMMA CountTail ==
  ASSUME NEW S, NEW s \in Seq(S), s # <<>>, NEW set
  PROVE  Count(set, Tail(s)) = Count(set, s) - IF Head(s) \in set THEN 1 ELSE 0
<1>1. Head(s) \in S /\ Tail(s) \in Seq(S)
  BY HeadTailProperties
<1>2. s = <<Head(s)>> \o Tail(s)
  OBVIOUS
<1>3. PICK h, t : h = <<Head(s)>> /\ t = Tail(s)
  OBVIOUS
<1>4. Count(set, s) = Count(set, h) + Count(set, t)
  <2>1. h \in Seq(S) /\ t \in Seq(S)
    BY <1>1, <1>3
  <2> QED BY <1>2, <1>3, <2>1, CountConcat
<1>5. Count(set, h) = IF Head(s) \in set THEN 1 ELSE 0
  BY <1>3, CountOne
<1>6. Count(set, t) \in Nat /\ Count(set, s) \in Nat
  BY <1>1, <1>3, CountType
<1> QED BY <1>3, <1>4, <1>5, <1>6

LEMMA CountFront ==
  ASSUME NEW S, NEW s \in Seq(S), s # <<>>, NEW set
  PROVE  Count(set, Front(s)) = Count(set, s) - IF Last(s) \in set THEN 1 ELSE 0
<1>1. PICK f, x : f = Front(s) /\ x = Last(s) /\ f \in Seq(S) /\ x \in S
  BY FrontLast
<1>2. s = Append(f, x)
  <2>1. /\ Len(f) = Len(s) - 1 /\ Len(s) \in Nat \ {0} /\ x = s[Len(s)]
        /\ \A i \in 1..Len(s) - 1 : f[i] = s[i]
    BY <1>1, FrontLast
  <2>2. /\ Append(f, x) \in Seq(S) /\ Len(Append(f, x)) = Len(s)
        /\ \A i \in 1..Len(s) - 1 : Append(f, x)[i] = s[i]
        /\ Append(f, x)[Len(s)] = x
    BY <1>1, <2>1, AppendProperties
  <2>3. \A i \in 1..Len(s) : s[i] = Append(f, x)[i]
    BY <2>1, <2>2
  <2> QED BY <2>2, <2>3, SeqEqual
<1>3. Count(set, s) = Count(set, f) + IF x \in set THEN 1 ELSE 0
  BY <1>1, <1>2, CountAppend
<1>4. Count(set, f) \in Nat
  BY <1>1, CountType
<1> QED BY <1>1, <1>3, <1>4

\* Inside: InsertAt of SequencesExt, with a place in the sequence or behind it.
LEMMA InsertFacts ==
  ASSUME NEW S, NEW s \in Seq(S), NEW x \in S, NEW k \in 1..Len(s) + 1, NEW set
  PROVE  /\ InsertAt(s, k, x) \in Seq(S) /\ Len(InsertAt(s, k, x)) = Len(s) + 1
         /\ Count(set, InsertAt(s, k, x)) = Count(set, s) + IF x \in set THEN 1 ELSE 0
<1>1. PICK a, b, o : a = SubSeq(s, 1, k - 1) /\ b = SubSeq(s, k, Len(s)) /\ o = <<x>>
  OBVIOUS
<1>2. Len(s) \in Nat /\ \A i \in 1..Len(s) : s[i] \in S
  BY LenProperties, ElementOfSeq
<1>3. /\ a \in Seq(S) /\ Len(a) = k - 1 /\ \A i \in 1..k - 1 : a[i] = s[i]
  <2>1. \A i \in 1..k - 1 : s[i] \in S
    BY <1>2
  <2>2. /\ SubSeq(s, 1, k - 1) \in Seq(S)
        /\ Len(SubSeq(s, 1, k - 1)) = IF 1 <= k - 1 THEN k - 1 - 1 + 1 ELSE 0
        /\ \A i \in 1..(k - 1) - 1 + 1 : SubSeq(s, 1, k - 1)[i] = s[1 + i - 1]
    BY <1>2, <2>1, SubSeqProperties
  <2> QED BY <1>1, <1>2, <2>2
<1>4. /\ b \in Seq(S) /\ Len(b) = Len(s) - k + 1
      /\ \A i \in 1..Len(s) - k + 1 : b[i] = s[k + i - 1]
  <2>1. \A i \in k..Len(s) : s[i] \in S
    BY <1>2
  <2>2. /\ SubSeq(s, k, Len(s)) \in Seq(S)
        /\ Len(SubSeq(s, k, Len(s))) = IF k <= Len(s) THEN Len(s) - k + 1 ELSE 0
        /\ \A i \in 1..Len(s) - k + 1 : SubSeq(s, k, Len(s))[i] = s[k + i - 1]
    BY <1>2, <2>1, SubSeqProperties
  <2> QED BY <1>1, <1>2, <2>2
<1>5. s = a \o b
  <2>1. /\ a \o b \in Seq(S) /\ Len(a \o b) = Len(s)
        /\ \A i \in 1..Len(s) : (a \o b)[i] = IF i <= k - 1 THEN a[i] ELSE b[i - (k - 1)]
    BY <1>2, <1>3, <1>4, ConcatProperties
  <2>2. \A i \in 1..Len(s) : s[i] = (a \o b)[i]
    <3> TAKE i \in 1..Len(s)
    <3>1. CASE i <= k - 1
      BY <1>3, <2>1, <3>1
    <3>2. CASE i > k - 1
      <4>1. PICK j \in 1..Len(s) - k + 1 : j = i - (k - 1) /\ k + j - 1 = i
        BY <1>2, <3>2
      <4>2. b[j] = s[k + j - 1]
        BY <1>4
      <4>3. ~(i <= k - 1)
        BY <1>2, <3>2
      <4>4. (a \o b)[i] = b[i - (k - 1)]
        BY <2>1, <4>3
      <4>5. b[i - (k - 1)] = b[j] /\ s[k + j - 1] = s[i]
        BY <4>1
      <4>6. b[j] = s[i]
        BY <4>2, <4>5
      <4>7. (a \o b)[i] = b[j]
        BY <4>4, <4>5
      <4> QED BY <4>6, <4>7
    <3>3. i <= k - 1 \/ i > k - 1
      BY <1>2
    <3> QED BY <3>1, <3>2, <3>3
  <2> QED BY <2>1, <2>2, SeqEqual
<1>6. o \in Seq(S) /\ Len(o) = 1 /\ InsertAt(s, k, x) = (a \o o) \o b
  BY <1>1 DEF InsertAt
<1>13. PICK ao : ao = a \o o
  OBVIOUS
<1>7. ao = a \o o /\ ao \in Seq(S) /\ Len(ao) = k
  <2>1. a \o o \in Seq(S) /\ Len(a \o o) = Len(a) + Len(o)
    BY <1>3, <1>6, ConcatProperties
  <2>2. Len(ao) = (k - 1) + 1
    BY <1>3, <1>6, <1>13, <2>1
  <2> QED BY <1>13, <2>1, <2>2
<1>8. InsertAt(s, k, x) \in Seq(S) /\ Len(InsertAt(s, k, x)) = Len(s) + 1
  <2>1. ao \o b \in Seq(S) /\ Len(ao \o b) = Len(ao) + Len(b)
    BY <1>4, <1>7, ConcatProperties
  <2>2. Len(ao \o b) = Len(s) + 1
    BY <1>2, <1>4, <1>7, <2>1
  <2> QED BY <1>6, <1>7, <2>1, <2>2
<1>9. Count(set, (a \o o) \o b) = (Count(set, a) + Count(set, o)) + Count(set, b)
  <2>1. Count(set, a \o o) = Count(set, a) + Count(set, o)
    BY <1>3, <1>6, CountConcat
  <2>3. ao \in Seq(S) /\ b \in Seq(S)
    BY <1>4, <1>7
  <2>2. Count(set, ao \o b) = Count(set, ao) + Count(set, b)
    BY <2>3, CountConcat
  <2> QED BY <1>7, <2>1, <2>2
<1>10. Count(set, s) = Count(set, a) + Count(set, b)
  <2>1. Count(set, a \o b) = Count(set, a) + Count(set, b)
    BY <1>3, <1>4, CountConcat
  <2> QED BY <1>5, <2>1
<1>11. Count(set, o) = IF x \in set THEN 1 ELSE 0
  BY <1>1, CountOne
<1>12. Count(set, a) \in Nat /\ Count(set, b) \in Nat
  BY <1>3, <1>4, CountType
<1> QED BY <1>6, <1>8, <1>9, <1>10, <1>11, <1>12

-----------------------------------------------------------------------------
(* The scanner opens and closes as many blocks as it counts levels.        *)

\* What a lexeme, a token, a place and a simple key are made of.
Positions    == [line : Nat, col : Nat]
GivenWords   == {"", "short", "!!", "!e!", "%YAML 1.1", "%YAML 2.0", "%FOO"}
Words        == {v.text : v \in Scalars} \cup GivenWords
ScalarSet    == [text : Words, lead : Nat, final : Nat, breaks : Nat, tab : BOOLEAN]
ReadSet      == [text : Words, lead : Int, final : Int, breaks : Nat, tab : BOOLEAN]
LexemeSet    == [kind : Kinds \cup {"end"}, value : ScalarSet, line : Nat, col : Nat,
                 width : Nat, down : Nat, inner : Nat, hint : Nat, chomp : Int,
                 trail : BOOLEAN]
TokenTypes   == Kinds \cup BlockTokens \cup {"stream-start", "stream-end", "scalar"}
TokenSet     == [type : TokenTypes, value : ReadSet]
KeySet       == [possible : BOOLEAN, required : BOOLEAN, token : Nat, mark : Positions]

\* The tokens that begin a block and those that end one.
Openers   == {t \in TokenSet : t.type \in BlockStarts}
Closers   == {t \in TokenSet : t.type = "block-end"}
Weight(t) == (IF t \in Openers THEN 1 ELSE 0) - (IF t \in Closers THEN 1 ELSE 0)
Balance(tokens) == Count(Openers, tokens) - Count(Closers, tokens)

\* The levels of flow collections, none of whose keys begins behind the last token.
KeysOk(keys, bound) ==
  /\ keys \in Seq(KeySet) /\ Len(keys) >= 1
  /\ \A i \in 1..Len(keys) : keys[i].token <= bound

\* The columns of the blocks, from outside: nothing is left of the first one.
Rooted(indents, indent) == IF indents = <<>> THEN indent = -1 ELSE indents[1] = -1

Sound(s) ==
  /\ DOMAIN s = ScannerFields /\ s.started
  /\ s.mark \in Positions /\ s.tokens \in Seq(TokenSet) /\ s.parsed \in Nat
  /\ s.indent \in Int /\ s.indents \in Seq(Int) /\ Rooted(s.indents, s.indent)
  /\ KeysOk(s.keys, s.parsed + Len(s.tokens))

\* n more blocks wait in the queue than the scanner counts levels.
Balanced(s, n) == Sound(s) /\ n \in Int /\ Balance(s.tokens) - Len(s.indents) = n

\* A queue's balance is a number, and each token has its weight in it.
LEMMA BalanceType ==
  ASSUME NEW q \in Seq(TokenSet)
  PROVE  Balance(q) \in Int
<1>1. Count(Openers, q) \in Nat /\ Count(Closers, q) \in Nat
  BY CountType
<1> QED BY <1>1 DEF Balance

LEMMA WeightType == \A t : Weight(t) \in {-1, 0, 1}
BY DEF Weight

LEMMA BalanceAppend ==
  ASSUME NEW q \in Seq(TokenSet), NEW t \in TokenSet
  PROVE  Balance(Append(q, t)) = Balance(q) + Weight(t)
<1>1. Count(Openers, Append(q, t)) = Count(Openers, q) + IF t \in Openers THEN 1 ELSE 0
  BY CountAppend
<1>2. Count(Closers, Append(q, t)) = Count(Closers, q) + IF t \in Closers THEN 1 ELSE 0
  BY CountAppend
<1>3. Count(Openers, q) \in Nat /\ Count(Closers, q) \in Nat
  BY CountType
<1> QED BY <1>1, <1>2, <1>3 DEF Balance, Weight

LEMMA BalanceInsert ==
  ASSUME NEW q \in Seq(TokenSet), NEW t \in TokenSet, NEW k \in 1..Len(q) + 1
  PROVE  Balance(InsertAt(q, k, t)) = Balance(q) + Weight(t)
<1>1. Count(Openers, InsertAt(q, k, t)) = Count(Openers, q) + IF t \in Openers THEN 1 ELSE 0
  BY InsertFacts
<1>2. Count(Closers, InsertAt(q, k, t)) = Count(Closers, q) + IF t \in Closers THEN 1 ELSE 0
  BY InsertFacts
<1>3. Count(Openers, q) \in Nat /\ Count(Closers, q) \in Nat
  BY CountType
<1> QED BY <1>1, <1>2, <1>3 DEF Balance, Weight

LEMMA BalanceTail ==
  ASSUME NEW q \in Seq(TokenSet), q # <<>>
  PROVE  Balance(Tail(q)) = Balance(q) - Weight(Head(q))
<1>1. Count(Openers, Tail(q)) = Count(Openers, q) - IF Head(q) \in Openers THEN 1 ELSE 0
  BY CountTail
<1>2. Count(Closers, Tail(q)) = Count(Closers, q) - IF Head(q) \in Closers THEN 1 ELSE 0
  BY CountTail
<1>3. Count(Openers, q) \in Nat /\ Count(Closers, q) \in Nat
  BY CountType
<1> QED BY <1>1, <1>2, <1>3 DEF Balance, Weight

\* The tokens the scanner makes weigh what their types say.
LEMMA TokenFacts ==
  ASSUME NEW type \in TokenTypes, NEW v \in ReadSet
  PROVE  /\ Token(type, v) \in TokenSet
         /\ type \notin BlockTokens => Weight(Token(type, v)) = 0
         /\ type \in BlockStarts => Weight(Token(type, v)) = 1
         /\ type = "block-end" => Weight(Token(type, v)) = -1
<1>1. PICK t : t = Token(type, v)
  OBVIOUS
<1>2. t \in TokenSet /\ t.type = type
  BY <1>1 DEF Token, TokenSet
<1>3. t \in Openers <=> type \in BlockStarts
  BY <1>2 DEF Openers
<1>4. t \in Closers <=> type = "block-end"
  BY <1>2 DEF Closers
<1>5. "block-end" \notin BlockStarts
  BY DEF BlockStarts
<1>6. BlockTokens = BlockStarts \cup {"block-end"}
  BY DEF BlockTokens
<1> QED BY <1>1, <1>2, <1>3, <1>4, <1>5, <1>6 DEF Weight

\* What is read of a scalar, and of nothing.
LEMMA ValueType ==
  ASSUME NEW x \in Words, NEW a \in Int, NEW b \in Int
  PROVE  /\ Value(x, a, b) \in ReadSet
         /\ a \in Nat /\ b \in Nat => Value(x, a, b) \in ScalarSet
BY DEF Value, ReadSet, ScalarSet

LEMMA EmptyValue == Empty \in ReadSet /\ Empty \in ScalarSet
<1>1. "" \in Words
  BY DEF Words, GivenWords
<1>2. 0 \in Int /\ 0 \in Nat
  OBVIOUS
<1> QED BY <1>1, <1>2, ValueType DEF Empty

\* Block ends only.
LEMMA BalanceEnds ==
  ASSUME NEW q \in Seq(TokenSet), NEW n \in Nat, NEW ends,
         ends = [k \in 1..n |-> Token("block-end", Empty)]
  PROVE  /\ q \o ends \in Seq(TokenSet) /\ Len(q \o ends) = Len(q) + n
         /\ Balance(q \o ends) = Balance(q) - n
<1>1. PICK t : t = Token("block-end", Empty)
  OBVIOUS
<1>2. t \in TokenSet /\ t.type = "block-end"
  <2>1. "block-end" \in TokenTypes
    BY DEF TokenTypes, BlockTokens
  <2>2. Token("block-end", Empty) \in TokenSet
    BY <2>1, EmptyValue, TokenFacts
  <2>3. Token("block-end", Empty).type = "block-end"
    BY DEF Token
  <2> QED BY <1>1, <2>2, <2>3
<1>3. t \in Closers /\ t \notin Openers
  BY <1>2 DEF Closers, Openers, BlockStarts
<1>4. ends \in Seq(TokenSet) /\ Len(ends) = n /\ \A k \in 1..n : ends[k] = t
  BY <1>1, <1>2
<1>5. Count(Closers, ends) = n
  <2>1. {k \in 1..n : ends[k] \in Closers} = 1..n
    BY <1>3, <1>4
  <2>2. Cardinality(1..n) = n
    <3>1. Cardinality(1..n) = IF 1 > n THEN 0 ELSE n - 1 + 1
      BY FS_Interval
    <3> QED BY <3>1
  <2>3. Count(Closers, ends) = Cardinality({k \in 1..Len(ends) : ends[k] \in Closers})
    BY <1>4, CountType
  <2> QED BY <1>4, <2>1, <2>2, <2>3
<1>6. Count(Openers, ends) = 0
  <2>1. {k \in 1..n : ends[k] \in Openers} = {}
    BY <1>3, <1>4
  <2>2. Count(Openers, ends) = Cardinality({k \in 1..Len(ends) : ends[k] \in Openers})
    BY <1>4, CountType
  <2> QED BY <1>4, <2>1, <2>2, FS_EmptySet
<1>7. /\ Count(Closers, q \o ends) = Count(Closers, q) + Count(Closers, ends)
      /\ Count(Openers, q \o ends) = Count(Openers, q) + Count(Openers, ends)
  BY <1>4, CountConcat
<1>8. q \o ends \in Seq(TokenSet) /\ Len(q \o ends) = Len(q) + n
  BY <1>4, ConcatProperties
<1>9. Count(Openers, q) \in Nat /\ Count(Closers, q) \in Nat
  BY CountType
<1> QED BY <1>5, <1>6, <1>7, <1>8, <1>9 DEF Balance

\* The keys of the levels: one is added, taken away, replaced, or no key any more.
LEMMA KeysGrow ==
  ASSUME NEW keys, NEW bound \in Int, KeysOk(keys, bound), NEW more \in Int, bound <= more
  PROVE  KeysOk(keys, more)
<1>1. keys \in Seq(KeySet) /\ Len(keys) >= 1
  BY DEF KeysOk
<1>2. \A i \in 1..Len(keys) : keys[i].token <= more
  <2> TAKE i \in 1..Len(keys)
  <2>1. keys[i] \in KeySet
    BY <1>1, ElementOfSeq
  <2>2. keys[i].token \in Nat
    BY <2>1 DEF KeySet
  <2>3. keys[i].token <= bound
    BY DEF KeysOk
  <2> QED BY <2>2, <2>3
<1> QED BY <1>1, <1>2 DEF KeysOk

LEMMA KeysAppend ==
  ASSUME NEW keys, NEW bound \in Int, KeysOk(keys, bound),
         NEW key \in KeySet, key.token <= bound
  PROVE  KeysOk(Append(keys, key), bound)
<1>1. keys \in Seq(KeySet) /\ Len(keys) >= 1 /\ Len(keys) \in Nat
  BY LenProperties DEF KeysOk
<1>2. /\ Append(keys, key) \in Seq(KeySet) /\ Len(Append(keys, key)) = Len(keys) + 1
      /\ \A i \in 1..Len(keys) : Append(keys, key)[i] = keys[i]
      /\ Append(keys, key)[Len(keys) + 1] = key
  BY <1>1, AppendProperties
<1>3. \A i \in 1..Len(keys) + 1 : Append(keys, key)[i].token <= bound
  <2> TAKE i \in 1..Len(keys) + 1
  <2>1. CASE i = Len(keys) + 1
    BY <1>2, <2>1
  <2>2. CASE i \in 1..Len(keys)
    BY <1>2, <2>2 DEF KeysOk
  <2> QED BY <1>1, <2>1, <2>2
<1>4. Len(Append(keys, key)) >= 1
  BY <1>1, <1>2
<1> QED BY <1>2, <1>3, <1>4 DEF KeysOk

LEMMA KeysFront ==
  ASSUME NEW keys, NEW bound \in Int, KeysOk(keys, bound), Len(keys) # 1
  PROVE  KeysOk(Front(keys), bound)
<1>1. keys \in Seq(KeySet) /\ Len(keys) \in Nat /\ Len(keys) >= 1
  BY LenProperties DEF KeysOk
<1>2. keys # <<>>
  BY <1>1
<1>3. /\ Front(keys) \in Seq(KeySet) /\ Len(Front(keys)) = Len(keys) - 1
      /\ \A i \in 1..Len(keys) - 1 : Front(keys)[i] = keys[i]
  BY <1>1, <1>2, FrontLast
<1>4. \A i \in 1..Len(keys) - 1 : Front(keys)[i].token <= bound
  <2> TAKE i \in 1..Len(keys) - 1
  <2>1. i \in 1..Len(keys)
    BY <1>1
  <2>2. keys[i].token <= bound
    BY <2>1 DEF KeysOk
  <2> QED BY <1>3, <2>2
<1>5. Len(keys) - 1 >= 1
  <2>1. PICK n : n = Len(keys)
    OBVIOUS
  <2>2. n \in Nat /\ n >= 1 /\ n # 1
    BY <1>1, <2>1
  <2> QED BY <2>1, <2>2
<1> QED BY <1>3, <1>4, <1>5 DEF KeysOk

LEMMA KeysImpossible ==
  ASSUME NEW keys, NEW bound \in Int, KeysOk(keys, bound), NEW level
  PROVE  KeysOk([keys EXCEPT ![level].possible = FALSE], bound)
<1>1. keys \in Seq(KeySet) /\ Len(keys) \in Nat /\ Len(keys) >= 1
  BY LenProperties DEF KeysOk
<1>2. PICK n : n = Len(keys)
  OBVIOUS
<1>3. keys \in [1..n -> KeySet] /\ n \in Nat
  BY <1>1, <1>2
<1>4. PICK r : r = [keys EXCEPT ![level].possible = FALSE]
  OBVIOUS
<1>5. DOMAIN r = 1..n /\ \A i \in 1..n : r[i] \in KeySet /\ r[i].token = keys[i].token
  <2>1. DOMAIN r = 1..n
    BY <1>3, <1>4
  <2>2. ASSUME NEW i \in 1..n PROVE r[i] \in KeySet /\ r[i].token = keys[i].token
    <3>1. keys[i] \in KeySet
      BY <1>3
    <3>2. r[i] = IF i = level THEN [keys[i] EXCEPT !.possible = FALSE] ELSE keys[i]
      BY <1>3, <1>4
    <3>3. [keys[i] EXCEPT !.possible = FALSE] \in KeySet
      BY <3>1 DEF KeySet
    <3>4. [keys[i] EXCEPT !.possible = FALSE].token = keys[i].token
      BY <3>1 DEF KeySet
    <3> QED BY <3>1, <3>2, <3>3, <3>4
  <2> QED BY <2>1, <2>2
<1>6. r = [i \in 1..n |-> r[i]]
  BY <1>3, <1>4
<1>7. r \in [1..n -> KeySet]
  BY <1>5, <1>6
<1>8. r \in Seq(KeySet) /\ Len(r) = n
  BY <1>3, <1>7
<1>9. \A i \in 1..n : r[i].token <= bound
  BY <1>2, <1>5 DEF KeysOk
<1> QED BY <1>1, <1>2, <1>4, <1>8, <1>9 DEF KeysOk

LEMMA KeysReplaced ==
  ASSUME NEW keys, NEW bound \in Int, KeysOk(keys, bound), NEW level,
         NEW key \in KeySet, key.token <= bound
  PROVE  KeysOk([keys EXCEPT ![level] = key], bound)
<1>1. keys \in Seq(KeySet) /\ Len(keys) \in Nat /\ Len(keys) >= 1
  BY LenProperties DEF KeysOk
<1>2. PICK n : n = Len(keys)
  OBVIOUS
<1>3. keys \in [1..n -> KeySet] /\ n \in Nat
  BY <1>1, <1>2
<1>4. PICK r : r = [keys EXCEPT ![level] = key]
  OBVIOUS
<1>5. r \in [1..n -> KeySet] /\ \A i \in 1..n : r[i] = IF i = level THEN key ELSE keys[i]
  BY <1>3, <1>4
<1>6. r \in Seq(KeySet) /\ Len(r) = n
  BY <1>3, <1>5
<1>7. \A i \in 1..n : keys[i].token <= bound
  BY <1>2 DEF KeysOk
<1>8. \A i \in 1..n : r[i].token <= bound
  BY <1>5, <1>7
<1> QED BY <1>1, <1>2, <1>4, <1>6, <1>8 DEF KeysOk

\* The parts of a sound scanner.
LEMMA SoundFacts ==
  ASSUME NEW s, Sound(s)
  PROVE  /\ DOMAIN s = ScannerFields /\ s.started
         /\ s.mark.line \in Nat /\ s.mark.col \in Nat
         /\ s.tokens \in Seq(TokenSet) /\ Len(s.tokens) \in Nat /\ s.parsed \in Nat
         /\ s.parsed + Len(s.tokens) \in Nat
         /\ s.indent \in Int /\ s.indents \in Seq(Int) /\ Len(s.indents) \in Nat
         /\ s.keys \in Seq(KeySet) /\ Len(s.keys) \in Nat /\ Len(s.keys) >= 1
         /\ Balance(s.tokens) \in Int
<1>1. /\ DOMAIN s = ScannerFields /\ s.started /\ s.tokens \in Seq(TokenSet) /\ s.parsed \in Nat
      /\ s.indent \in Int /\ s.indents \in Seq(Int)
      /\ s.keys \in Seq(KeySet) /\ Len(s.keys) >= 1
  BY DEF Sound, KeysOk
<1>2. s.mark.line \in Nat /\ s.mark.col \in Nat
  BY DEF Sound, Positions
<1>3. Len(s.tokens) \in Nat /\ Len(s.indents) \in Nat /\ Len(s.keys) \in Nat
  BY <1>1, LenProperties
<1>4. s.parsed + Len(s.tokens) \in Nat
  BY <1>1, <1>3
<1>5. Balance(s.tokens) \in Int
  BY <1>1, BalanceType
<1> QED BY <1>1, <1>2, <1>3, <1>4, <1>5

\* What does not touch the queue nor the levels of indentation.
LEMMA SameBalance ==
  ASSUME NEW s, NEW n, Balanced(s, n), NEW q,
         DOMAIN q = ScannerFields, q.started = s.started, q.mark \in Positions,
         q.tokens = s.tokens, q.parsed = s.parsed, q.indent = s.indent, q.indents = s.indents,
         KeysOk(q.keys, s.parsed + Len(s.tokens))
  PROVE  Balanced(q, n)
BY DEF Balanced, Sound

LEMMA PlainBalanced ==
  ASSUME NEW s, NEW n, Balanced(s, n)
  PROVE  /\ \A why : Balanced(Fail(s, why), n)
         /\ \A b : Balanced(Allow(s, b), n)
         /\ \A b : Balanced([s EXCEPT !.ended = b], n)
         /\ \A m \in Positions : Balanced([s EXCEPT !.mark = m], n)
<1>1. \A why : Balanced(Fail(s, why), n)
  BY DEF Balanced, Sound, Fail, ScannerFields
<1>2. \A b : Balanced(Allow(s, b), n)
  BY DEF Balanced, Sound, Allow, ScannerFields
<1>3. \A b : Balanced([s EXCEPT !.ended = b], n)
  BY DEF Balanced, Sound, ScannerFields
<1>4. \A m \in Positions : Balanced([s EXCEPT !.mark = m], n)
  BY DEF Balanced, Sound, ScannerFields
<1> QED BY <1>1, <1>2, <1>3, <1>4

\* Places in the text.
LEMMA MarkType == \A line, col \in Nat : Mark(line, col) \in Positions
BY DEF Mark, Positions

LEMMA PastBalanced ==
  ASSUME NEW s, NEW n, Balanced(s, n), NEW x \in LexemeSet
  PROVE  Balanced(Past(s, x), n) /\ Balanced(Reached(s, x), n)
<1>1. /\ x.line \in Nat /\ x.col \in Nat /\ x.width \in Nat /\ x.down \in Nat
      /\ x.line + x.down + 1 \in Nat /\ x.line + x.down \in Nat /\ x.col + x.width \in Nat
  BY DEF LexemeSet
<1>2. PICK m : m = IF x.trail THEN Mark(x.line + x.down + 1, 0)
                   ELSE IF x.down > 0 THEN Mark(x.line + x.down, x.width)
                   ELSE Mark(x.line, x.col + x.width)
  OBVIOUS
<1>3. m \in Positions
  BY <1>1, <1>2, MarkType
<1>4. Balanced(Past(s, x), n)
  BY <1>2, <1>3, PlainBalanced DEF Past
<1>5. Mark(x.line, x.col) \in Positions
  BY <1>1, MarkType
<1>6. \A m2 \in Positions : \A b : Balanced([s EXCEPT !.mark = m2, !.allowed = b], n)
  BY DEF Balanced, Sound, ScannerFields
<1> QED BY <1>4, <1>5, <1>6 DEF Reached

\* The simple keys.
LEMMA KeyBalanced ==
  ASSUME NEW s, NEW n, Balanced(s, n)
  PROVE  /\ \A level : Balanced(Drop(s, level), n)
         /\ \A level : Balanced(Expire(s, level), n)
         /\ Balanced(RemoveSimpleKey(s), n)
<1>1. PICK bound : bound = s.parsed + Len(s.tokens)
  OBVIOUS
<1>2. bound \in Int /\ KeysOk(s.keys, bound)
  BY <1>1, SoundFacts DEF Balanced, Sound
<1>3. \A level : KeysOk([s.keys EXCEPT ![level].possible = FALSE], bound)
  BY <1>2, KeysImpossible
<1>4. \A level : Balanced([s EXCEPT !.keys[level].possible = FALSE], n)
  <2> TAKE level
  <2>1. PICK q : q = [s EXCEPT !.keys[level].possible = FALSE]
    OBVIOUS
  <2>2. DOMAIN s = ScannerFields
    BY DEF Balanced, Sound
  <2>3. /\ DOMAIN q = ScannerFields /\ q.started = s.started /\ q.mark = s.mark
        /\ q.tokens = s.tokens /\ q.parsed = s.parsed /\ q.indent = s.indent
        /\ q.indents = s.indents /\ q.keys = [s.keys EXCEPT ![level].possible = FALSE]
    BY <2>1, <2>2 DEF ScannerFields
  <2>4. KeysOk(q.keys, bound)
    BY <1>3, <2>3
  <2> QED BY <1>1, <2>1, <2>3, <2>4 DEF Balanced, Sound
<1>5. \A level : Balanced(Drop(s, level), n)
  <2> TAKE level
  <2>1. PICK q : q = Drop(s, level)
    OBVIOUS
  <2>2. DOMAIN s = ScannerFields
    BY DEF Balanced, Sound
  <2>3. /\ DOMAIN q = ScannerFields /\ q.started = s.started /\ q.mark = s.mark
        /\ q.tokens = s.tokens /\ q.parsed = s.parsed /\ q.indent = s.indent
        /\ q.indents = s.indents /\ q.keys = [s.keys EXCEPT ![level].possible = FALSE]
    BY <2>1, <2>2 DEF Drop, ScannerFields
  <2>4. KeysOk(q.keys, bound)
    BY <1>3, <2>3
  <2> QED BY <1>1, <2>1, <2>3, <2>4 DEF Balanced, Sound
<1>6. \A level : Balanced(Expire(s, level), n)
  BY <1>4, PlainBalanced DEF Expire
<1>7. Balanced(RemoveSimpleKey(s), n)
  BY <1>5, PlainBalanced DEF RemoveSimpleKey
<1> QED BY <1>5, <1>6, <1>7

\* What removing a key does not change.
LEMMA RemoveKeeps ==
  ASSUME NEW s, NEW n, Balanced(s, n), NEW r, r = RemoveSimpleKey(s)
  PROVE  /\ r.parsed = s.parsed /\ r.tokens = s.tokens /\ r.mark = s.mark
         /\ r.indent = s.indent /\ r.indents = s.indents /\ r.started = s.started
<1>1. DOMAIN s = ScannerFields
  BY DEF Balanced, Sound
<1> QED BY <1>1 DEF RemoveSimpleKey, Fail, Drop, ScannerFields

LEMMA SaveBalanced ==
  ASSUME NEW s, NEW n, Balanced(s, n)
  PROVE  Balanced(SaveSimpleKey(s), n)
<1>1. PICK key : key = [possible |-> TRUE, required |-> FlowLevel(s) = 0 /\ s.indent = s.mark.col,
                        token |-> NextToken(s), mark |-> s.mark]
  OBVIOUS
<1>2. PICK r : r = RemoveSimpleKey(s)
  OBVIOUS
<1>3. SaveSimpleKey(s) =
        IF ~s.allowed THEN s
        ELSE [r EXCEPT !.keys[Len(s.keys)] = key, !.byTok = With(@, key.token, Len(s.keys))]
  BY <1>1, <1>2 DEF SaveSimpleKey
<1>4. PICK bound : bound = s.parsed + Len(s.tokens)
  OBVIOUS
<1>5. bound \in Nat /\ NextToken(s) = bound
  BY <1>4, SoundFacts DEF NextToken, Balanced
<1>6. key \in KeySet /\ key.token <= bound
  BY <1>1, <1>5 DEF Balanced, Sound, KeySet
<1>7. Balanced(r, n) /\ r.parsed = s.parsed /\ r.tokens = s.tokens
  BY <1>2, KeyBalanced, RemoveKeeps
<1>8. KeysOk(r.keys, bound)
  BY <1>4, <1>7 DEF Balanced, Sound
<1>9. KeysOk([r.keys EXCEPT ![Len(s.keys)] = key], bound)
  BY <1>5, <1>6, <1>8, KeysReplaced
<1>10. PICK q : q = [r EXCEPT !.keys[Len(s.keys)] = key, !.byTok = With(@, key.token, Len(s.keys))]
  OBVIOUS
<1>11. DOMAIN r = ScannerFields
  BY <1>7 DEF Balanced, Sound
<1>12. /\ DOMAIN q = ScannerFields /\ q.started = r.started /\ q.mark = r.mark
       /\ q.tokens = r.tokens /\ q.parsed = r.parsed /\ q.indent = r.indent
       /\ q.indents = r.indents /\ q.keys = [r.keys EXCEPT ![Len(s.keys)] = key]
  BY <1>10, <1>11 DEF ScannerFields
<1>13. KeysOk(q.keys, r.parsed + Len(r.tokens))
  BY <1>4, <1>7, <1>9, <1>12
<1>14. Balanced(q, n)
  BY <1>7, <1>12, <1>13 DEF Balanced, Sound
<1> QED BY <1>3, <1>10, <1>14

\* The levels of flow collections.
LEMMA FlowBalanced ==
  ASSUME NEW s, NEW n, Balanced(s, n)
  PROVE  Balanced(IncreaseFlowLevel(s), n) /\ Balanced(DecreaseFlowLevel(s), n)
<1>1. PICK bound : bound = s.parsed + Len(s.tokens)
  OBVIOUS
<1>2. bound \in Nat /\ NextToken(s) = bound /\ KeysOk(s.keys, bound) /\ DOMAIN s = ScannerFields
  BY <1>1, SoundFacts DEF NextToken, Balanced, Sound
<1>3. Balanced(IncreaseFlowLevel(s), n)
  <2>1. PICK key : key = [NoKey EXCEPT !.token = NextToken(s), !.mark = s.mark]
    OBVIOUS
  <2>2. key \in KeySet /\ key.token <= bound
    <3>1. key = [possible |-> FALSE, required |-> FALSE, token |-> bound, mark |-> s.mark]
      BY <1>2, <2>1 DEF NoKey
    <3>2. s.mark \in Positions
      BY DEF Balanced, Sound
    <3> QED BY <1>2, <3>1, <3>2 DEF KeySet
  <2>3. PICK r : r = [s EXCEPT !.keys = Append(@, key)]
    OBVIOUS
  <2>4. /\ DOMAIN r = ScannerFields /\ r.started = s.started /\ r.mark = s.mark
        /\ r.tokens = s.tokens /\ r.parsed = s.parsed /\ r.indent = s.indent
        /\ r.indents = s.indents /\ r.keys = Append(s.keys, key)
    BY <1>2, <2>3 DEF ScannerFields
  <2>5. KeysOk(r.keys, bound)
    BY <1>2, <2>2, <2>4, KeysAppend
  <2>6. Balanced(r, n)
    BY <1>1, <2>4, <2>5 DEF Balanced, Sound
  <2>7. IncreaseFlowLevel(s) = IF FlowLevel(r) > MaxFlowLevel THEN Fail(r, "flow depth") ELSE r
    BY <2>1, <2>3 DEF IncreaseFlowLevel
  <2> QED BY <2>6, <2>7, PlainBalanced
<1>4. CASE FlowLevel(s) = 0
  BY <1>3, <1>4 DEF DecreaseFlowLevel
<1>5. CASE FlowLevel(s) # 0
  <2>1. PICK r : r = [s EXCEPT !.keys = Front(@), !.byTok = Without(@, Last(s.keys).token)]
    OBVIOUS
  <2>2. /\ DOMAIN r = ScannerFields /\ r.started = s.started /\ r.mark = s.mark
        /\ r.tokens = s.tokens /\ r.parsed = s.parsed /\ r.indent = s.indent
        /\ r.indents = s.indents /\ r.keys = Front(s.keys)
    BY <1>2, <2>1 DEF ScannerFields
  <2>3. Len(s.keys) # 1
    BY <1>5, SoundFacts DEF FlowLevel, Balanced
  <2>4. KeysOk(r.keys, bound)
    BY <1>2, <2>2, <2>3, KeysFront
  <2>5. Balanced(r, n)
    BY <1>1, <2>2, <2>4 DEF Balanced, Sound
  <2>6. DecreaseFlowLevel(s) = r
    BY <1>5, <2>1 DEF DecreaseFlowLevel
  <2> QED BY <1>3, <2>5, <2>6
<1> QED BY <1>3, <1>4, <1>5

\* A token put in the queue, and one put at its end.
LEMMA InsertBalanced ==
  ASSUME NEW s, NEW n, Balanced(s, n), NEW t \in TokenSet,
         NEW place \in Int, place <= Len(s.tokens)
  PROVE  /\ Balanced(Insert(s, place, t), n + Weight(t))
         /\ Insert(s, place, t).parsed = s.parsed
         /\ Len(Insert(s, place, t).tokens) = Len(s.tokens) + 1
         /\ Insert(s, place, t).indents = s.indents /\ Insert(s, place, t).indent = s.indent
         /\ Insert(s, place, t).keys = s.keys
<1>1. PICK r, q : r = Insert(s, place, t) /\ q = r.tokens
  OBVIOUS
<1>2. /\ DOMAIN s = ScannerFields /\ s.tokens \in Seq(TokenSet) /\ Len(s.tokens) \in Nat
      /\ s.parsed \in Nat /\ Balance(s.tokens) \in Int /\ Len(s.indents) \in Nat
      /\ n \in Int /\ Balance(s.tokens) - Len(s.indents) = n
  BY SoundFacts DEF Balanced
<1>3. /\ DOMAIN r = ScannerFields /\ r.started = s.started /\ r.mark = s.mark
      /\ r.parsed = s.parsed /\ r.indent = s.indent /\ r.indents = s.indents /\ r.keys = s.keys
      /\ q = IF place < 0 THEN Append(s.tokens, t) ELSE InsertAt(s.tokens, place + 1, t)
  BY <1>1, <1>2 DEF Insert, ScannerFields
<1>4. /\ q \in Seq(TokenSet) /\ Len(q) = Len(s.tokens) + 1
      /\ Balance(q) = Balance(s.tokens) + Weight(t)
  <2>1. CASE place < 0
    <3>1. q = Append(s.tokens, t)
      BY <1>3, <2>1
    <3>2. /\ Append(s.tokens, t) \in Seq(TokenSet)
          /\ Len(Append(s.tokens, t)) = Len(s.tokens) + 1
      BY <1>2, AppendProperties
    <3>3. Balance(Append(s.tokens, t)) = Balance(s.tokens) + Weight(t)
      BY <1>2, BalanceAppend
    <3> QED BY <3>1, <3>2, <3>3
  <2>2. CASE ~(place < 0)
    <3>1. q = InsertAt(s.tokens, place + 1, t)
      BY <1>3, <2>2
    <3>2. place + 1 \in 1..Len(s.tokens) + 1
      BY <1>2, <2>2
    <3>3. /\ InsertAt(s.tokens, place + 1, t) \in Seq(TokenSet)
          /\ Len(InsertAt(s.tokens, place + 1, t)) = Len(s.tokens) + 1
      BY <1>2, <3>2, InsertFacts
    <3>4. Balance(InsertAt(s.tokens, place + 1, t)) = Balance(s.tokens) + Weight(t)
      BY <1>2, <3>2, BalanceInsert
    <3> QED BY <3>1, <3>3, <3>4
  <2> QED BY <2>1, <2>2
<1>5. Weight(t) \in Int
  BY WeightType
<1>6. KeysOk(r.keys, r.parsed + Len(q))
  <2>1. KeysOk(s.keys, s.parsed + Len(s.tokens))
    BY DEF Balanced, Sound
  <2>2. /\ s.parsed + Len(s.tokens) \in Int /\ r.parsed + Len(q) \in Int
        /\ s.parsed + Len(s.tokens) <= r.parsed + Len(q)
    <3>1. /\ s.parsed \in Nat /\ Len(s.tokens) \in Nat
          /\ r.parsed = s.parsed /\ Len(q) = Len(s.tokens) + 1
      BY <1>2, <1>3, <1>4
    <3> QED BY <3>1
  <2> QED BY <1>3, <2>1, <2>2, KeysGrow
<1>7. Sound(r)
  BY <1>1, <1>3, <1>4, <1>6 DEF Balanced, Sound
<1>8. n + Weight(t) \in Int /\ Balance(r.tokens) - Len(r.indents) = n + Weight(t)
  BY <1>1, <1>2, <1>3, <1>4, <1>5
<1> QED BY <1>1, <1>3, <1>4, <1>7, <1>8 DEF Balanced

LEMMA AddBalanced ==
  ASSUME NEW s, NEW n, Balanced(s, n), NEW type \in TokenTypes \ BlockTokens, NEW v \in ReadSet
  PROVE  Balanced(Add(s, type, v), n)
<1>1. PICK t : t = Token(type, v)
  OBVIOUS
<1>2. t \in TokenSet /\ Weight(t) = 0
  BY <1>1, TokenFacts
<1>3. -1 \in Int /\ -1 <= Len(s.tokens) /\ n \in Int
  BY SoundFacts DEF Balanced
<1>4. Balanced(Insert(s, -1, t), n + Weight(t))
  BY <1>2, <1>3, InsertBalanced
<1>5. n + Weight(t) = n
  BY <1>2, <1>3
<1> QED BY <1>1, <1>4, <1>5 DEF Add

\* A level more.
LEMMA PushBalanced ==
  ASSUME NEW s, NEW n, Balanced(s, n), NEW col \in Int
  PROVE  LET r == [s EXCEPT !.indents = Append(@, s.indent), !.indent = col]
         IN /\ Balanced(r, n - 1)
            /\ r.parsed = s.parsed /\ r.tokens = s.tokens /\ r.keys = s.keys
<1>1. PICK r : r = [s EXCEPT !.indents = Append(@, s.indent), !.indent = col]
  OBVIOUS
<1>2. /\ DOMAIN s = ScannerFields /\ s.indents \in Seq(Int) /\ s.indent \in Int
      /\ Balance(s.tokens) \in Int /\ Len(s.indents) \in Nat
      /\ n \in Int /\ Balance(s.tokens) - Len(s.indents) = n
  BY SoundFacts DEF Balanced
<1>3. /\ DOMAIN r = ScannerFields /\ r.started = s.started /\ r.mark = s.mark
      /\ r.tokens = s.tokens /\ r.parsed = s.parsed /\ r.keys = s.keys
      /\ r.indents = Append(s.indents, s.indent) /\ r.indent = col
  BY <1>1, <1>2 DEF ScannerFields
<1>4. /\ r.indents \in Seq(Int) /\ Len(r.indents) = Len(s.indents) + 1
      /\ \A i \in 1..Len(s.indents) : r.indents[i] = s.indents[i]
      /\ r.indents[Len(s.indents) + 1] = s.indent
  BY <1>2, <1>3, AppendProperties
<1>5. Rooted(r.indents, r.indent)
  <2>1. Rooted(s.indents, s.indent)
    BY DEF Balanced, Sound
  <2>2. r.indents # <<>>
    BY <1>2, <1>4
  <2>3. r.indents[1] = -1
    <3>1. CASE s.indents = <<>>
      <4>1. Len(s.indents) = 0 /\ s.indent = -1
        BY <2>1, <3>1 DEF Rooted
      <4> QED BY <1>4, <4>1
    <3>2. CASE s.indents # <<>>
      <4>1. 1 \in 1..Len(s.indents) /\ s.indents[1] = -1
        BY <1>2, <2>1, <3>2 DEF Rooted
      <4> QED BY <1>4, <4>1
    <3> QED BY <3>1, <3>2
  <2> QED BY <2>2, <2>3 DEF Rooted
<1>6. Sound(r)
  BY <1>2, <1>3, <1>4, <1>5 DEF Balanced, Sound
<1>7. n - 1 \in Int /\ Balance(r.tokens) - Len(r.indents) = n - 1
  BY <1>2, <1>3, <1>4
<1> QED BY <1>1, <1>3, <1>6, <1>7 DEF Balanced

\* A block begins: its token is put in the queue.
LEMMA RollBalanced ==
  ASSUME NEW s, NEW n, Balanced(s, n), NEW col \in Int, NEW type \in BlockStarts,
         NEW number \in Int, number <= s.parsed + Len(s.tokens)
  PROVE  Balanced(RollIndent(s, col, number, type), n)
<1>1. PICK p : p = [s EXCEPT !.indents = Append(@, s.indent), !.indent = col]
  OBVIOUS
<1>2. Balanced(p, n - 1) /\ p.parsed = s.parsed /\ p.tokens = s.tokens
  BY <1>1, PushBalanced
<1>3. PICK t : t = Token(type, Empty)
  OBVIOUS
<1>4. t \in TokenSet /\ Weight(t) = 1
  <2>1. type \in TokenTypes
    BY DEF TokenTypes, BlockTokens
  <2> QED BY <1>3, <2>1, EmptyValue, TokenFacts
<1>5. PICK place : place = IF number > -1 THEN number - s.parsed ELSE number
  OBVIOUS
<1>6. place \in Int /\ place <= Len(p.tokens) /\ n \in Int
  <2>1. s.parsed \in Nat /\ Len(s.tokens) \in Nat /\ n \in Int
    BY SoundFacts DEF Balanced
  <2> QED BY <1>2, <1>5, <2>1
<1>7. PICK r : r = Insert(p, place, t)
  OBVIOUS
<1>8. Balanced(r, (n - 1) + Weight(t))
  BY <1>2, <1>4, <1>6, <1>7, InsertBalanced
<1>9. Balanced(r, n)
  BY <1>4, <1>6, <1>8
<1>10. RollIndent(s, col, number, type) =
         IF FlowLevel(s) > 0 \/ s.indent >= col THEN s
         ELSE IF Len(r.indents) > MaxIndents THEN Fail(r, "indent depth") ELSE r
  BY <1>1, <1>3, <1>5, <1>7 DEF RollIndent
<1> QED BY <1>9, <1>10, PlainBalanced

\* A set of numbers that are not above m has a largest element.
LEMMA LargestOf ==
  ASSUME NEW m \in Nat, NEW S, S \subseteq 1..m, S # {}
  PROVE  \E x \in S : \A y \in S : y <= x
<1>1. PICK D : D = {m - x : x \in S}
  OBVIOUS
<1>2. D \subseteq Nat /\ D # {}
  <2>1. \A x \in S : m - x \in Nat
    OBVIOUS
  <2>2. D \subseteq Nat
    BY <1>1, <2>1
  <2>3. PICK x : x \in S
    OBVIOUS
  <2>4. m - x \in D
    BY <1>1, <2>3
  <2> QED BY <2>2, <2>4
<1> DEFINE Less == OpToRel(<, Nat)
<1>3. Less = {p \in Nat \X Nat : p[1] < p[2]}
  BY DEF OpToRel
<1>4. IsWellFoundedOn(Less, Nat)
  BY NatLessThanWellFounded
<1> HIDE DEF Less
<1>5. PICK d \in D : \A e \in D : <<e, d>> \notin Less
  BY <1>2, <1>4, WFMin
<1>6. \A e \in D : ~(e < d)
  BY <1>2, <1>3, <1>5
<1>7. PICK x \in S : d = m - x
  BY <1>1
<1>8. \A y \in S : y <= x
  <2> TAKE y \in S
  <2>1. m - y \in D
    BY <1>1
  <2>2. ~(m - y < m - x)
    BY <1>6, <1>7, <2>1
  <2>3. x \in 1..m /\ y \in 1..m
    OBVIOUS
  <2> QED BY <2>2, <2>3
<1> QED BY <1>8

\* The level to go back to: the innermost one not right of the column.
LEMMA LevelKept ==
  ASSUME NEW levels, NEW m \in Nat, m >= 1, NEW col \in Int, NEW keep,
         \A k \in 1..m : levels[k] \in Int, levels[1] <= col,
         keep = CHOOSE k \in 1..m :
                  /\ levels[k] <= col
                  /\ \A l \in k + 1..m : levels[l] > col
  PROVE  keep \in 1..m
<1>1. PICK S : S = {k \in 1..m : levels[k] <= col}
  OBVIOUS
<1>2. S \subseteq 1..m /\ S # {}
  <2>1. 1 \in 1..m
    OBVIOUS
  <2> QED BY <1>1, <2>1
<1>3. PICK x \in S : \A y \in S : y <= x
  BY <1>2, LargestOf
<1>4. x \in 1..m /\ levels[x] <= col
  BY <1>1
<1>5. \A l \in x + 1..m : levels[l] > col
  <2> TAKE l \in x + 1..m
  <2>1. l \in 1..m /\ ~(l <= x)
    BY <1>4
  <2>2. l \notin S
    BY <1>3, <2>1
  <2>3. levels[l] \in Int /\ ~(levels[l] <= col)
    BY <1>1, <2>1, <2>2
  <2> QED BY <2>3
<1> QED BY <1>4, <1>5

\* Blocks that begin or end change the queue and the levels of indentation alone.
Lengthened(s, q) ==
  /\ q.keys = s.keys /\ q.byTok = s.byTok /\ q.mark = s.mark /\ q.parsed = s.parsed
  /\ q.available = s.available /\ q.allowed = s.allowed
  /\ q.error = "none" => s.error = "none"
  /\ Len(s.tokens) <= Len(q.tokens)

\* The blocks right of the column end: a token for each of them.
LEMMA UnrollBalanced ==
  ASSUME NEW s, NEW n, Balanced(s, n), NEW col \in Int, -1 <= col
  PROVE  /\ Balanced(UnrollIndent(s, col), n)
         /\ Lengthened(s, UnrollIndent(s, col)) /\ UnrollIndent(s, col).error = s.error
<1>1. /\ DOMAIN s = ScannerFields /\ s.tokens \in Seq(TokenSet) /\ Len(s.tokens) \in Nat
      /\ s.parsed \in Nat /\ s.indents \in Seq(Int) /\ s.indent \in Int
      /\ Balance(s.tokens) \in Int /\ Len(s.indents) \in Nat
      /\ n \in Int /\ Balance(s.tokens) - Len(s.indents) = n
  BY SoundFacts DEF Balanced
<1>2. PICK levels, m : levels = Append(s.indents, s.indent) /\ m = Len(s.indents) + 1
  OBVIOUS
<1>3. /\ levels \in Seq(Int) /\ Len(levels) = m /\ m \in Nat /\ m >= 1
      /\ \A i \in 1..m : levels[i] \in Int
      /\ \A i \in 1..Len(s.indents) : levels[i] = s.indents[i]
      /\ levels[m] = s.indent
  <2>1. /\ levels \in Seq(Int) /\ Len(levels) = m
        /\ \A i \in 1..Len(s.indents) : levels[i] = s.indents[i]
        /\ levels[m] = s.indent
    BY <1>1, <1>2, AppendProperties
  <2>2. m \in Nat /\ m >= 1
    BY <1>1, <1>2
  <2> QED BY <2>1, <2>2, ElementOfSeq
<1>4. levels[1] = -1
  <2>1. Rooted(s.indents, s.indent)
    BY DEF Balanced, Sound
  <2>2. CASE s.indents = <<>>
    <3>1. m = 1 /\ s.indent = -1
      BY <1>2, <2>1, <2>2 DEF Rooted
    <3> QED BY <1>3, <3>1
  <2>3. CASE s.indents # <<>>
    <3>1. 1 \in 1..Len(s.indents) /\ s.indents[1] = -1
      BY <1>1, <2>1, <2>3 DEF Rooted
    <3> QED BY <1>3, <3>1
  <2> QED BY <2>2, <2>3
<1>5. PICK keep : keep = CHOOSE k \in 1..m :
                           /\ levels[k] <= col
                           /\ \A l \in k + 1..m : levels[l] > col
  OBVIOUS
<1>6. keep \in 1..m
  <2>1. levels[1] <= col /\ \A k \in 1..m : levels[k] \in Int
    BY <1>3, <1>4
  <2>2. m \in Nat /\ m >= 1
    BY <1>3
  <2> QED BY <1>5, <2>1, <2>2, LevelKept, Zenon
<1>7. PICK ends, r :
        /\ ends = [k \in 1..m - keep |-> Token("block-end", Empty)]
        /\ r = [s EXCEPT !.indent = levels[keep], !.indents = SubSeq(levels, 1, keep - 1),
                         !.tokens = s.tokens \o ends]
  OBVIOUS
<1>8. UnrollIndent(s, col) = IF FlowLevel(s) > 0 THEN s ELSE r
  BY <1>2, <1>3, <1>5, <1>7 DEF UnrollIndent
<1>9. /\ DOMAIN r = ScannerFields /\ r.started = s.started /\ r.mark = s.mark
      /\ r.parsed = s.parsed /\ r.keys = s.keys
      /\ r.indent = levels[keep] /\ r.indents = SubSeq(levels, 1, keep - 1)
      /\ r.tokens = s.tokens \o ends
  BY <1>1, <1>7 DEF ScannerFields
<1>10. /\ r.indents \in Seq(Int) /\ Len(r.indents) = keep - 1
       /\ \A i \in 1..keep - 1 : r.indents[i] = levels[i]
  <2>1. \A i \in 1..keep - 1 : levels[i] \in Int
    BY <1>3, <1>6
  <2>2. /\ SubSeq(levels, 1, keep - 1) \in Seq(Int)
        /\ Len(SubSeq(levels, 1, keep - 1)) = IF 1 <= keep - 1 THEN keep - 1 - 1 + 1 ELSE 0
        /\ \A i \in 1..(keep - 1) - 1 + 1 : SubSeq(levels, 1, keep - 1)[i] = levels[1 + i - 1]
    BY <1>3, <1>6, <2>1, SubSeqProperties
  <2> QED BY <1>3, <1>6, <1>9, <2>2
<1>11. Rooted(r.indents, r.indent)
  <2>1. CASE keep = 1
    <3>1. r.indents = <<>> /\ r.indent = -1
      BY <1>4, <1>9, <1>10, <2>1
    <3> QED BY <3>1 DEF Rooted
  <2>2. CASE keep # 1
    <3>1. 1 \in 1..keep - 1
      BY <1>6, <2>2
    <3>2. r.indents[1] = -1 /\ r.indents # <<>>
      BY <1>4, <1>10, <3>1
    <3> QED BY <3>2 DEF Rooted
  <2> QED BY <2>1, <2>2
<1>12. /\ r.tokens \in Seq(TokenSet) /\ Len(r.tokens) = Len(s.tokens) + (m - keep)
       /\ Balance(r.tokens) = Balance(s.tokens) - (m - keep)
  <2>1. m - keep \in Nat
    BY <1>3, <1>6
  <2>2. ends = [k \in 1..m - keep |-> Token("block-end", Empty)]
    BY <1>7
  <2> QED BY <1>1, <1>9, <2>1, <2>2, BalanceEnds
<1>13. KeysOk(r.keys, r.parsed + Len(r.tokens))
  <2>1. KeysOk(s.keys, s.parsed + Len(s.tokens))
    BY DEF Balanced, Sound
  <2>2. /\ s.parsed + Len(s.tokens) \in Int /\ r.parsed + Len(r.tokens) \in Int
        /\ s.parsed + Len(s.tokens) <= r.parsed + Len(r.tokens)
    <3>1. /\ s.parsed \in Nat /\ Len(s.tokens) \in Nat /\ m - keep \in Nat
          /\ r.parsed = s.parsed /\ Len(r.tokens) = Len(s.tokens) + (m - keep)
      BY <1>1, <1>3, <1>6, <1>9, <1>12
    <3> QED BY <3>1
  <2> QED BY <1>9, <2>1, <2>2, KeysGrow
<1>14. levels[keep] \in Int
  BY <1>3, <1>6
<1>15. Sound(r)
  BY <1>1, <1>9, <1>10, <1>11, <1>12, <1>13, <1>14 DEF Balanced, Sound
<1>16. Balance(r.tokens) - Len(r.indents) = n
  <2>1. /\ Balance(r.tokens) = Balance(s.tokens) - (m - keep) /\ Len(r.indents) = keep - 1
        /\ m = Len(s.indents) + 1 /\ keep \in Int /\ Len(s.indents) \in Int
        /\ Balance(s.tokens) \in Int /\ Balance(s.tokens) - Len(s.indents) = n
    BY <1>1, <1>2, <1>6, <1>10, <1>12
  <2> QED BY <2>1
<1>17. Balanced(r, n)
  BY <1>1, <1>15, <1>16 DEF Balanced
<1>18. Lengthened(s, s) /\ Lengthened(s, r) /\ r.error = s.error
  <2>1. /\ r.byTok = s.byTok /\ r.available = s.available /\ r.allowed = s.allowed
        /\ r.error = s.error
    BY <1>1, <1>7 DEF ScannerFields
  <2>2. Len(s.tokens) <= Len(r.tokens)
    BY <1>1, <1>3, <1>6, <1>12
  <2> QED BY <1>1, <1>9, <2>1, <2>2 DEF Lengthened
<1> QED BY <1>8, <1>17, <1>18

\* The parts of a lexeme; its kind names no token of a block.
LEMMA LexemeFacts ==
  ASSUME NEW x \in LexemeSet
  PROVE  /\ x.line \in Nat /\ x.col \in Nat /\ x.down \in Nat /\ x.width \in Nat
         /\ x.inner \in Nat /\ x.hint \in Nat
         /\ x.value.text \in Words /\ x.value.lead \in Nat /\ x.value.final \in Nat
         /\ x.value \in ScalarSet /\ x.value \in ReadSet /\ x.kind \in Kinds \cup {"end"}
BY DEF LexemeSet, ScalarSet, ReadSet

LEMMA KindTypes ==
  /\ Kinds \subseteq TokenTypes \ BlockTokens
  /\ {"stream-start", "stream-end", "scalar"} \subseteq TokenTypes \ BlockTokens
  /\ {",", "-", "?", ":"} \subseteq TokenTypes \ BlockTokens
<1>1. \A k \in Kinds : k \notin BlockTokens
  BY DEF Kinds, Indicators, BlockTokens, BlockStarts
<1>2. \A k \in {"stream-start", "stream-end", "scalar"} : k \notin BlockTokens
  BY DEF BlockTokens, BlockStarts
<1>3. {",", "-", "?", ":"} \subseteq Kinds
  BY DEF Kinds, Indicators
<1> QED BY <1>1, <1>2, <1>3 DEF TokenTypes

\* Back at the left margin, or where a block may begin.
LEMMA OpenedBalanced ==
  ASSUME NEW s, NEW n, Balanced(s, n)
  PROVE  /\ Balanced(Reset(s), n)
         /\ \A x \in LexemeSet, type \in BlockStarts : Balanced(Opened(s, x, type), n)
<1>1. Balanced(UnrollIndent(s, -1), n)
  BY UnrollBalanced
<1>2. Balanced(Reset(s), n)
  BY <1>1, KeyBalanced, PlainBalanced DEF Reset
<1>3. ASSUME NEW x \in LexemeSet, NEW type \in BlockStarts
      PROVE  Balanced(Opened(s, x, type), n)
  <2>1. x.col \in Int /\ -1 \in Int /\ -1 <= s.parsed + Len(s.tokens)
    BY LexemeFacts, SoundFacts DEF Balanced
  <2>2. Balanced(RollIndent(s, x.col, -1, type), n)
    BY <2>1, RollBalanced
  <2> QED BY <2>2, PlainBalanced DEF Opened
<1> QED BY <1>2, <1>3

\* What is read of a block scalar.
LEMMA ScannedType ==
  ASSUME NEW s, NEW x \in LexemeSet, s.indent \in Int
  PROVE  Scanned(s, x) \in ReadSet
<1>1. /\ x.inner \in Nat /\ x.hint \in Nat /\ x.value.text \in Words
      /\ x.value.lead \in Nat /\ x.value.final \in Nat
  BY LexemeFacts
<1>2. ContentIndent(s, x) \in Int
  BY <1>1 DEF ContentIndent
<1>3. PICK a, b : /\ a = x.inner + x.value.lead - ContentIndent(s, x)
                  /\ b = CASE x.chomp = -1 -> 0 [] x.chomp = 1 -> x.value.final
                           [] OTHER -> IF x.value.final > 0 THEN 1 ELSE 0
  OBVIOUS
<1>4. a \in Int
  BY <1>1, <1>2, <1>3
<1>5. b \in Int
  <2>1. CASE x.chomp = -1
    BY <1>3, <2>1
  <2>2. CASE x.chomp = 1
    BY <1>1, <1>3, <2>2
  <2>3. CASE x.chomp # -1 /\ x.chomp # 1
    BY <1>3, <2>3
  <2> QED BY <2>1, <2>2, <2>3
<1>6. [x.value EXCEPT !.lead = a, !.final = b] \in ReadSet
  <2>1. x.value \in ScalarSet
    BY LexemeFacts
  <2> QED BY <1>4, <1>5, <2>1 DEF ScalarSet, ReadSet
<1>7. Scanned(s, x) = IF ~Taken(s, x) THEN Empty ELSE [x.value EXCEPT !.lead = a, !.final = b]
  <2>1. DOMAIN x.value = {"text", "lead", "final", "breaks", "tab"}
    BY LexemeFacts DEF ScalarSet
  <2> QED BY <1>3, <2>1 DEF Scanned
<1> QED BY <1>6, <1>7, EmptyValue

\* The fetchers of the stream's ends, of directives and of document indicators.
LEMMA StreamBalanced ==
  ASSUME NEW s, NEW n, Balanced(s, n)
  PROVE  /\ Balanced(FetchStreamEnd(s), n)
         /\ \A x \in LexemeSet : Balanced(FetchDirective(s, x), n)
         /\ \A x \in LexemeSet : x.kind \in Kinds => Balanced(FetchDocumentIndicator(s, x), n)
<1>1. Balanced(FetchStreamEnd(s), n)
  <2>1. PICK line : line = IF s.mark.col = 0 THEN s.mark.line ELSE s.mark.line + 1
    OBVIOUS
  <2>2. Mark(line, 0) \in Positions
    <3>1. s.mark.line \in Nat /\ s.mark.line + 1 \in Nat
      BY SoundFacts DEF Balanced
    <3>2. line \in Nat /\ 0 \in Nat
      BY <2>1, <3>1
    <3> QED BY <3>2, MarkType
  <2>3. Balanced([s EXCEPT !.mark = Mark(line, 0)], n)
    BY <2>2, PlainBalanced
  <2>4. Balanced(Reset([s EXCEPT !.mark = Mark(line, 0)]), n)
    BY <2>3, OpenedBalanced
  <2> QED BY <2>1, <2>4, AddBalanced, KindTypes, EmptyValue DEF FetchStreamEnd
<1>2. Balanced(Reset(s), n)
  BY OpenedBalanced
<1>3. ASSUME NEW x \in LexemeSet PROVE Balanced(FetchDirective(s, x), n)
  <2>1. Balanced(Past(Reset(s), x), n)
    BY <1>2, PastBalanced
  <2>2. "directive" \in TokenTypes \ BlockTokens /\ x.value \in ReadSet
    <3>1. "directive" \in Kinds
      BY DEF Kinds
    <3> QED BY <3>1, KindTypes, LexemeFacts
  <2>3. Balanced(Add(Past(Reset(s), x), "directive", x.value), n)
    BY <2>1, <2>2, AddBalanced
  <2> QED BY <2>3, PlainBalanced DEF FetchDirective
<1>4. ASSUME NEW x \in LexemeSet, x.kind \in Kinds PROVE Balanced(FetchDocumentIndicator(s, x), n)
  <2>1. Balanced(Past(Reset(s), x), n)
    BY <1>2, PastBalanced
  <2>2. x.kind \in TokenTypes \ BlockTokens
    BY <1>4, KindTypes
  <2> QED BY <2>1, <2>2, AddBalanced, EmptyValue DEF FetchDocumentIndicator
<1> QED BY <1>1, <1>3, <1>4

\* The fetchers of what stands in a document.
LEMMA FlowFetched ==
  ASSUME NEW s, NEW n, Balanced(s, n), NEW x \in LexemeSet, x.kind \in Kinds
  PROVE  /\ Balanced(FetchFlowStart(s, x), n) /\ Balanced(FetchFlowEnd(s, x), n)
         /\ Balanced(FetchFlowEntry(s, x), n)
<1>1. x.kind \in TokenTypes \ BlockTokens /\ "," \in TokenTypes \ BlockTokens /\ Empty \in ReadSet
  BY KindTypes, EmptyValue
<1>2. Balanced(Past(Allow(IncreaseFlowLevel(SaveSimpleKey(s)), TRUE), x), n)
  BY SaveBalanced, FlowBalanced, PlainBalanced, PastBalanced
<1>3. Balanced(Past(Allow(DecreaseFlowLevel(RemoveSimpleKey(s)), FALSE), x), n)
  BY KeyBalanced, FlowBalanced, PlainBalanced, PastBalanced
<1>4. Balanced(Past(Allow(RemoveSimpleKey(s), TRUE), x), n)
  BY KeyBalanced, PlainBalanced, PastBalanced
<1> QED BY <1>1, <1>2, <1>3, <1>4, AddBalanced DEF FetchFlowStart, FetchFlowEnd, FetchFlowEntry

LEMMA EntryFetched ==
  ASSUME NEW s, NEW n, Balanced(s, n), NEW x \in LexemeSet
  PROVE  Balanced(FetchBlockEntry(s, x), n) /\ Balanced(FetchKey(s, x), n)
<1>1. \A type \in {"-", "?"} : type \in TokenTypes \ BlockTokens
  BY KindTypes
<1>2. \A type \in BlockStarts : Balanced(Opened(s, x, type), n)
  BY OpenedBalanced
<1>3. "block-sequence-start" \in BlockStarts /\ "block-mapping-start" \in BlockStarts
  BY DEF BlockStarts
<1>4. /\ Balanced(Past(Allow(RemoveSimpleKey(Opened(s, x, "block-sequence-start")), TRUE), x), n)
      /\ \A b : Balanced(Past(Allow(RemoveSimpleKey(Opened(s, x, "block-mapping-start")), b), x), n)
  BY <1>2, <1>3, KeyBalanced, PlainBalanced, PastBalanced
<1> QED BY <1>1, <1>4, AddBalanced, EmptyValue DEF FetchBlockEntry, FetchKey

LEMMA ScalarFetched ==
  ASSUME NEW s, NEW n, Balanced(s, n), NEW x \in LexemeSet
  PROVE  /\ Balanced(FetchBlockScalar(s, x), n) /\ Balanced(FetchQuoted(s, x), n)
         /\ Balanced(FetchPlain(s, x), n)
         /\ x.kind \in Kinds => Balanced(FetchProperty(s, x), n)
<1>1. "scalar" \in TokenTypes \ BlockTokens /\ x.value \in ReadSet
  BY KindTypes, LexemeFacts
<1>2. \A b : Balanced(Past(Allow(SaveSimpleKey(s), b), x), n)
  BY SaveBalanced, PlainBalanced, PastBalanced
<1>3. Balanced(FetchQuoted(s, x), n) /\ Balanced(FetchPlain(s, x), n)
  BY <1>1, <1>2, AddBalanced DEF FetchQuoted, FetchPlain
<1>4. x.kind \in Kinds => Balanced(FetchProperty(s, x), n)
  BY <1>1, <1>2, AddBalanced, KindTypes DEF FetchProperty
<1>5. Balanced(FetchBlockScalar(s, x), n)
  <2>1. PICK below : below = IF Taken(s, x) THEN x.line + x.down ELSE x.line + 1
    OBVIOUS
  <2>2. below \in Nat /\ 0 \in Nat
    BY <2>1, LexemeFacts
  <2>7. PICK r : r = IF TabIndents(s, x) THEN Fail(s, "found a tab character") ELSE s
    OBVIOUS
  <2>8. Balanced(r, n)
    BY <2>7, PlainBalanced
  <2>3. Balanced(Allow(RemoveSimpleKey(r), TRUE), n) /\ Mark(below, 0) \in Positions
    BY <2>2, <2>8, KeyBalanced, PlainBalanced, MarkType
  <2>4. Balanced([Allow(RemoveSimpleKey(r), TRUE) EXCEPT !.mark = Mark(below, 0)], n)
    BY <2>3, PlainBalanced
  <2>5. s.indent \in Int
    BY SoundFacts DEF Balanced
  <2>6. Scanned(s, x) \in ReadSet
    BY <2>5, ScannedType
  <2> QED BY <1>1, <2>1, <2>4, <2>6, <2>7, AddBalanced DEF FetchBlockScalar
<1> QED BY <1>3, <1>4, <1>5

LEMMA ValueFetched ==
  ASSUME NEW s, NEW n, Balanced(s, n), NEW x \in LexemeSet
  PROVE  Balanced(FetchValue(s, x), n)
<1>1. PICK level, key, t :
        level = Len(s.keys) /\ key = s.keys[level] /\ t = Token("?", Empty)
  OBVIOUS
<1>2. /\ s.parsed \in Nat /\ Len(s.tokens) \in Nat /\ n \in Int
      /\ s.keys \in Seq(KeySet) /\ level \in 1..Len(s.keys)
  BY <1>1, SoundFacts DEF Balanced
<1>3. key \in KeySet /\ key.token <= s.parsed + Len(s.tokens)
  <2>1. key \in KeySet
    BY <1>1, <1>2, ElementOfSeq
  <2>2. KeysOk(s.keys, s.parsed + Len(s.tokens))
    BY DEF Balanced, Sound
  <2> QED BY <1>1, <1>2, <2>1, <2>2 DEF KeysOk
<1>4. key.token \in Nat /\ key.mark.col \in Int
  BY <1>3 DEF KeySet, Positions
<1>5. t \in TokenSet /\ Weight(t) = 0
  BY <1>1, KindTypes, EmptyValue, TokenFacts
<1>6. PICK i : i = Insert(s, key.token - s.parsed, t)
  OBVIOUS
<1>7. /\ Balanced(i, n + Weight(t)) /\ i.parsed = s.parsed
      /\ Len(i.tokens) = Len(s.tokens) + 1
  <2>1. key.token - s.parsed \in Int /\ key.token - s.parsed <= Len(s.tokens)
    BY <1>2, <1>3, <1>4
  <2> QED BY <1>5, <1>6, <2>1, InsertBalanced
<1>8. Balanced(i, n)
  <2>1. n + Weight(t) = n
    BY <1>2, <1>5
  <2> QED BY <1>7, <2>1
<1>9. PICK simple : simple = RollIndent(i, key.mark.col, key.token, "block-mapping-start")
  OBVIOUS
<1>10. "block-mapping-start" \in BlockStarts
  BY DEF BlockStarts
<1>11. Balanced(simple, n)
  <2>1. key.token \in Int /\ key.token <= i.parsed + Len(i.tokens)
    BY <1>2, <1>3, <1>4, <1>7
  <2> QED BY <1>4, <1>8, <1>9, <1>10, <2>1, RollBalanced
<1>12. Balanced(Allow(Drop(simple, level), FALSE), n)
  BY <1>11, KeyBalanced, PlainBalanced
<1>13. \A b : Balanced(Allow(Opened(Expire(s, level), x, "block-mapping-start"), b), n)
  BY <1>10, KeyBalanced, OpenedBalanced, PlainBalanced
<1>14. PICK q : q = IF Alive(s, key) THEN Allow(Drop(simple, level), FALSE)
                    ELSE Allow(Opened(Expire(s, level), x, "block-mapping-start"), InBlock(s))
  OBVIOUS
<1>15. Balanced(Past(q, x), n)
  BY <1>12, <1>13, <1>14, PastBalanced
<1>16. FetchValue(s, x) = Add(Past(q, x), ":", Empty)
  BY <1>1, <1>6, <1>9, <1>14 DEF FetchValue
<1>17. ":" \in TokenTypes \ BlockTokens
  BY KindTypes
<1> QED BY <1>15, <1>16, <1>17, AddBalanced, EmptyValue

\* Every token after the first one; the first one; and what the parser is given.
LEMMA FetchBalanced ==
  ASSUME NEW s, NEW n, Balanced(s, n), NEW x \in LexemeSet
  PROVE  Balanced(FetchNextToken(s, x), n)
<1>1. PICK r : r = UnrollIndent(Reached(s, x), x.col)
  OBVIOUS
<1>2. Balanced(r, n)
  <2>1. x.col \in Int /\ -1 <= x.col
    BY LexemeFacts
  <2>2. Balanced(Reached(s, x), n)
    BY PastBalanced
  <2> QED BY <1>1, <2>1, <2>2, UnrollBalanced
<1>3. Balanced(FetchStreamEnd([r EXCEPT !.ended = TRUE]), n)
  BY <1>2, PlainBalanced, StreamBalanced
<1>4. Balanced(FetchDirective(r, x), n)
  BY <1>2, StreamBalanced
<1>5. x.kind \in Kinds => Balanced(FetchDocumentIndicator(r, x), n)
  BY <1>2, StreamBalanced
<1>6. x.kind \in Kinds => /\ Balanced(FetchFlowStart(r, x), n) /\ Balanced(FetchFlowEnd(r, x), n)
                          /\ Balanced(FetchFlowEntry(r, x), n)
  BY <1>2, FlowFetched
<1>7. Balanced(FetchBlockEntry(r, x), n) /\ Balanced(FetchKey(r, x), n)
  BY <1>2, EntryFetched
<1>8. Balanced(FetchValue(r, x), n)
  BY <1>2, ValueFetched
<1>9. /\ Balanced(FetchBlockScalar(r, x), n) /\ Balanced(FetchQuoted(r, x), n)
      /\ Balanced(FetchPlain(r, x), n)
      /\ x.kind \in Kinds => Balanced(FetchProperty(r, x), n)
  BY <1>2, ScalarFetched
<1>10. s.started
  BY DEF Balanced, Sound
<1>11. CASE x.kind = "end"
  BY <1>1, <1>3, <1>10, <1>11 DEF FetchNextToken
<1>12. CASE x.kind # "end"
  <2>1. x.kind \in Kinds
    BY <1>12, LexemeFacts
  <2>2. FetchNextToken(s, x) \in
          {FetchDirective(r, x), FetchDocumentIndicator(r, x),
           FetchFlowStart(r, x), FetchFlowEnd(r, x), FetchFlowEntry(r, x), FetchBlockEntry(r, x),
           FetchKey(r, x), FetchValue(r, x), FetchBlockScalar(r, x), FetchQuoted(r, x),
           FetchPlain(r, x), FetchProperty(r, x)}
    BY <1>1, <1>10, <1>12 DEF FetchNextToken
  <2> QED BY <1>4, <1>5, <1>6, <1>7, <1>8, <1>9, <2>1, <2>2
<1> QED BY <1>11, <1>12

LEMMA StartBalanced == Balanced(FetchStreamStart(NewScanner), 0)
<1>1. PICK t, q, r :
        /\ t = Token("stream-start", Empty)
        /\ q = [NewScanner EXCEPT !.keys = <<NoKey>>, !.allowed = TRUE, !.started = TRUE]
        /\ r = Insert(q, -1, t)
  OBVIOUS
<1>2. FetchStreamStart(NewScanner) = r
  BY <1>1 DEF FetchStreamStart, Add
<1>3. /\ DOMAIN r = ScannerFields /\ r.started /\ r.mark = Mark(0, 0) /\ r.tokens = <<t>>
      /\ r.parsed = 0 /\ r.indent = -1 /\ r.indents = <<>> /\ r.keys = <<NoKey>>
  <2>1. /\ DOMAIN q = ScannerFields /\ q.started /\ q.mark = Mark(0, 0) /\ q.tokens = <<>>
        /\ q.parsed = 0 /\ q.indent = -1 /\ q.indents = <<>> /\ q.keys = <<NoKey>>
    BY <1>1 DEF NewScanner, ScannerFields
  <2>2. /\ DOMAIN r = DOMAIN q /\ r.started = q.started /\ r.mark = q.mark
        /\ r.parsed = q.parsed /\ r.indent = q.indent /\ r.indents = q.indents
        /\ r.keys = q.keys /\ r.tokens = Append(q.tokens, t)
    BY <1>1, <2>1 DEF Insert, ScannerFields
  <2>3. Append(<<>>, t) = <<t>>
    OBVIOUS
  <2> QED BY <2>1, <2>2, <2>3
<1>4. t \in TokenSet /\ Weight(t) = 0
  BY <1>1, KindTypes, EmptyValue, TokenFacts
<1>5. r.tokens \in Seq(TokenSet) /\ Len(r.tokens) = 1 /\ Balance(r.tokens) = 0
  <2>1. PICK none : none = <<>>
    OBVIOUS
  <2>2. none \in Seq(TokenSet) /\ Append(none, t) = r.tokens
    BY <1>3, <2>1
  <2>3. Balance(none) = 0
    <3>1. Count(Openers, none) = 0 /\ Count(Closers, none) = 0
      BY <2>1, CountOne
    <3> QED BY <3>1 DEF Balance
  <2>4. Balance(r.tokens) = Balance(none) + Weight(t)
    BY <1>4, <2>2, BalanceAppend
  <2>5. r.tokens \in Seq(TokenSet) /\ Len(r.tokens) = 1
    BY <1>3, <1>4
  <2> QED BY <1>4, <2>3, <2>4, <2>5
<1>6. KeysOk(r.keys, r.parsed + Len(r.tokens))
  <2>1. PICK key : key = NoKey
    OBVIOUS
  <2>2. key \in KeySet /\ key.token = 0
    <3>1. Mark(0, 0) \in Positions
      BY MarkType
    <3> QED BY <2>1, <3>1 DEF NoKey, KeySet
  <2>3. r.keys \in Seq(KeySet) /\ Len(r.keys) = 1 /\ r.keys[1] = key
    BY <1>3, <2>1, <2>2
  <2>4. \A i \in 1..1 : r.keys[i].token <= 1
    BY <2>2, <2>3
  <2>5. r.parsed + Len(r.tokens) = 1
    BY <1>3, <1>5
  <2> QED BY <2>3, <2>4, <2>5 DEF KeysOk
<1>7. Rooted(r.indents, r.indent) /\ r.indents \in Seq(Int) /\ Len(r.indents) = 0
  BY <1>3 DEF Rooted
<1>8. r.mark \in Positions
  BY <1>3, MarkType
<1>9. Sound(r)
  <2>1. r.parsed \in Nat /\ r.indent \in Int
    BY <1>3
  <2> QED BY <1>3, <1>5, <1>6, <1>7, <1>8, <2>1 DEF Sound
<1>10. Balance(r.tokens) - Len(r.indents) = 0
  BY <1>5, <1>7
<1> QED BY <1>2, <1>9, <1>10 DEF Balanced

LEMMA OfferBalanced ==
  ASSUME NEW s, NEW n, Balanced(s, n)
  PROVE  Balanced(Offer(s), n) /\ Offer(s).tokens = s.tokens
<1>1. PICK r : r = IF HeadKey(s) = 0 THEN s ELSE Expire(s, HeadKey(s))
  OBVIOUS
<1>2. Balanced(r, n)
  BY <1>1, KeyBalanced
<1>3. r.tokens = s.tokens
  <2>1. DOMAIN s = ScannerFields
    BY DEF Balanced, Sound
  <2> QED BY <1>1, <2>1 DEF Expire, Fail, ScannerFields
<1>4. DOMAIN r = ScannerFields
  BY <1>2 DEF Balanced, Sound
<1>5. Balanced([r EXCEPT !.available = TRUE], n)
  BY <1>2 DEF Balanced, Sound, ScannerFields
<1>6. [r EXCEPT !.available = TRUE].tokens = s.tokens
  BY <1>3, <1>4 DEF ScannerFields
<1> QED BY <1>1, <1>5, <1>6 DEF Offer

LEMMA TakeBalanced ==
  ASSUME NEW s, NEW n, Balanced(s, n), s.tokens # <<>>
  PROVE  Balanced(Take(s), n - Weight(Head(s.tokens)))
<1>1. PICK r, h : r = Take(s) /\ h = Head(s.tokens)
  OBVIOUS
<1>2. /\ DOMAIN s = ScannerFields /\ s.tokens \in Seq(TokenSet) /\ Len(s.tokens) \in Nat
      /\ s.parsed \in Nat /\ Balance(s.tokens) \in Int /\ Len(s.indents) \in Nat
      /\ n \in Int /\ Balance(s.tokens) - Len(s.indents) = n
  BY SoundFacts DEF Balanced
<1>3. /\ DOMAIN r = ScannerFields /\ r.started = s.started /\ r.mark = s.mark
      /\ r.parsed = s.parsed + 1 /\ r.indent = s.indent /\ r.indents = s.indents
      /\ r.keys = s.keys /\ r.tokens = Tail(s.tokens)
  BY <1>1, <1>2 DEF Take, ScannerFields
<1>4. /\ Tail(s.tokens) \in Seq(TokenSet) /\ Len(Tail(s.tokens)) = Len(s.tokens) - 1
      /\ Len(s.tokens) # 0
  BY <1>2, HeadTailProperties, EmptySeq
<1>5. Balance(r.tokens) = Balance(s.tokens) - Weight(h)
  BY <1>1, <1>2, <1>3, BalanceTail
<1>6. r.parsed + Len(r.tokens) = s.parsed + Len(s.tokens)
  BY <1>2, <1>3, <1>4
<1>7. r.parsed \in Nat
  BY <1>2, <1>3
<1>8. Sound(r)
  BY <1>3, <1>4, <1>6, <1>7 DEF Balanced, Sound
<1>9. Weight(h) \in Int
  BY WeightType
<1>10. n - Weight(h) \in Int /\ Balance(r.tokens) - Len(r.indents) = n - Weight(h)
  BY <1>2, <1>3, <1>5, <1>9
<1> QED BY <1>1, <1>8, <1>10 DEF Balanced

-----------------------------------------------------------------------------
(* The automaton is inside of as many blocks as it has taken starts of.    *)

\* The blocks of the states to return to, and of the state it is in.
Deep(p) == Count(BlockStates, p.states) + Nest(p.state)

\* No state to return to is the first one of a block.
LEMMA BackNest ==
  ASSUME NEW s \in Backs
  PROVE  Nest(s) = IF s \in BlockStates THEN 1 ELSE 0
<1>1. s \notin BlockFirsts
  BY DEF Backs, InnerBacks, BlockFirsts
<1> QED BY <1>1 DEF Nest

\* Between documents, and about to read a node, there is none.
LEMMA OuterNest ==
  /\ \A s \in Outer \cup Nodal : Nest(s) = 0
  /\ \A s : Nest(s) \in {0, 1}
BY DEF Nest, Outer, Nodal, BlockStates, BlockFirsts

LEMMA DeepReturned ==
  ASSUME NEW p, NEW q, WellFormed(p), p.state \in Inner \cup Nodal, Returned(p, q)
  PROVE  Deep(q) = Deep(p) - Nest(p.state)
<1>1. PICK b, f : b = Last(p.states) /\ f = Front(p.states)
  OBVIOUS
<1>2. p.states \in Seq(Backs) /\ p.states # <<>> /\ q.state = b /\ q.states = f
  BY <1>1, InsideStates DEF Returned
<1>3. b \in Backs /\ f \in Seq(Backs)
  BY <1>1, <1>2, FrontLast
<1>4. Count(BlockStates, f) = Count(BlockStates, p.states) - IF b \in BlockStates THEN 1 ELSE 0
  BY <1>1, <1>2, CountFront
<1>5. Count(BlockStates, f) \in Nat /\ Count(BlockStates, p.states) \in Nat
  BY <1>2, <1>3, CountType
<1>6. Nest(b) = IF b \in BlockStates THEN 1 ELSE 0
  BY <1>3, BackNest
<1>7. Nest(p.state) \in {0, 1}
  BY OuterNest
<1>8. Deep(q) = Count(BlockStates, f) + Nest(b)
      /\ Deep(p) = Count(BlockStates, p.states) + Nest(p.state)
  BY <1>2 DEF Deep
<1> QED BY <1>4, <1>5, <1>6, <1>7, <1>8

LEMMA DeepCalled ==
  ASSUME NEW p, NEW q, p.states \in Seq(Backs), NEW back \in Backs,
         q.states = Append(p.states, back), Nest(back) = Nest(p.state), Nest(q.state) = 0
  PROVE  Deep(q) = Deep(p)
<1>1. Count(BlockStates, q.states) = Count(BlockStates, p.states) + IF back \in BlockStates THEN 1 ELSE 0
  BY CountAppend
<1>2. Count(BlockStates, p.states) \in Nat
  BY CountType
<1>3. Nest(p.state) = IF back \in BlockStates THEN 1 ELSE 0
  BY BackNest
<1>4. Deep(q) = Count(BlockStates, q.states) + 0
      /\ Deep(p) = Count(BlockStates, p.states) + Nest(p.state)
  BY DEF Deep
<1> QED BY <1>1, <1>2, <1>3, <1>4

\* A move leaves the depth alone, but at the start and at the end of a block.
LEMMA MoveDeep ==
  ASSUME NEW p, NEW q, NEW e, WellFormed(p), Move(p, q, e),
         p.state \notin BlockFirsts, p.state # "error", q.state # "error"
  PROVE  Deep(q) = Deep(p) - IF Closing(p, q, e) THEN Nest(p.state) ELSE 0
<1>0. p.states \in Seq(Backs)
  BY DEF WellFormed
<1>1. Count(BlockStates, p.states) \in Nat /\ Nest(p.state) \in {0, 1} /\ Deep(p) \in Nat
  <2>1. Count(BlockStates, p.states) \in Nat /\ Nest(p.state) \in {0, 1}
    BY <1>0, CountType, OuterNest
  <2> QED BY <2>1 DEF Deep
<1>2. ASSUME q.states = p.states, Nest(q.state) = Nest(p.state),
             Nest(p.state) = 0 \/ e.type \notin {"sequence-end", "mapping-end"}
      PROVE  Deep(q) = Deep(p) - IF Closing(p, q, e) THEN Nest(p.state) ELSE 0
  <2>1. Deep(q) = Deep(p)
    BY <1>2 DEF Deep
  <2>2. Closing(p, q, e) => Nest(p.state) = 0
    BY <1>2 DEF Closing
  <2> QED BY <1>1, <2>1, <2>2
<1>3. NoEvent.type \notin {"sequence-end", "mapping-end"}
  BY NoEventType
<1>4. CASE Fails(q, e)
  BY <1>4 DEF Fails
<1>5. CASE Moved(p, q, e)
  <2>1. q.states = p.states /\ Nest(q.state) = Nest(p.state) /\ e = NoEvent
    BY <1>5 DEF Moved, Kept
  <2> QED BY <1>2, <1>3, <2>1
<1>6. CASE Continued(p, q, e)
  <2>1. q.states = p.states /\ Nest(q.state) = Nest(p.state) /\ e = NoEvent
    BY <1>6, OuterNest DEF Continued, Nodal
  <2> QED BY <1>2, <1>3, <2>1
<1>7. CASE Called(p, q, e)
  <2>1. PICK back \in InnerBacks : q.states = Append(p.states, back) /\ Nest(back) = Nest(p.state)
    BY <1>7 DEF Called
  <2>2. back \in Backs /\ Nest(q.state) = 0 /\ e = NoEvent
    BY <1>7, OuterNest DEF Called, Backs, Nodal
  <2>3. Deep(q) = Deep(p)
    BY <1>0, <2>1, <2>2, DeepCalled
  <2>4. ~Closing(p, q, e)
    BY <1>3, <2>2 DEF Closing
  <2> QED BY <1>1, <2>3, <2>4
<1>8. CASE Filled(p, q, e)
  <2>1. q.states = p.states /\ Nest(q.state) = Nest(p.state) /\ e.type = "scalar"
    BY <1>8 DEF Filled, Kept
  <2> QED BY <1>2, <2>1
<1>9. CASE Answered(p, q, e)
  <2>1. p.state \in Inner \cup Nodal /\ Returned(p, q) /\ Nest(p.state) = 0
    BY <1>9, OuterNest DEF Answered
  <2>2. Deep(q) = Deep(p) - 0
    BY <2>1, DeepReturned
  <2> QED BY <1>1, <2>1, <2>2
<1>10. CASE Opening(p, q, e)
  <2>1. q.states = p.states /\ Nest(q.state) = Nest(p.state) /\ Nest(p.state) = 0
    BY <1>10, OuterNest DEF Opening, Nodal
  <2> QED BY <1>2, <2>1
<1>11. CASE Closing(p, q, e)
  <2>1. p.state \in Inner \cup Nodal /\ Returned(p, q)
    BY <1>11 DEF Closing
  <2> QED BY <1>11, <2>1, DeepReturned
<1>12. CASE PairOpened(p, q, e) \/ PairClosed(p, q, e)
  <2>1. q.states = p.states /\ Nest(q.state) = Nest(p.state) /\ Nest(p.state) = 0
    BY <1>12, StateFacts DEF PairOpened, PairClosed
  <2> QED BY <1>2, <2>1
<1>13. CASE StreamStarted(p, q, e) \/ StreamEnded(p, q, e) \/ DocumentEnded(p, q, e)
  <2>1. p.state \in Outer /\ q.state \in Outer /\ q.states = p.states
    BY <1>13 DEF StreamStarted, StreamEnded, DocumentEnded, Outer
  <2> QED BY <1>2, <2>1, OuterNest
<1>14. CASE DocumentStarted(p, q, e)
  <2>1. p.state \in Outer /\ q.state \in Nodal /\ q.states = Append(p.states, "document end")
    BY <1>14 DEF DocumentStarted, Outer
  <2>2. "document end" \in Backs /\ "document end" \in Outer
    BY DEF Backs, Outer
  <2>3. Nest("document end") = 0 /\ Nest(p.state) = 0 /\ Nest(q.state) = 0
    BY <2>1, <2>2, OuterNest
  <2>4. Deep(q) = Deep(p)
    BY <1>0, <2>1, <2>2, <2>3, DeepCalled
  <2>5. Nest(p.state) = 0
    BY <2>3
  <2> QED BY <1>1, <2>4, <2>5
<1> QED BY <1>4, <1>5, <1>6, <1>7, <1>8, <1>9, <1>10, <1>11, <1>12, <1>13, <1>14 DEF Move

LEMMA DeepOpened ==
  ASSUME NEW p, NEW q, p.states \in Seq(Backs), q.states = p.states,
         Nest(p.state) = 0, Nest(q.state) = 1
  PROVE  Deep(q) = Deep(p) + 1
<1>1. Count(BlockStates, p.states) \in Nat
  BY CountType
<1> QED BY <1>1 DEF Deep

\* A step of the automaton goes as much deeper as the token it takes weighs.
LEMMA StepDeep ==
  ASSUME NEW p, WellFormed(p), p.state \notin {"end", "error"}, NEW t \in TokenSet,
         p.state \in Firsts => t.type = FirstToken(p.state),
         NEW r, r = Step(p, t), Good(p, t, r), r.parser.state # "error"
  PROVE  Deep(r.parser) = Deep(p) + IF r.skipped THEN Weight(t) ELSE 0
<1>1. /\ r.skipped /\ t.type \in BlockStarts <=> p.state \in BlockFirsts
      /\ r.skipped /\ t.type = "block-end"
           <=> Closing(p, r.parser, r.event) /\ Nest(p.state) = 1
      /\ Move(p, r.parser, r.event) /\ r.skipped \in BOOLEAN
  BY DEF Good, Tokens
<1>2. Weight(t) = IF t.type \in BlockStarts THEN 1 ELSE IF t.type = "block-end" THEN -1 ELSE 0
  BY DEF Weight, Openers, Closers, BlockStarts
<1>3. Deep(p) \in Nat /\ Nest(p.state) \in {0, 1}
  <2>1. p.states \in Seq(Backs)
    BY DEF WellFormed
  <2>2. Count(BlockStates, p.states) \in Nat /\ Nest(p.state) \in {0, 1}
    BY <2>1, CountType, OuterNest
  <2> QED BY <2>2 DEF Deep
<1>4. CASE p.state \in BlockFirsts
  <2>1. PICK state \in {"block sequence", "block mapping key"} : r = Result(Goto(p, state), TRUE, NoEvent)
    BY <1>4, StepAt DEF Skip, BlockFirsts
  <2>2. r.parser.states = p.states /\ r.parser.state = state /\ r.skipped
    <3>1. Goto(p, state).states = p.states /\ Goto(p, state).state = state
      BY GotoFields DEF WellFormed
    <3>2. PICK g : g = Goto(p, state)
      OBVIOUS
    <3>3. r.parser = g /\ r.skipped
      <4>1. Result(g, TRUE, NoEvent).parser = g /\ Result(g, TRUE, NoEvent).skipped
        BY DEF Result
      <4>2. r = Result(g, TRUE, NoEvent)
        BY <2>1, <3>2
      <4> QED BY <4>1, <4>2
    <3> QED BY <3>1, <3>2, <3>3
  <2>3. Nest(p.state) = 0 /\ Nest(state) = 1
    BY <1>4, StateFacts DEF BlockFirsts
  <2>4. Weight(t) = 1
    BY <1>1, <1>2, <1>4
  <2>5. p.states \in Seq(Backs)
    BY DEF WellFormed
  <2>6. PICK q : q = r.parser
    OBVIOUS
  <2>7. Deep(q) = Deep(p) + 1
    <3>1. q.states = p.states /\ Nest(q.state) = 1
      BY <2>2, <2>3, <2>6
    <3> QED BY <2>3, <2>5, <3>1, DeepOpened
  <2>8. r.skipped
    BY <2>2
  <2> QED BY <2>4, <2>6, <2>7, <2>8
<1>5. CASE p.state \notin BlockFirsts
  <2>1. Deep(r.parser) = Deep(p) - IF Closing(p, r.parser, r.event) THEN Nest(p.state) ELSE 0
    BY <1>1, <1>5, MoveDeep
  <2>2. ~(r.skipped /\ t.type \in BlockStarts)
    BY <1>1, <1>5
  <2>3. CASE Closing(p, r.parser, r.event) /\ Nest(p.state) = 1
    <3>1. r.skipped /\ t.type = "block-end"
      BY <1>1, <2>3
    <3>2. Weight(t) = -1
      BY <1>2, <2>2, <3>1
    <3> QED BY <1>3, <2>1, <2>3, <3>1, <3>2
  <2>4. CASE ~(Closing(p, r.parser, r.event) /\ Nest(p.state) = 1)
    <3>1. ~(r.skipped /\ t.type = "block-end")
      BY <1>1, <2>4
    <3>2. r.skipped => Weight(t) = 0
      BY <1>2, <2>2, <3>1
    <3>3. Deep(r.parser) = Deep(p)
      BY <1>3, <2>1, <2>4
    <3> QED BY <1>3, <3>2, <3>3
  <2> QED BY <2>3, <2>4
<1> QED BY <1>4, <1>5

-----------------------------------------------------------------------------
(* What the scanner meets is a lexeme.                                     *)

\* Every lexeme is made by Lexeme, and some of its parts are changed.
LEMMA LexemeType ==
  ASSUME NEW kind \in Kinds \cup {"end"}, NEW value \in ScalarSet,
         NEW line \in Nat, NEW col \in Nat, NEW width \in Nat, NEW down \in Nat
  PROVE  Lexeme(kind, value, line, col, width, down) \in LexemeSet
<1>1. 0 \in Nat /\ 0 \in Int /\ FALSE \in BOOLEAN
  OBVIOUS
<1> QED BY <1>1 DEF Lexeme, LexemeSet

LEMMA LexemeChanges ==
  ASSUME NEW x \in LexemeSet
  PROVE  /\ \A b \in BOOLEAN : [x EXCEPT !.trail = b] \in LexemeSet
         /\ \A down \in Nat : [x EXCEPT !.down = down] \in LexemeSet
         /\ \A line, col \in Nat : [x EXCEPT !.line = line, !.col = col] \in LexemeSet
         /\ \A down, inner, hint \in Nat :
              [x EXCEPT !.down = down, !.inner = inner, !.hint = hint] \in LexemeSet
         /\ \A inner, hint \in Nat, chomp \in Int :
              [x EXCEPT !.inner = inner, !.hint = hint, !.chomp = chomp] \in LexemeSet
BY DEF LexemeSet

LEMMA AtType ==
  ASSUME NEW kind \in Kinds \cup {"end"}, NEW value \in ScalarSet, NEW p \in Positions,
         NEW width \in Nat
  PROVE  At(kind, value, p, width) \in LexemeSet
<1>1. p.line \in Nat /\ p.col \in Nat /\ 0 \in Nat
  BY DEF Positions
<1> QED BY <1>1, LexemeType DEF At

\* Where a given text may go on.
LEMMA PlacesType ==
  ASSUME NEW m \in Positions
  PROVE  Places(m) \subseteq Positions
<1>1. m.line \in Nat /\ m.col \in Nat /\ m.line + 1 \in Nat /\ m.col + 1 \in Nat
  BY DEF Positions
<1>2. Columns \subseteq Nat
  BY YamlAssumption
<1> QED BY <1>1, <1>2, MarkType DEF Places

\* The values of the lexemes of a given text.
LEMMA GivenValues ==
  /\ Short \in ScalarSet
  /\ \A t \in BOOLEAN : [Short EXCEPT !.tab = t] \in ScalarSet
  /\ \A word \in GivenWords : Value(word, 0, 0) \in ScalarSet
<1>1. \A word \in GivenWords : Value(word, 0, 0) \in ScalarSet
  <2> TAKE word \in GivenWords
  <2>1. word \in Words /\ 0 \in Int /\ 0 \in Nat
    BY DEF Words
  <2> QED BY <2>1, ValueType
<1>2. "short" \in GivenWords
  BY DEF GivenWords
<1>3. Short \in ScalarSet
  BY <1>1, <1>2 DEF Short
<1>4. \A t \in BOOLEAN : [Short EXCEPT !.tab = t] \in ScalarSet
  BY <1>3 DEF ScalarSet
<1> QED BY <1>1, <1>3, <1>4

\* The kinds of the lexemes of a given text.
LEMMA GivenKinds ==
  /\ Indicators \subseteq Kinds
  /\ {"plain", "quoted", "literal", "anchor", "alias", "tag", "directive"} \subseteq Kinds
  /\ {"---", "..."} \subseteq Kinds
BY DEF Kinds

LEMMA MarksType ==
  ASSUME NEW p \in Positions
  PROVE  Marks(p) \subseteq LexemeSet /\ Boundaries(p) \subseteq LexemeSet
<1>1. \A kind \in Indicators : At(kind, Empty, p, 1) \in LexemeSet
  <2> TAKE kind \in Indicators
  <2>1. kind \in Kinds \cup {"end"} /\ 1 \in Nat
    BY GivenKinds
  <2> QED BY <2>1, AtType, EmptyValue
<1>2. \A kind \in {"---", "..."} : At(kind, Empty, p, 3) \in LexemeSet
  <2> TAKE kind \in {"---", "..."}
  <2>1. kind \in Kinds \cup {"end"} /\ 3 \in Nat
    BY GivenKinds
  <2> QED BY <2>1, AtType, EmptyValue
<1> QED BY <1>1, <1>2 DEF Marks, Boundaries

LEMMA AnchorsType ==
  ASSUME NEW p \in Positions
  PROVE  Anchors(p) \subseteq LexemeSet /\ Tags(p) \subseteq LexemeSet /\ Directed(p) \subseteq LexemeSet
<1>1. \A kind \in {"anchor", "alias"} : At(kind, Short, p, 2) \in LexemeSet
  <2> TAKE kind \in {"anchor", "alias"}
  <2>1. kind \in Kinds \cup {"end"} /\ 2 \in Nat
    BY GivenKinds
  <2> QED BY <2>1, AtType, GivenValues
<1>2. \A word \in GivenWords : At("tag", Value(word, 0, 0), p, 3) \in LexemeSet
  <2> TAKE word \in GivenWords
  <2>1. "tag" \in Kinds \cup {"end"} /\ 3 \in Nat
    BY GivenKinds
  <2> QED BY <2>1, AtType, GivenValues
<1>3. \A word \in GivenWords : At("directive", Value(word, 0, 0), p, 9) \in LexemeSet
  <2> TAKE word \in GivenWords
  <2>1. "directive" \in Kinds \cup {"end"} /\ 9 \in Nat
    BY GivenKinds
  <2> QED BY <2>1, AtType, GivenValues
<1>4. {"!!", "!e!"} \subseteq GivenWords
      /\ {"%YAML 1.1", "%YAML 2.0", "!e!", "%FOO"} \subseteq GivenWords
  BY DEF GivenWords
<1>5. Anchors(p) \subseteq LexemeSet
  BY <1>1 DEF Anchors
<1>6. Tags(p) \subseteq LexemeSet
  BY <1>2, <1>4 DEF Tags
<1>7. Directed(p) \subseteq LexemeSet
  BY <1>3, <1>4 DEF Directed
<1> QED BY <1>5, <1>6, <1>7

Headed(x, c, h) == [x EXCEPT !.down = 2, !.inner = c, !.hint = h]

LEMMA LiteralHeaded ==
  ASSUME NEW p, NEW x \in Literals(p)
  PROVE  \E t \in BOOLEAN, c \in Columns, h \in {0, 2} :
           x = Headed(At("literal", [Short EXCEPT !.tab = t], p, 1), c, h)
<1>1. PICK t \in BOOLEAN, c \in Columns, h \in {0, 2} : x = Literal(p, t, c, h)
  BY DEF Literals
<1>2. x = Headed(At("literal", [Short EXCEPT !.tab = t], p, 1), c, h)
  BY <1>1, Zenon DEF Literal, Headed
<1> QED BY <1>2

LEMMA ScalarsType ==
  ASSUME NEW p \in Positions
  PROVE  Quoted(p) \subseteq LexemeSet /\ Plains(p) \subseteq LexemeSet /\ Literals(p) \subseteq LexemeSet
<1>1. \A kind \in {"quoted", "plain", "literal"}, v \in ScalarSet, width \in Nat :
        At(kind, v, p, width) \in LexemeSet
  <2> TAKE kind \in {"quoted", "plain", "literal"}, v \in ScalarSet, width \in Nat
  <2>1. kind \in Kinds \cup {"end"}
    BY GivenKinds
  <2> QED BY <2>1, AtType
<1>2. PICK q, l : q = At("quoted", Short, p, 3) /\ l = At("plain", Short, p, 2)
  OBVIOUS
<1>3. q \in LexemeSet /\ l \in LexemeSet
  BY <1>1, <1>2, GivenValues
<1>4. Quoted(p) \subseteq LexemeSet
  <2>1. Quoted(p) = {q, [q EXCEPT !.down = 1]}
    BY <1>2 DEF Quoted
  <2>2. [q EXCEPT !.down = 1] \in LexemeSet
    BY <1>3, LexemeChanges
  <2> QED BY <1>3, <2>1, <2>2
<1>5. Plains(p) \subseteq LexemeSet
  <2>1. Plains(p) = {[l EXCEPT !.trail = b] : b \in BOOLEAN}
    BY <1>2 DEF Plains
  <2> QED BY <1>3, <2>1, LexemeChanges
<1>6. Literals(p) \subseteq LexemeSet
  <2>2. Columns \subseteq Nat /\ {0, 2} \subseteq Nat /\ 2 \in Nat
    BY YamlAssumption
  <2>3. ASSUME NEW k \in LexemeSet, NEW c \in Columns, NEW h \in {0, 2}
        PROVE  Headed(k, c, h) \in LexemeSet
    <3>1. c \in Nat /\ h \in Nat /\ 2 \in Nat
      BY <2>2
    <3> QED BY <3>1, LexemeChanges DEF Headed
  <2>4. ASSUME NEW x, x \in Literals(p) PROVE x \in LexemeSet
    <3>1. PICK t \in BOOLEAN, c \in Columns, h \in {0, 2} :
            x = Headed(At("literal", [Short EXCEPT !.tab = t], p, 1), c, h)
      BY <2>4, LiteralHeaded
    <3>2. PICK v \in ScalarSet : v = [Short EXCEPT !.tab = t]
      BY GivenValues
    <3>3. PICK k \in LexemeSet : k = At("literal", v, p, 1)
      BY <1>1
    <3> QED BY <2>3, <3>1, <3>2, <3>3
  <2> QED BY <2>4
<1> QED BY <1>4, <1>5, <1>6

\* What the scanner finds next, when the text known is one of lexemes.
LEMMA UpcomingType ==
  ASSUME text \in Seq(LexemeSet), scanner.mark \in Positions
  PROVE  Upcoming \subseteq LexemeSet
<1>1. \A p \in Positions : LexemesAt(p) \subseteq LexemeSet
  BY MarksType, AnchorsType, ScalarsType DEF LexemesAt
<1>2. Continuations \subseteq LexemeSet
  BY <1>1, PlacesType DEF Continuations
<1>3. Lexeme("end", Empty, scanner.mark.line, scanner.mark.col, 0, 0) \in LexemeSet
  <2>1. scanner.mark.line \in Nat /\ scanner.mark.col \in Nat /\ 0 \in Nat
    BY DEF Positions
  <2>2. "end" \in Kinds \cup {"end"}
    OBVIOUS
  <2> QED BY <2>1, <2>2, LexemeType, EmptyValue
<1>4. text # <<>> => Head(text) \in LexemeSet
  BY HeadTailProperties
<1> QED BY <1>2, <1>3, <1>4 DEF Upcoming

\* And the text stays one.
LEMMA BehindType ==
  ASSUME NEW x \in LexemeSet
  PROVE  Behind(x) \in Seq(LexemeSet)
<1>1. PICK b : b = Below(x, x.line + 1)
  OBVIOUS
<1>2. PICK m : m = Mark(x.line + 1, x.inner + x.value.lead)
  OBVIOUS
<1>3. m \in Positions
  <2>1. x.line + 1 \in Nat /\ x.inner + x.value.lead \in Nat
    BY LexemeFacts
  <2> QED BY <1>2, <2>1, MarkType
<1>4. At("plain", Short, m, 2) \in LexemeSet
  <2>1. "plain" \in Kinds \cup {"end"} /\ 2 \in Nat
    BY GivenKinds
  <2> QED BY <1>3, <2>1, AtType, GivenValues
<1>5. b = [At("plain", Short, m, 2) EXCEPT !.trail = TRUE]
  BY <1>1, <1>2 DEF Below
<1>6. b \in LexemeSet
  BY <1>4, <1>5, LexemeChanges
<1>7. <<b>> \in Seq(LexemeSet) /\ <<>> \in Seq(LexemeSet)
  BY <1>6
<1> QED BY <1>1, <1>7 DEF Behind

-----------------------------------------------------------------------------
(* Blocks match in every state.                                            *)

\* The queue, the levels and the automaton, as long as nothing is refused.
MatchedInv ==
  /\ scanner = NewScanner \/ Sound(scanner)
  /\ scanner.available => scanner.tokens # <<>>
  /\ ~Refused => Deep(parser) + (Balance(scanner.tokens) - Len(scanner.indents)) = 0
TextInv == text \in Seq(LexemeSet)

\* The scanner before its first token.
LEMMA NewScannerFacts ==
  /\ NewScanner.mark = Mark(0, 0) /\ NewScanner.tokens = <<>> /\ NewScanner.parsed = 0
  /\ NewScanner.available = FALSE /\ NewScanner.started = FALSE /\ NewScanner.indents = <<>>
  /\ MustFetch(NewScanner)
<1>1. /\ NewScanner.mark = Mark(0, 0) /\ NewScanner.tokens = <<>> /\ NewScanner.parsed = 0
      /\ NewScanner.available = FALSE /\ NewScanner.started = FALSE /\ NewScanner.indents = <<>>
  BY DEF NewScanner
<1>2. Len(NewScanner.tokens) = 0
  BY <1>1
<1> QED BY <1>1, <1>2 DEF MustFetch

LEMMA NoBalance == Balance(<<>>) = 0 /\ Len(<<>>) = 0
<1>1. Count(Openers, <<>>) = 0 /\ Count(Closers, <<>>) = 0
  BY CountOne
<1> QED BY <1>1 DEF Balance

\* A sound scanner is balanced against its own excess.
LEMMA SoundBalanced ==
  ASSUME NEW s, Sound(s)
  PROVE  Balanced(s, Balance(s.tokens) - Len(s.indents))
<1>1. Balance(s.tokens) - Len(s.indents) \in Int
  BY SoundFacts
<1> QED BY <1>1 DEF Balanced

LEMMA InitMatched == Init => MatchedInv /\ TextInv
<1> SUFFICES ASSUME Init PROVE MatchedInv /\ TextInv
  OBVIOUS
<1>1. scanner = NewScanner /\ parser = NewParser /\ text = <<>>
  BY DEF Init
<1>2. Deep(parser) = 0
  <2>1. parser.state \in Outer /\ parser.states = <<>>
    BY <1>1 DEF NewParser, Outer
  <2>2. Nest(parser.state) = 0
    BY <2>1, OuterNest
  <2>3. Count(BlockStates, parser.states) = 0
    BY <2>1, CountOne
  <2> QED BY <2>2, <2>3 DEF Deep
<1>3. Balance(scanner.tokens) = 0 /\ Len(scanner.indents) = 0
  BY <1>1, NewScannerFacts, NoBalance
<1>4. TextInv
  BY <1>1 DEF TextInv
<1> QED BY <1>1, <1>2, <1>3, <1>4, NewScannerFacts DEF MatchedInv

\* A token more: the queue and the levels change alike.
LEMMA FetchMatched ==
  ASSUME MatchedInv, TextInv, ScannerShape, Fetch
  PROVE  MatchedInv' /\ TextInv'
<1>1. /\ ~scanner.available /\ UNCHANGED <<parser, builder>>
      /\ scanner.error = "none" /\ ~Stopped(parser) /\ builder.outcome = "reading"
  BY Zenon DEF Fetch, Reading
<1>2. PICK x \in Upcoming :
        /\ scanner' = FetchNextToken(scanner, x)
        /\ IF ~scanner.started THEN UNCHANGED <<text, plain, length>>
           ELSE text' = Behind(x) \o (IF text = <<>> THEN <<>> ELSE Tail(text))
  BY Zenon DEF Fetch
<1>3. ~Refused
  BY <1>1 DEF Refused, Stopped
<1>4. Deep(parser) + (Balance(scanner.tokens) - Len(scanner.indents)) = 0
  BY <1>3 DEF MatchedInv
<1>5. ~scanner'.available
  <2>1. Keeps(scanner, scanner.available)
    BY DEF ScannerShape, Keeps
  <2>2. Keeps(scanner', scanner.available)
    BY <1>2, <2>1, FetchKeeps
  <2> QED BY <1>1, <2>2 DEF Keeps
<1>6. CASE scanner = NewScanner
  <2>1. ~scanner.started
    BY <1>6, NewScannerFacts
  <2>2. scanner' = FetchStreamStart(NewScanner) /\ text' = text
    BY <1>2, <1>6, <2>1 DEF FetchNextToken
  <2>3. Balanced(scanner', 0)
    BY <2>2, StartBalanced
  <2>4. Balance(scanner.tokens) - Len(scanner.indents) = 0
    BY <1>6, NewScannerFacts, NoBalance
  <2>5. Sound(scanner') /\ Balance(scanner'.tokens) - Len(scanner'.indents) = 0
    BY <2>3 DEF Balanced
  <2> QED BY <1>1, <1>4, <1>5, <2>2, <2>4, <2>5 DEF MatchedInv, TextInv
<1>7. CASE Sound(scanner)
  <2>1. PICK n : n = Balance(scanner.tokens) - Len(scanner.indents)
    OBVIOUS
  <2>2. Balanced(scanner, n) /\ scanner.started /\ scanner.mark \in Positions
    BY <1>7, <2>1, SoundBalanced DEF Sound
  <2>3. x \in LexemeSet
    BY <1>2, <2>2, UpcomingType DEF TextInv
  <2>4. Balanced(scanner', n)
    BY <1>2, <2>2, <2>3, FetchBalanced
  <2>5. Sound(scanner') /\ Balance(scanner'.tokens) - Len(scanner'.indents) = n
    BY <2>4 DEF Balanced
  <2>6. text' \in Seq(LexemeSet)
    <3>1. PICK rest : rest = IF text = <<>> THEN <<>> ELSE Tail(text)
      OBVIOUS
    <3>2. rest \in Seq(LexemeSet)
      <4>1. text \in Seq(LexemeSet)
        BY DEF TextInv
      <4>2. text # <<>> => Tail(text) \in Seq(LexemeSet)
        BY <4>1, HeadTailProperties
      <4>3. <<>> \in Seq(LexemeSet)
        OBVIOUS
      <4> QED BY <3>1, <4>2, <4>3
    <3>3. Behind(x) \in Seq(LexemeSet)
      BY <2>3, BehindType
    <3>4. text' = Behind(x) \o rest
      BY <1>2, <2>2, <3>1
    <3> QED BY <3>2, <3>3, <3>4, ConcatProperties
  <2> QED BY <1>1, <1>4, <1>5, <2>1, <2>5, <2>6 DEF MatchedInv, TextInv
<1> QED BY <1>6, <1>7 DEF MatchedInv

\* A token is offered: there is one.
LEMMA ReadyMatched ==
  ASSUME MatchedInv, TextInv, Ready
  PROVE  MatchedInv' /\ TextInv'
<1>1. /\ ~MustFetch(scanner) /\ scanner' = Offer(scanner) /\ UNCHANGED <<parser, builder, text>>
      /\ scanner.error = "none" /\ ~Stopped(parser) /\ builder.outcome = "reading"
  BY DEF Ready, Reading
<1>2. ~Refused
  BY <1>1 DEF Refused, Stopped
<1>3. Sound(scanner)
  BY <1>1, NewScannerFacts DEF MatchedInv
<1>4. PICK n : n = Balance(scanner.tokens) - Len(scanner.indents)
  OBVIOUS
<1>5. Balanced(scanner', n) /\ scanner'.tokens = scanner.tokens
  BY <1>1, <1>3, <1>4, SoundBalanced, OfferBalanced
<1>6. Sound(scanner') /\ Balance(scanner'.tokens) - Len(scanner'.indents) = n
  BY <1>5 DEF Balanced
<1>7. scanner.tokens # <<>>
  <2>1. ~(Len(scanner.tokens) <= 2)
    BY <1>1 DEF MustFetch
  <2>2. Len(<<>>) <= 2
    OBVIOUS
  <2> QED BY <2>1, <2>2
<1>8. Deep(parser) + n = 0
  BY <1>2, <1>4 DEF MatchedInv
<1> QED BY <1>1, <1>4, <1>5, <1>6, <1>7, <1>8 DEF MatchedInv, TextInv

\* A step of the automaton: the blocks it goes into leave the queue.
LEMMA ParseMatched ==
  ASSUME MatchedInv, TextInv, ParserInv, Parse
  PROVE  MatchedInv' /\ TextInv'
<1>1. PICK t, r : /\ t = Head(scanner.tokens) /\ r = Step(parser, t)
                  /\ parser' = r.parser
                  /\ scanner' = IF r.skipped THEN Take(scanner) ELSE scanner
  BY Zenon DEF Parse
<1>2. /\ scanner.available /\ parser.state \notin {"end", "error"} /\ text' = text
      /\ scanner.error = "none" /\ builder.outcome = "reading"
  BY DEF Parse, Reading, Stopped
<1>3. ~Refused
  BY <1>2 DEF Refused
<1>4. Sound(scanner) /\ scanner.tokens # <<>>
  BY <1>2, NewScannerFacts DEF MatchedInv
<1>5. t \in TokenSet
  <2>1. scanner.tokens \in Seq(TokenSet)
    BY <1>4 DEF Sound
  <2> QED BY <1>1, <1>4, <2>1, HeadTailProperties
<1>6. PICK n : n = Balance(scanner.tokens) - Len(scanner.indents)
  OBVIOUS
<1>7. Balanced(scanner, n) /\ n \in Int /\ Deep(parser) + n = 0
  BY <1>3, <1>4, <1>6, SoundBalanced DEF MatchedInv, Balanced
<1>8. Weight(t) \in Int
  BY WeightType
<1>9. PICK w : w = IF r.skipped THEN Weight(t) ELSE 0
  OBVIOUS
<1>10. w \in Int /\ Balanced(scanner', n - w)
  <2>1. CASE r.skipped
    <3>1. Balanced(Take(scanner), n - Weight(Head(scanner.tokens)))
      BY <1>4, <1>7, TakeBalanced
    <3> QED BY <1>1, <1>8, <1>9, <2>1, <3>1
  <2>2. CASE ~r.skipped
    <3>1. w = 0 /\ n - w = n
      BY <1>7, <1>9, <2>2
    <3> QED BY <1>1, <1>7, <2>2, <3>1
  <2> QED BY <2>1, <2>2
<1>11. Sound(scanner') /\ Balance(scanner'.tokens) - Len(scanner'.indents) = n - w
  BY <1>10 DEF Balanced
<1>12. scanner'.available => scanner'.tokens # <<>>
  <2>1. CASE r.skipped
    <3>1. DOMAIN scanner = ScannerFields
      BY <1>4 DEF Sound
    <3>2. Take(scanner).available = FALSE
      BY <3>1 DEF Take, ScannerFields
    <3> QED BY <1>1, <2>1, <3>2
  <2>2. CASE ~r.skipped
    BY <1>1, <1>4, <2>2
  <2> QED BY <2>1, <2>2
<1>13. WellFormed(parser) /\ (parser.state \in Firsts => t.type = FirstToken(parser.state))
  BY <1>1 DEF ParserInv, HeadInv
<1>14. Good(parser, t, r)
  BY <1>1, <1>2, <1>13, StepGood
<1>15. ~Refused' => Deep(parser') + (n - w) = 0
  <2> SUFFICES ASSUME ~Refused' PROVE Deep(parser') + (n - w) = 0
    OBVIOUS
  <2>1. r.parser.state # "error"
    BY <1>1 DEF Refused
  <2>2. Deep(r.parser) = Deep(parser) + w
    BY <1>1, <1>2, <1>5, <1>9, <1>13, <1>14, <2>1, StepDeep
  <2>3. Deep(parser) \in Int
    <3>1. parser.states \in Seq(Backs)
      BY <1>2, <1>13 DEF WellFormed
    <3>2. Count(BlockStates, parser.states) \in Nat /\ Nest(parser.state) \in {0, 1}
      BY <3>1, CountType, OuterNest
    <3> QED BY <3>2 DEF Deep
  <2> QED BY <1>1, <1>7, <1>10, <2>2, <2>3
<1> QED BY <1>2, <1>11, <1>12, <1>15 DEF MatchedInv, TextInv

\* The tokens that begin and end blocks are those of these types.
LEMMA TypesCount ==
  ASSUME NEW q \in Seq(TokenSet)
  PROVE  /\ Count(BlockStarts, Types(q)) = Count(Openers, q)
         /\ Count({"block-end"}, Types(q)) = Count(Closers, q)
<1>1. \A i \in DOMAIN q : q[i] \in TokenSet
  BY ElementOfSeq, LenProperties
<1>2. PICK types : types = Types(q)
  OBVIOUS
<1>3. DOMAIN types = DOMAIN q /\ \A i \in DOMAIN q : types[i] = q[i].type
  BY <1>2 DEF Types
<1>4. {i \in DOMAIN types : types[i] \in BlockStarts} = {i \in DOMAIN q : q[i] \in Openers}
  BY <1>1, <1>3 DEF Openers
<1>5. {i \in DOMAIN types : types[i] \in {"block-end"}} = {i \in DOMAIN q : q[i] \in Closers}
  BY <1>1, <1>3 DEF Closers
<1> QED BY <1>2, <1>4, <1>5 DEF Count

\* The invariant says what BlocksMatch says.
LEMMA MatchedBlocks == MatchedInv /\ ParserInv => BlocksMatch
<1> SUFFICES ASSUME MatchedInv, ParserInv, ~Refused
             PROVE  Count(BlockStates, Append(parser.states, parser.state))
                      + Count(BlockStarts, Types(scanner.tokens))
                      - Count(BlockStarts, IF parser.state \in BlockFirsts
                                           THEN <<Head(scanner.tokens).type>> ELSE <<>>)
                      - Count({"block-end"}, Types(scanner.tokens))
                      = Len(scanner.indents)
  BY DEF BlocksMatch, BlockStarts, BlockFirsts
<1>1. PICK a, b, c, d, l, k :
        /\ a = Count(BlockStates, Append(parser.states, parser.state))
        /\ b = Count(BlockStarts, Types(scanner.tokens))
        /\ c = Count(BlockStarts, IF parser.state \in BlockFirsts
                                  THEN <<Head(scanner.tokens).type>> ELSE <<>>)
        /\ d = Count({"block-end"}, Types(scanner.tokens))
        /\ l = Len(scanner.indents) /\ k = Count(BlockStates, parser.states)
  OBVIOUS
<1>2. scanner.tokens \in Seq(TokenSet) /\ l \in Nat
  <2>1. CASE scanner = NewScanner
    BY <1>1, <2>1, NewScannerFacts, NoBalance
  <2>2. CASE Sound(scanner)
    BY <1>1, <2>2, SoundFacts
  <2> QED BY <2>1, <2>2 DEF MatchedInv
<1>3. /\ b = Count(Openers, scanner.tokens) /\ d = Count(Closers, scanner.tokens)
      /\ b \in Nat /\ d \in Nat
  BY <1>1, <1>2, TypesCount, CountType
<1>4. k + Nest(parser.state) + ((b - d) - l) = 0
  BY <1>1, <1>3 DEF MatchedInv, Deep, Balance
<1>5. k \in Nat /\ a = k + IF parser.state \in BlockStates THEN 1 ELSE 0
  <2>1. parser.state # "error"
    BY DEF Refused
  <2>2. parser.states \in Seq(Backs)
    BY <2>1 DEF ParserInv, WellFormed
  <2>3. PICK S : S = Backs \cup {parser.state}
    OBVIOUS
  <2>4. parser.states \in Seq(S) /\ parser.state \in S
    BY <2>2, <2>3
  <2>5. Count(BlockStates, Append(parser.states, parser.state))
          = Count(BlockStates, parser.states) + IF parser.state \in BlockStates THEN 1 ELSE 0
    BY <2>4, CountAppend
  <2> QED BY <1>1, <2>2, <2>5, CountType
<1>6. c = IF parser.state \in BlockFirsts THEN 1 ELSE 0
  <2>1. CASE parser.state \in BlockFirsts
    <3>1. Head(scanner.tokens).type = FirstToken(parser.state)
      BY <2>1 DEF ParserInv, HeadInv, Firsts, BlockFirsts
    <3>2. FirstToken(parser.state) \in BlockStarts
      BY <2>1 DEF BlockFirsts, FirstToken, BlockStarts
    <3>3. PICK h : h = Head(scanner.tokens).type
      OBVIOUS
    <3>4. c = Count(BlockStarts, <<h>>) /\ h \in BlockStarts
      BY <1>1, <2>1, <3>1, <3>2, <3>3
    <3> QED BY <2>1, <3>4, CountOne
  <2>2. CASE parser.state \notin BlockFirsts
    <3>1. c = Count(BlockStarts, <<>>)
      BY <1>1, <2>2
    <3> QED BY <2>2, <3>1, CountOne
  <2> QED BY <2>1, <2>2
<1>7. a - c = k + Nest(parser.state) /\ c \in Int
  <2>1. BlockFirsts \subseteq BlockStates
    BY DEF BlockFirsts, BlockStates
  <2>2. Nest(parser.state) = IF parser.state \in BlockStates \ BlockFirsts THEN 1 ELSE 0
    BY DEF Nest
  <2> QED BY <1>5, <1>6, <2>1, <2>2
<1>8. a + b - c - d = l
  <2>1. PICK m : m = Nest(parser.state)
    OBVIOUS
  <2>2. m \in Int /\ k + m + ((b - d) - l) = 0 /\ a - c = k + m
    BY <1>4, <1>7, <2>1, OuterNest
  <2>3. a \in Int /\ b \in Int /\ c \in Int /\ d \in Int /\ k \in Int /\ l \in Int
    BY <1>2, <1>3, <1>5, <1>7
  <2> QED BY <2>2, <2>3
<1> QED BY <1>1, <1>8

-----------------------------------------------------------------------------
(* The emitter: what it writes, and what writing leaves alone.             *)

EmitterFields == {"events", "state", "states", "indent", "indents", "flow", "line", "col",
                  "whitespace", "indention", "text"}
\* The columns of collections: -1 is outside of all of them.
Levels == {i \in Int : i >= -1}

\* An emitter whose text is one of lexemes, with this queue, state, and levels.
Emits(e, events, state, states, indent, indents) ==
  /\ DOMAIN e = EmitterFields
  /\ e.line \in Nat /\ e.col \in Nat /\ e.text \in Seq(LexemeSet)
  /\ e.indent \in Levels /\ e.indents \in Seq(Levels)
  /\ e.events = events /\ e.state = state /\ e.states = states
  /\ e.indent = indent /\ e.indents = indents

\* The writers.
LEMMA WriteEmits ==
  ASSUME NEW e, NEW ev, NEW st, NEW sts, NEW ind, NEW inds, Emits(e, ev, st, sts, ind, inds),
         NEW x \in LexemeSet, NEW a, NEW b, NEW c
  PROVE  Emits(Write(e, x, a, b, c), ev, st, sts, ind, inds)
<1>1. PICK col : col = IF a /\ ~e.whitespace THEN e.col + 1 ELSE e.col
  OBVIOUS
<1>2. e.line \in Nat /\ e.col \in Nat /\ e.text \in Seq(LexemeSet)
  BY DEF Emits
<1>3. col \in Nat /\ x.width \in Nat
  BY <1>1, <1>2, LexemeFacts
<1>4. PICK y : y = [x EXCEPT !.line = e.line, !.col = col]
  OBVIOUS
<1>5. y \in LexemeSet
  BY <1>2, <1>3, <1>4, LexemeChanges
<1>6. col + x.width \in Nat /\ Append(e.text, y) \in Seq(LexemeSet)
  BY <1>2, <1>3, <1>5, AppendProperties
<1>7. Write(e, x, a, b, c) =
        [e EXCEPT !.text = Append(@, y), !.col = col + x.width, !.whitespace = b,
                  !.indention = @ /\ c]
  BY <1>1, <1>4 DEF Write
<1> QED BY <1>6, <1>7 DEF Emits, EmitterFields

LEMMA IndentEmits ==
  ASSUME NEW e, NEW ev, NEW st, NEW sts, NEW ind, NEW inds, Emits(e, ev, st, sts, ind, inds)
  PROVE  /\ Emits(Break(e), ev, st, sts, ind, inds)
         /\ Emits(WriteIndent(e), ev, st, sts, ind, inds)
<1>1. Emits(Break(e), ev, st, sts, ind, inds)
  BY DEF Break, Emits, EmitterFields
<1>2. PICK indent : indent = IF e.indent < 0 THEN 0 ELSE e.indent
  OBVIOUS
<1>3. indent \in Nat
  BY <1>2 DEF Emits, Levels
<1>4. PICK r : r = IF ~e.indention \/ e.col > indent \/ (e.col = indent /\ ~e.whitespace)
                   THEN Break(e) ELSE e
  OBVIOUS
<1>5. Emits(r, ev, st, sts, ind, inds)
  BY <1>1, <1>4
<1>6. WriteIndent(e) = [r EXCEPT !.col = IF @ < indent THEN indent ELSE @, !.whitespace = TRUE]
  BY <1>2, <1>4 DEF WriteIndent
<1>7. (IF r.col < indent THEN indent ELSE r.col) \in Nat
  BY <1>3, <1>5 DEF Emits
<1> QED BY <1>1, <1>5, <1>6, <1>7 DEF Emits, EmitterFields

LEMMA IndicatorEmits ==
  ASSUME NEW e, NEW ev, NEW st, NEW sts, NEW ind, NEW inds, Emits(e, ev, st, sts, ind, inds),
         NEW kind \in Indicators \cup {"---"}, NEW a, NEW b, NEW c
  PROVE  Emits(Indicator(e, kind, a, b, c), ev, st, sts, ind, inds)
<1>1. PICK w : w = IF kind = "---" THEN 3 ELSE 1
  OBVIOUS
<1>2. w \in Nat /\ 0 \in Nat /\ kind \in Kinds \cup {"end"}
  BY <1>1, GivenKinds
<1>3. Lexeme(kind, Empty, 0, 0, w, 0) \in LexemeSet
  BY <1>2, LexemeType, EmptyValue
<1> QED BY <1>1, <1>3, WriteEmits DEF Indicator

\* What is written of a scalar of several lines.
LEMMA WithoutBreakType ==
  ASSUME NEW v \in ScalarSet
  PROVE  WithoutBreak(v) \in ScalarSet
BY DEF WithoutBreak, ScalarSet

LEMMA ScalarEmits ==
  ASSUME NEW e, NEW ev, NEW st, NEW sts, NEW ind \in Nat, NEW inds,
         Emits(e, ev, st, sts, ind, inds), NEW v \in ScalarSet
  PROVE  /\ Emits(WritePlain(e, v), ev, st, sts, ind, inds)
         /\ Emits(WriteQuoted(e, v), ev, st, sts, ind, inds)
         /\ Emits(WriteLiteral(e, v), ev, st, sts, ind, inds)
<1>1. Length(v) \in Nat /\ 0 \in Nat
  BY EmitterAssumption DEF Length
<1>2. "plain" \in Kinds /\ "quoted" \in Kinds /\ "literal" \in Kinds
  BY DEF Kinds
<1>3. Emits(WritePlain(e, v), ev, st, sts, ind, inds)
  <2>1. Lexeme("plain", v, 0, 0, Length(v), 0) \in LexemeSet
    BY <1>1, <1>2, LexemeType
  <2> QED BY <2>1, WriteEmits DEF WritePlain
<1>4. Emits(WriteQuoted(e, v), ev, st, sts, ind, inds)
  <2>1. Lexeme("quoted", v, 0, 0, Length(v), 0) \in LexemeSet
    BY <1>1, <1>2, LexemeType
  <2> QED BY <2>1, WriteEmits DEF WriteQuoted
<1>5. Emits(WriteLiteral(e, v), ev, st, sts, ind, inds)
  <2>1. v.lead \in Nat /\ v.final \in Nat /\ WithoutBreak(v) \in ScalarSet /\ WithoutBreak(v).breaks \in Nat
    BY WithoutBreakType DEF ScalarSet
  <2>2. PICK down : down = 3 + WithoutBreak(v).breaks + (IF v.final > 1 THEN v.final - 1 ELSE 0)
    OBVIOUS
  <2>3. down \in Nat /\ down - 1 \in Nat
    BY <2>1, <2>2
  <2>4. PICK y : y = Lexeme("literal", WithoutBreak(v), 0, 0, 1, down)
    OBVIOUS
  <2>5. y \in LexemeSet
    <3>1. 1 \in Nat /\ "literal" \in Kinds \cup {"end"}
      BY <1>2
    <3> QED BY <1>1, <2>1, <2>3, <2>4, <3>1, LexemeType
  <2>6. Hints(v) \in Nat
    <3>1. BestIndent \in Nat
      BY EmitterAssumption
    <3> QED BY <3>1 DEF Hints
  <2>7. Chomping(v) \in Int
    <3>1. CASE v.final = 0
      BY <3>1 DEF Chomping
    <3>2. CASE v.final = 1
      BY <3>2 DEF Chomping
    <3>3. CASE v.final # 0 /\ v.final # 1
      BY <3>3 DEF Chomping
    <3> QED BY <3>1, <3>2, <3>3
  <2>8. PICK x : x = [y EXCEPT !.inner = e.indent, !.hint = Hints(v), !.chomp = Chomping(v)]
    OBVIOUS
  <2>9. e.indent = ind
    BY DEF Emits
  <2>10. x \in LexemeSet
    BY <2>5, <2>6, <2>7, <2>8, <2>9, LexemeChanges
  <2>11. PICK r : r = Write(e, x, TRUE, TRUE, FALSE)
    OBVIOUS
  <2>12. Emits(r, ev, st, sts, ind, inds)
    BY <2>10, <2>11, WriteEmits
  <2>13. WriteLiteral(e, v) =
           IF v.final = 0
           THEN [r EXCEPT !.line = @ + down - 1, !.col = e.indent + 1, !.indention = FALSE]
           ELSE [r EXCEPT !.line = @ + down, !.col = 0, !.indention = TRUE]
    BY <2>2, <2>4, <2>8, <2>11 DEF WriteLiteral
  <2>14. Emits([r EXCEPT !.line = @ + down - 1, !.col = ind + 1, !.indention = FALSE],
               ev, st, sts, ind, inds)
    <3>1. r.line + down - 1 \in Nat /\ ind + 1 \in Nat
      BY <2>3, <2>12 DEF Emits
    <3> QED BY <2>12, <3>1 DEF Emits, EmitterFields
  <2>15. Emits([r EXCEPT !.line = @ + down, !.col = 0, !.indention = TRUE],
               ev, st, sts, ind, inds)
    <3>1. r.line + down \in Nat
      BY <2>3, <2>12 DEF Emits
    <3> QED BY <2>12, <3>1 DEF Emits, EmitterFields
  <2> QED BY <2>9, <2>13, <2>14, <2>15
<1> QED BY <1>3, <1>4, <1>5

\* The levels and the states.
LEMMA IncreaseEmits ==
  ASSUME NEW e, NEW ev, NEW st, NEW sts, NEW ind, NEW inds, Emits(e, ev, st, sts, ind, inds),
         NEW flow
  PROVE  \E in \in Nat : Emits(IncreaseIndent(e, flow), ev, st, sts, in, Append(inds, ind))
<1>0. PICK inside : inside = (Last(e.states) = "block sequence item")
  OBVIOUS
<1>1. PICK in : in = IF e.indent < 0 THEN (IF flow THEN BestIndent ELSE 0)
                     ELSE IF inside THEN e.indent + 2
                     ELSE BestIndent * ((e.indent + BestIndent) \div BestIndent)
  OBVIOUS
<1>2. ind \in Levels /\ inds \in Seq(Levels) /\ e.indent = ind /\ e.indents = inds
  BY DEF Emits
<1>3. in \in Nat
  <2>1. BestIndent \in 2..9
    BY EmitterAssumption
  <2>2. CASE e.indent < 0
    BY <1>1, <2>1, <2>2
  <2>3. CASE ~(e.indent < 0)
    <3>1. e.indent \in Nat
      BY <1>2, <2>3 DEF Levels
    <3>2. BestIndent * ((e.indent + BestIndent) \div BestIndent) \in Nat
      <4>1. CASE BestIndent = 2
        BY <3>1, <4>1
      <4>2. CASE BestIndent = 3
        BY <3>1, <4>2
      <4>3. CASE BestIndent = 4
        BY <3>1, <4>3
      <4>4. CASE BestIndent = 5
        BY <3>1, <4>4
      <4>5. CASE BestIndent = 6
        BY <3>1, <4>5
      <4>6. CASE BestIndent = 7
        BY <3>1, <4>6
      <4>7. CASE BestIndent = 8
        BY <3>1, <4>7
      <4>8. CASE BestIndent = 9
        BY <3>1, <4>8
      <4> QED BY <2>1, <4>1, <4>2, <4>3, <4>4, <4>5, <4>6, <4>7, <4>8
    <3> QED BY <1>1, <2>3, <3>1, <3>2
  <2> QED BY <2>2, <2>3
<1>4. Append(inds, ind) \in Seq(Levels) /\ in \in Levels
  BY <1>2, <1>3, AppendProperties DEF Levels
<1>5. IncreaseIndent(e, flow) = [e EXCEPT !.indents = Append(inds, ind), !.indent = in]
  BY <1>0, <1>1, <1>2 DEF IncreaseIndent
<1>6. Emits(IncreaseIndent(e, flow), ev, st, sts, in, Append(inds, ind))
  BY <1>4, <1>5 DEF Emits, EmitterFields
<1> QED BY <1>3, <1>6
\* A push is undone by a pop.
LEMMA PushFacts ==
  ASSUME NEW S, NEW s \in Seq(S), NEW x \in S
  PROVE  /\ Append(s, x) \in Seq(S) /\ Append(s, x) # <<>>
         /\ Last(Append(s, x)) = x /\ Front(Append(s, x)) = s
<1>1. PICK t : t = Append(s, x)
  OBVIOUS
<1>2. /\ t \in Seq(S) /\ t # <<>> /\ Len(t) = Len(s) + 1 /\ Len(s) \in Nat
      /\ DOMAIN s = 1..Len(s) /\ t[Len(s) + 1] = x /\ \A i \in 1..Len(s) : t[i] = s[i]
  BY <1>1, AppendProperties, LenProperties
<1>3. /\ Last(t) = t[Len(t)] /\ Front(t) \in Seq(S) /\ Len(Front(t)) = Len(t) - 1
      /\ \A i \in 1..Len(t) - 1 : Front(t)[i] = t[i]
  BY <1>2, FrontLast
<1>4. Len(Front(t)) = Len(s) /\ \A i \in 1..Len(s) : Front(t)[i] = s[i]
  BY <1>2, <1>3
<1>5. Front(t) = s
  BY <1>3, <1>4, SeqEqual
<1> QED BY <1>1, <1>2, <1>3, <1>5

\* What the steps of the state machine do to the queue, the state and the levels.
LEMMA DecreaseEmits ==
  ASSUME NEW e, NEW ev, NEW st, NEW sts, NEW ind, NEW inds, Emits(e, ev, st, sts, ind, inds),
         inds # <<>>
  PROVE  \E up \in Levels : Emits(DecreaseIndent(e), ev, st, sts, up, Front(inds))
<1>1. inds \in Seq(Levels) /\ e.indents = inds
  BY DEF Emits
<1>2. Last(inds) \in Levels /\ Front(inds) \in Seq(Levels)
  BY <1>1, FrontLast
<1>3. PICK up : up = Last(inds)
  OBVIOUS
<1>4. DecreaseIndent(e) = [e EXCEPT !.indent = up, !.indents = Front(inds)]
  BY <1>1, <1>3 DEF DecreaseIndent
<1>5. Emits(DecreaseIndent(e), ev, st, sts, up, Front(inds))
  BY <1>2, <1>3, <1>4 DEF Emits, EmitterFields
<1> QED BY <1>2, <1>3, <1>5

LEMMA StateEmits ==
  ASSUME NEW e, NEW ev, NEW st, NEW sts, NEW ind, NEW inds, Emits(e, ev, st, sts, ind, inds)
  PROVE  /\ \A s : Emits(Become(e, s), ev, s, sts, ind, inds)
         /\ \A s : Emits(Later(e, s), ev, st, Append(sts, s), ind, inds)
         /\ Emits(Resume(e), ev, Last(sts), Front(sts), ind, inds)
         /\ \A n : Emits([e EXCEPT !.flow = n], ev, st, sts, ind, inds)
         /\ \A q : Emits([e EXCEPT !.events = q], q, st, sts, ind, inds)
<1>1. ASSUME NEW s
      PROVE  Emits(Become(e, s), ev, s, sts, ind, inds)
  BY DEF Become, Emits, EmitterFields
<1>2. ASSUME NEW s
      PROVE  Emits(Later(e, s), ev, st, Append(sts, s), ind, inds)
  BY DEF Later, Emits, EmitterFields
<1>3. Emits(Resume(e), ev, Last(sts), Front(sts), ind, inds)
  <2>1. PICK back, rest : back = Last(sts) /\ rest = Front(sts)
    OBVIOUS
  <2>2. e.states = sts
    BY DEF Emits
  <2>3. Resume(e) = [e EXCEPT !.state = back, !.states = rest]
    BY <2>1, <2>2 DEF Resume
  <2>4. Emits(Resume(e), ev, back, rest, ind, inds)
    BY <2>3 DEF Emits, EmitterFields
  <2> QED BY <2>1, <2>4
<1>4. ASSUME NEW n
      PROVE  Emits([e EXCEPT !.flow = n], ev, st, sts, ind, inds)
  BY DEF Emits, EmitterFields
<1>5. ASSUME NEW q
      PROVE  Emits([e EXCEPT !.events = q], q, st, sts, ind, inds)
  BY DEF Emits, EmitterFields
<1> QED BY <1>1, <1>2, <1>3, <1>4, <1>5

\* A scalar opens a level, is written there, and closes it: the state is the one the
\* stack held, and the indentation a literal is given is never that of the outside.
LEMMA EmitScalarEmits ==
  ASSUME NEW e, NEW ev, NEW st, NEW sts, NEW ind, NEW inds, Emits(e, ev, st, sts, ind, inds),
         NEW v \in ScalarSet
  PROVE  \E up \in Levels : Emits(EmitScalar(e, v), ev, Last(sts), Front(sts), up, inds)
<1>1. PICK r : r = IncreaseIndent(e, TRUE)
  OBVIOUS
<1>2. PICK in \in Nat : Emits(r, ev, st, sts, in, Append(inds, ind))
  BY <1>1, IncreaseEmits
<1>3. inds \in Seq(Levels) /\ ind \in Levels
  BY DEF Emits
<1>4. Append(inds, ind) # <<>> /\ Front(Append(inds, ind)) = inds
  BY <1>3, PushFacts
<1>5. PICK w : w = CASE Style(e, v) = "plain"   -> WritePlain(r, v)
                     [] Style(e, v) = "literal" -> WriteLiteral(r, v)
                     [] Style(e, v) = "quoted"  -> WriteQuoted(r, v)
  OBVIOUS
<1>6. Emits(w, ev, st, sts, in, Append(inds, ind))
  <2>1. /\ Emits(WritePlain(r, v), ev, st, sts, in, Append(inds, ind))
        /\ Emits(WriteQuoted(r, v), ev, st, sts, in, Append(inds, ind))
        /\ Emits(WriteLiteral(r, v), ev, st, sts, in, Append(inds, ind))
    BY <1>2, ScalarEmits
  <2>2. w \in {WritePlain(r, v), WriteQuoted(r, v), WriteLiteral(r, v)}
    BY <1>5 DEF Style
  <2> QED BY <2>1, <2>2
<1>7. PICK up \in Levels : Emits(DecreaseIndent(w), ev, st, sts, up, inds)
  BY <1>4, <1>6, DecreaseEmits
<1>8. EmitScalar(e, v) = Resume(DecreaseIndent(w))
  BY <1>1, <1>5 DEF EmitScalar
<1> QED BY <1>7, <1>8, StateEmits

-----------------------------------------------------------------------------
(* The state machine of the emitter is inside of what its stack says, and   *)
(* has one level of indentation for each collection that is begun.          *)

EmitFirsts == {"flow sequence first", "flow mapping first", "block sequence first",
               "block mapping first"}
EmitOpened == {"flow sequence item", "flow mapping key", "flow mapping simple value",
               "flow mapping value", "block sequence item", "block mapping key",
               "block mapping simple value", "block mapping value"}
EmitOuter  == {"first document start", "document start", "document content",
               "document end", "end"}
EmitStates == EmitOpened \cup {"document end"}

\* The states of the collections around, outermost first, in a document.
Stacked(states) ==
  /\ states \in Seq(EmitStates) /\ states # <<>> /\ states[1] = "document end"
  /\ \A i \in 2..Len(states) : states[i] \in EmitOpened

\* Inside of a collection; where it will go on once a node is complete; anywhere.
Within(states, depth) == Stacked(states) /\ depth = Len(states)
Behaves(back, states, depth) ==
  \/ back = "document end" /\ states = <<>> /\ depth = 0
  \/ back \in EmitOpened /\ Within(states, depth)
Nested(state, states, depth) ==
  \/ state \in EmitOuter /\ states = <<>> /\ depth = 0
  \/ state \in EmitFirsts /\ Stacked(states) /\ depth = Len(states) - 1
  \/ state \in EmitOpened /\ Within(states, depth)
  \/ state = "error"

\* An emitter with this queue, wherever it is.
Fits(e, events) ==
  \E indent, indents : /\ Emits(e, events, e.state, e.states, indent, indents)
                       /\ Nested(e.state, e.states, Len(indents))

LEMMA NestedReturn ==
  ASSUME NEW back, NEW states, NEW depth, Behaves(back, states, depth)
  PROVE  /\ Nested(back, states, depth)
         /\ Append(states, back) # <<>>
         /\ Last(Append(states, back)) = back /\ Front(Append(states, back)) = states
         /\ \A first \in EmitFirsts : Nested(first, Append(states, back), depth)
<1>1. /\ states \in Seq(EmitStates) /\ back \in EmitStates /\ depth = Len(states)
      /\ Len(states) \in Nat
  <2>1. CASE back = "document end" /\ states = <<>> /\ depth = 0
    <3>1. states \in Seq(EmitStates) /\ Len(states) = 0
      BY <2>1, EmptySeq
    <3>2. back \in EmitStates
      BY <2>1 DEF EmitStates
    <3> QED BY <2>1, <3>1, <3>2
  <2>2. CASE back \in EmitOpened /\ Within(states, depth)
    BY <2>2, LenProperties DEF EmitStates, Within, Stacked
  <2> QED BY <2>1, <2>2 DEF Behaves
<1>2. PICK t : t = Append(states, back)
  OBVIOUS
<1>3. t \in Seq(EmitStates) /\ t # <<>> /\ Last(t) = back /\ Front(t) = states
  BY <1>1, <1>2, PushFacts
<1>4. /\ Len(t) = Len(states) + 1 /\ \A i \in 1..Len(states) : t[i] = states[i]
      /\ t[Len(states) + 1] = back
  BY <1>1, <1>2, AppendProperties
<1>5. Nested(back, states, depth)
  BY DEF Behaves, Nested, EmitOuter
<1>6. Stacked(t)
  <2>1. CASE back = "document end" /\ states = <<>> /\ depth = 0
    <3>1. Len(states) = 0
      BY <2>1
    <3>2. t[1] = back /\ Len(t) = 1
      BY <1>4, <3>1
    <3>3. 2..Len(t) = {}
      BY <3>2
    <3> QED BY <1>3, <2>1, <3>2, <3>3 DEF Stacked
  <2>2. CASE back \in EmitOpened /\ Within(states, depth)
    <3>1. Stacked(states)
      BY <2>2 DEF Within
    <3>2. Len(states) # 0
      <4>1. states # <<>>
        BY <3>1 DEF Stacked
      <4> QED BY <1>1, <4>1, EmptySeq
    <3>3. 1 \in 1..Len(states)
      BY <1>1, <3>2
    <3>4. t[1] = states[1]
      BY <1>4, <3>3
    <3>5. ASSUME NEW i \in 2..Len(t)
          PROVE  t[i] \in EmitOpened
      <4>1. i \in 2..Len(states) \/ i = Len(states) + 1
        BY <1>1, <1>4
      <4>2. CASE i \in 2..Len(states)
        <5>1. i \in 1..Len(states)
          BY <1>1, <4>2
        <5>2. states[i] \in EmitOpened
          BY <3>1, <4>2 DEF Stacked
        <5> QED BY <1>4, <5>1, <5>2
      <4>3. CASE i = Len(states) + 1
        BY <1>4, <2>2, <4>3
      <4> QED BY <4>1, <4>2, <4>3
    <3> QED BY <1>3, <3>1, <3>4, <3>5 DEF Stacked
  <2> QED BY <2>1, <2>2 DEF Behaves
<1>7. ASSUME NEW first \in EmitFirsts
      PROVE  Nested(first, t, depth)
  <2>1. depth = Len(t) - 1
    BY <1>1, <1>4
  <2> QED BY <1>6, <2>1 DEF Nested
<1> QED BY <1>2, <1>3, <1>5, <1>7

LEMMA NestedPop ==
  ASSUME NEW states, Stacked(states), NEW depth, depth = Len(states) - 1
  PROVE  Nested(Last(states), Front(states), depth)
<1>1. states \in Seq(EmitStates) /\ states # <<>>
  BY DEF Stacked
<1>2. PICK b, f : b = Last(states) /\ f = Front(states)
  OBVIOUS
<1>3. /\ Len(states) \in Nat \ {0} /\ b = states[Len(states)] /\ f \in Seq(EmitStates)
      /\ Len(f) = Len(states) - 1 /\ \A i \in 1..Len(states) - 1 : f[i] = states[i]
  BY <1>1, <1>2, FrontLast
<1>4. CASE Len(states) = 1
  <2>1. b = "document end"
    BY <1>3, <1>4 DEF Stacked
  <2>2. Len(f) = 0
    BY <1>3, <1>4
  <2>3. f = <<>>
    BY <1>3, <2>2, EmptySeq
  <2>4. depth = 0
    BY <1>4
  <2> QED BY <1>2, <2>1, <2>3, <2>4 DEF Nested, EmitOuter
<1>5. CASE Len(states) # 1
  <2>1. Len(states) \in 2..Len(states) /\ 1 \in 1..Len(states) - 1
    BY <1>3, <1>5
  <2>2. b \in EmitOpened
    BY <1>3, <2>1 DEF Stacked
  <2>3. f[1] = "document end"
    <3>1. f[1] = states[1]
      BY <1>3, <2>1
    <3> QED BY <3>1 DEF Stacked
  <2>4. f # <<>>
    <3>1. Len(f) # 0
      BY <1>3, <1>5
    <3> QED BY <3>1
  <2>5. ASSUME NEW i \in 2..Len(f)
        PROVE  f[i] \in EmitOpened
    <3>1. i \in 2..Len(states) /\ i \in 1..Len(states) - 1
      BY <1>3
    <3> QED BY <1>3, <3>1 DEF Stacked
  <2>6. Stacked(f)
    BY <1>3, <2>3, <2>4, <2>5 DEF Stacked
  <2>7. depth = Len(f)
    BY <1>3
  <2> QED BY <1>2, <2>2, <2>6, <2>7 DEF Nested, Within
<1> QED BY <1>4, <1>5

\* An emitter inside of a collection, between two of its nodes.
Inside(e, events) ==
  \E state, states, indent, indents :
    Emits(e, events, state, states, indent, indents) /\ Within(states, Len(indents))

LEMMA FitsNested ==
  ASSUME NEW e, NEW ev, NEW st, NEW sts, NEW ind, NEW inds, Emits(e, ev, st, sts, ind, inds),
         Nested(st, sts, Len(inds))
  PROVE  Fits(e, ev)
<1>1. e.state = st /\ e.states = sts
  BY DEF Emits
<1> QED BY <1>1 DEF Fits

\* Going in: a level for the collection; an emitter that was inside still is.
LEMMA GoesIn ==
  ASSUME NEW e, NEW ev, Fits(e, ev)
  PROVE  /\ e.state \in EmitFirsts => \A flow : Inside(IncreaseIndent(e, flow), ev)
         /\ e.state \in EmitFirsts => \A kind \in Indicators : Inside(OpenFlow(e, kind), ev)
         /\ e.state \in EmitOpened => Inside(e, ev)
<1>1. PICK st, sts : st = e.state /\ sts = e.states
  OBVIOUS
<1>2. PICK ind, inds : Emits(e, ev, st, sts, ind, inds) /\ Nested(st, sts, Len(inds))
  BY <1>1 DEF Fits
<1>3. ind \in Levels /\ inds \in Seq(Levels) /\ Len(inds) \in Nat
  BY <1>2, LenProperties DEF Emits
<1>4. ASSUME st \in EmitFirsts
      PROVE  Within(sts, Len(Append(inds, ind)))
  <2>1. Stacked(sts) /\ Len(inds) = Len(sts) - 1
    BY <1>2, <1>4 DEF Nested, EmitOuter, EmitFirsts, EmitOpened
  <2>2. Len(sts) \in Nat
    BY <2>1, LenProperties DEF Stacked
  <2>3. Len(Append(inds, ind)) = Len(inds) + 1
    BY <1>3, AppendProperties
  <2>4. Len(Append(inds, ind)) = Len(sts)
    BY <1>3, <2>1, <2>2, <2>3
  <2> QED BY <2>1, <2>4 DEF Within
<1>5. ASSUME NEW r, Emits(r, ev, st, sts, ind, inds), st \in EmitFirsts, NEW flow
      PROVE  Inside(IncreaseIndent(r, flow), ev)
  <2>1. PICK in \in Nat : Emits(IncreaseIndent(r, flow), ev, st, sts, in, Append(inds, ind))
    BY <1>5, IncreaseEmits
  <2> QED BY <1>4, <1>5, <2>1 DEF Inside
<1>6. ASSUME NEW kind \in Indicators, st \in EmitFirsts
      PROVE  Inside(OpenFlow(e, kind), ev)
  <2>1. PICK w : w = Indicator(e, kind, TRUE, TRUE, FALSE)
    OBVIOUS
  <2>2. Emits(w, ev, st, sts, ind, inds)
    BY <1>2, <2>1, IndicatorEmits
  <2>3. PICK r : r = IncreaseIndent(w, TRUE)
    OBVIOUS
  <2>4. PICK st2, sts2, ind2, inds2 :
          Emits(r, ev, st2, sts2, ind2, inds2) /\ Within(sts2, Len(inds2))
    BY <1>5, <1>6, <2>2, <2>3 DEF Inside
  <2>5. PICK n : n = r.flow + 1
    OBVIOUS
  <2>6. OpenFlow(e, kind) = [r EXCEPT !.flow = n]
    BY <2>1, <2>3, <2>5 DEF OpenFlow
  <2>7. Emits([r EXCEPT !.flow = n], ev, st2, sts2, ind2, inds2)
    BY <2>4, StateEmits
  <2> QED BY <2>4, <2>6, <2>7 DEF Inside
<1>7. ASSUME st \in EmitOpened
      PROVE  Inside(e, ev)
  <2>1. Within(sts, Len(inds))
    BY <1>2, <1>7 DEF Nested, EmitOuter, EmitFirsts, EmitOpened
  <2> QED BY <1>2, <2>1 DEF Inside
<1> QED BY <1>1, <1>2, <1>5, <1>6, <1>7

\* Writing inside.
LEMMA InsideWrites ==
  ASSUME NEW e, NEW ev, Inside(e, ev)
  PROVE  /\ Inside(WriteIndent(e), ev)
         /\ \A kind \in Indicators : \A a, b, c : Inside(Indicator(e, kind, a, b, c), ev)
         /\ \A first : Inside(Comma(e, first), ev)
<1>1. PICK st, sts, ind, inds : Emits(e, ev, st, sts, ind, inds) /\ Within(sts, Len(inds))
  BY DEF Inside
<1>2. Inside(WriteIndent(e), ev)
  BY <1>1, IndentEmits DEF Inside
<1>3. ASSUME NEW kind \in Indicators, NEW a, NEW b, NEW c
      PROVE  Inside(Indicator(e, kind, a, b, c), ev)
  <2>1. Emits(Indicator(e, kind, a, b, c), ev, st, sts, ind, inds)
    BY <1>1, IndicatorEmits
  <2> QED BY <1>1, <2>1 DEF Inside
<1>4. ASSUME NEW first
      PROVE  Inside(Comma(e, first), ev)
  <2>1. "," \in Indicators
    BY DEF Indicators
  <2>2. Inside(Indicator(e, ",", FALSE, FALSE, FALSE), ev)
    BY <1>3, <2>1
  <2>3. Comma(e, first) = e \/ Comma(e, first) = Indicator(e, ",", FALSE, FALSE, FALSE)
    BY DEF Comma
  <2> QED BY <2>2, <2>3
<1> QED BY <1>2, <1>3, <1>4

\* Going out: the level and the state are those of the collection around.
LEMMA GoesOut ==
  ASSUME NEW e, NEW ev, Inside(e, ev)
  PROVE  /\ Fits(Resume(DecreaseIndent(e)), ev)
         /\ \A kind \in Indicators : Fits(CloseFlow(e, kind), ev)
<1>1. PICK st, sts, ind, inds : Emits(e, ev, st, sts, ind, inds) /\ Within(sts, Len(inds))
  BY DEF Inside
<1>2. inds \in Seq(Levels) /\ Stacked(sts) /\ Len(inds) = Len(sts)
  BY <1>1 DEF Emits, Within
<1>3. inds # <<>>
  <2>1. sts \in Seq(EmitStates) /\ sts # <<>>
    BY <1>2 DEF Stacked
  <2>2. Len(sts) # 0
    BY <2>1, EmptySeq
  <2> QED BY <1>2, <2>2, EmptySeq
<1>4. Len(Front(inds)) = Len(sts) - 1
  BY <1>2, <1>3, FrontLast
<1>5. Nested(Last(sts), Front(sts), Len(Front(inds)))
  BY <1>2, <1>4, NestedPop
<1>6. PICK d : d = DecreaseIndent(e)
  OBVIOUS
<1>7. PICK up \in Levels : Emits(d, ev, st, sts, up, Front(inds))
  BY <1>1, <1>3, <1>6, DecreaseEmits
<1>8. ASSUME NEW r, Emits(r, ev, st, sts, up, Front(inds))
      PROVE  Fits(Resume(r), ev)
  <2>1. Emits(Resume(r), ev, Last(sts), Front(sts), up, Front(inds))
    BY <1>8, StateEmits
  <2> QED BY <1>5, <2>1, FitsNested
<1>9. ASSUME NEW kind \in Indicators
      PROVE  Fits(CloseFlow(e, kind), ev)
  <2>1. PICK n : n = d.flow - 1
    OBVIOUS
  <2>2. PICK f : f = [d EXCEPT !.flow = n]
    OBVIOUS
  <2>3. Emits(f, ev, st, sts, up, Front(inds))
    BY <1>7, <2>2, StateEmits
  <2>4. Emits(Indicator(f, kind, FALSE, FALSE, FALSE), ev, st, sts, up, Front(inds))
    BY <2>3, IndicatorEmits
  <2>5. CloseFlow(e, kind) = Resume(Indicator(f, kind, FALSE, FALSE, FALSE))
    BY <1>6, <2>1, <2>2 DEF CloseFlow
  <2> QED BY <1>8, <2>4, <2>5
<1> QED BY <1>6, <1>7, <1>8, <1>9

\* A node: a scalar is complete at once, a collection begins.
LEMMA NodeFits ==
  ASSUME NEW e, NEW ev, NEW st, NEW sts, NEW back, NEW ind, NEW inds,
         Emits(e, ev, st, Append(sts, back), ind, inds), Behaves(back, sts, Len(inds)),
         NEW event, event.value \in ScalarSet
  PROVE  Fits(EmitNode(e, event), ev)
<1>1. PICK all : all = Append(sts, back)
  OBVIOUS
<1>2. /\ Nested(back, sts, Len(inds)) /\ Last(all) = back /\ Front(all) = sts
      /\ \A first \in EmitFirsts : Nested(first, all, Len(inds))
  BY <1>1, NestedReturn
<1>3. Emits(e, ev, st, all, ind, inds)
  BY <1>1
<1>4. ASSUME NEW first \in EmitFirsts \cup {"error"}
      PROVE  Fits(Become(e, first), ev)
  <2>1. Nested(first, all, Len(inds))
    BY <1>2, <1>4 DEF Nested
  <2>2. Emits(Become(e, first), ev, first, all, ind, inds)
    BY <1>3, StateEmits
  <2> QED BY <2>1, <2>2, FitsNested
<1>5. ASSUME NEW inFlow \in EmitFirsts, NEW inBlock \in EmitFirsts
      PROVE  Fits(EmitCollection(e, event, inFlow, inBlock), ev)
  <2>1. PICK s : s = IF e.flow > 0 \/ event.flow \/ EmptyCollection(e) THEN inFlow ELSE inBlock
    OBVIOUS
  <2>2. s \in EmitFirsts \cup {"error"}
    BY <2>1
  <2>3. EmitCollection(e, event, inFlow, inBlock) = Become(e, s)
    BY <2>1 DEF EmitCollection
  <2> QED BY <1>4, <2>2, <2>3
<1>6. CASE event.type = "scalar"
  <2>1. EmitNode(e, event) = EmitScalar(e, event.value)
    BY <1>6 DEF EmitNode
  <2>2. PICK up \in Levels :
          Emits(EmitScalar(e, event.value), ev, Last(all), Front(all), up, inds)
    BY <1>3, EmitScalarEmits
  <2>3. Emits(EmitScalar(e, event.value), ev, back, sts, up, inds)
    BY <1>2, <2>2
  <2> QED BY <1>2, <2>1, <2>3, FitsNested
<1>7. CASE event.type = "sequence-start"
  <2>1. EmitNode(e, event) =
          EmitCollection(e, event, "flow sequence first", "block sequence first")
    BY <1>7 DEF EmitNode
  <2>2. "flow sequence first" \in EmitFirsts /\ "block sequence first" \in EmitFirsts
    BY DEF EmitFirsts
  <2> QED BY <1>5, <2>1, <2>2
<1>8. CASE event.type = "mapping-start"
  <2>1. EmitNode(e, event) =
          EmitCollection(e, event, "flow mapping first", "block mapping first")
    BY <1>8 DEF EmitNode
  <2>2. "flow mapping first" \in EmitFirsts /\ "block mapping first" \in EmitFirsts
    BY DEF EmitFirsts
  <2> QED BY <1>5, <2>1, <2>2
<1>9. CASE event.type \notin {"scalar", "sequence-start", "mapping-start"}
  <2>1. EmitNode(e, event) = Become(e, "error")
    BY <1>9 DEF EmitNode
  <2> QED BY <1>4, <2>1
<1> QED BY <1>6, <1>7, <1>8, <1>9

\* A node inside of a collection.
LEMMA ItemFits ==
  ASSUME NEW e, NEW ev, Inside(e, ev), NEW back \in EmitOpened,
         NEW event, event.value \in ScalarSet
  PROVE  Fits(EmitNode(Later(e, back), event), ev)
<1>1. PICK st, sts, ind, inds : Emits(e, ev, st, sts, ind, inds) /\ Within(sts, Len(inds))
  BY DEF Inside
<1>2. Emits(Later(e, back), ev, st, Append(sts, back), ind, inds)
  BY <1>1, StateEmits
<1>3. Behaves(back, sts, Len(inds))
  BY <1>1 DEF Behaves
<1> QED BY <1>2, <1>3, NodeFits

\* The functions of the states, one by one.
LEMMA FlowSequenceFits ==
  ASSUME NEW e, NEW ev, Fits(e, ev), NEW event, event.value \in ScalarSet,
         NEW first \in BOOLEAN, e.state \in (IF first THEN EmitFirsts ELSE EmitOpened)
  PROVE  Fits(EmitFlowSequenceItem(e, event, first), ev)
<1>1. PICK r : r = IF first THEN OpenFlow(e, "[") ELSE e
  OBVIOUS
<1>2. "[" \in Indicators /\ "]" \in Indicators /\ "flow sequence item" \in EmitOpened
  BY DEF Indicators, EmitOpened
<1>3. Inside(r, ev)
  BY <1>1, <1>2, GoesIn
<1>4. Fits(CloseFlow(r, "]"), ev)
  BY <1>2, <1>3, GoesOut
<1>5. Inside(Comma(r, first), ev)
  BY <1>3, InsideWrites
<1>6. Fits(EmitNode(Later(Comma(r, first), "flow sequence item"), event), ev)
  BY <1>2, <1>5, ItemFits
<1> QED BY <1>1, <1>4, <1>6 DEF EmitFlowSequenceItem

LEMMA FlowMappingFits ==
  ASSUME NEW e, NEW ev, Fits(e, ev), NEW event, event.value \in ScalarSet,
         NEW first \in BOOLEAN, e.state \in (IF first THEN EmitFirsts ELSE EmitOpened)
  PROVE  Fits(EmitFlowMappingKey(e, event, first), ev)
<1>1. PICK r : r = IF first THEN OpenFlow(e, "{") ELSE e
  OBVIOUS
<1>2. /\ "{" \in Indicators /\ "}" \in Indicators /\ "?" \in Indicators
      /\ "flow mapping simple value" \in EmitOpened /\ "flow mapping value" \in EmitOpened
  BY DEF Indicators, EmitOpened
<1>3. Inside(r, ev)
  BY <1>1, <1>2, GoesIn
<1>4. Fits(CloseFlow(r, "}"), ev)
  BY <1>2, <1>3, GoesOut
<1>5. PICK c : c = Comma(r, first)
  OBVIOUS
<1>6. Inside(c, ev)
  BY <1>3, <1>5, InsideWrites
<1>7. Inside(Indicator(c, "?", TRUE, FALSE, FALSE), ev)
  BY <1>2, <1>6, InsideWrites
<1>8. Fits(EmitNode(Later(c, "flow mapping simple value"), event), ev)
  BY <1>2, <1>6, ItemFits
<1>9. Fits(EmitNode(Later(Indicator(c, "?", TRUE, FALSE, FALSE), "flow mapping value"), event), ev)
  BY <1>2, <1>7, ItemFits
<1> QED BY <1>1, <1>4, <1>5, <1>8, <1>9 DEF EmitFlowMappingKey

LEMMA FlowValueFits ==
  ASSUME NEW e, NEW ev, Fits(e, ev), NEW event, event.value \in ScalarSet,
         e.state \in EmitOpened
  PROVE  Fits(EmitFlowMappingValue(e, event), ev)
<1>1. ":" \in Indicators /\ "flow mapping key" \in EmitOpened
  BY DEF Indicators, EmitOpened
<1>2. PICK complex : complex = ~(e.state = "flow mapping simple value")
  OBVIOUS
<1>3. Inside(Indicator(e, ":", complex, FALSE, FALSE), ev)
  BY <1>1, GoesIn, InsideWrites
<1>4. Fits(EmitNode(Later(Indicator(e, ":", complex, FALSE, FALSE), "flow mapping key"), event), ev)
  BY <1>1, <1>3, ItemFits
<1> QED BY <1>2, <1>4 DEF EmitFlowMappingValue

LEMMA BlockSequenceFits ==
  ASSUME NEW e, NEW ev, Fits(e, ev), NEW event, event.value \in ScalarSet,
         NEW first \in BOOLEAN, e.state \in (IF first THEN EmitFirsts ELSE EmitOpened)
  PROVE  Fits(EmitBlockSequenceItem(e, event, first), ev)
<1>1. PICK r : r = IF first THEN IncreaseIndent(e, FALSE) ELSE e
  OBVIOUS
<1>2. "-" \in Indicators /\ "block sequence item" \in EmitOpened
  BY DEF Indicators, EmitOpened
<1>3. Inside(r, ev)
  BY <1>1, GoesIn
<1>4. Fits(Resume(DecreaseIndent(r)), ev)
  BY <1>3, GoesOut
<1>5. Inside(Indicator(WriteIndent(r), "-", TRUE, FALSE, TRUE), ev)
  <2>1. Inside(WriteIndent(r), ev)
    BY <1>3, InsideWrites
  <2> QED BY <1>2, <2>1, InsideWrites
<1>6. Fits(EmitNode(Later(Indicator(WriteIndent(r), "-", TRUE, FALSE, TRUE),
                          "block sequence item"), event), ev)
  BY <1>2, <1>5, ItemFits
<1> QED BY <1>1, <1>4, <1>6 DEF EmitBlockSequenceItem

LEMMA BlockMappingFits ==
  ASSUME NEW e, NEW ev, Fits(e, ev), NEW event, event.value \in ScalarSet,
         NEW first \in BOOLEAN, e.state \in (IF first THEN EmitFirsts ELSE EmitOpened)
  PROVE  Fits(EmitBlockMappingKey(e, event, first), ev)
<1>1. PICK r : r = IF first THEN IncreaseIndent(e, FALSE) ELSE e
  OBVIOUS
<1>2. /\ "?" \in Indicators
      /\ "block mapping simple value" \in EmitOpened /\ "block mapping value" \in EmitOpened
  BY DEF Indicators, EmitOpened
<1>3. Inside(r, ev)
  BY <1>1, GoesIn
<1>4. Fits(Resume(DecreaseIndent(r)), ev)
  BY <1>3, GoesOut
<1>5. PICK w : w = WriteIndent(r)
  OBVIOUS
<1>6. Inside(w, ev)
  BY <1>3, <1>5, InsideWrites
<1>7. Inside(Indicator(w, "?", TRUE, FALSE, TRUE), ev)
  BY <1>2, <1>6, InsideWrites
<1>8. Fits(EmitNode(Later(w, "block mapping simple value"), event), ev)
  BY <1>2, <1>6, ItemFits
<1>9. Fits(EmitNode(Later(Indicator(w, "?", TRUE, FALSE, TRUE), "block mapping value"), event), ev)
  BY <1>2, <1>7, ItemFits
<1> QED BY <1>1, <1>4, <1>5, <1>8, <1>9 DEF EmitBlockMappingKey

LEMMA BlockValueFits ==
  ASSUME NEW e, NEW ev, Fits(e, ev), NEW event, event.value \in ScalarSet,
         e.state \in EmitOpened
  PROVE  Fits(EmitBlockMappingValue(e, event), ev)
<1>1. ":" \in Indicators /\ "block mapping key" \in EmitOpened
  BY DEF Indicators, EmitOpened
<1>2. PICK simple : simple = (e.state = "block mapping simple value")
  OBVIOUS
<1>3. PICK r : r = IF simple THEN Indicator(e, ":", FALSE, FALSE, FALSE)
                   ELSE Indicator(WriteIndent(e), ":", TRUE, FALSE, TRUE)
  OBVIOUS
<1>4. Inside(r, ev)
  <2>1. Inside(e, ev)
    BY GoesIn
  <2>2. Inside(Indicator(e, ":", FALSE, FALSE, FALSE), ev)
    BY <1>1, <2>1, InsideWrites
  <2>3. Inside(WriteIndent(e), ev)
    BY <2>1, InsideWrites
  <2>4. Inside(Indicator(WriteIndent(e), ":", TRUE, FALSE, TRUE), ev)
    BY <1>1, <2>3, InsideWrites
  <2> QED BY <1>3, <2>2, <2>4
<1>5. Fits(EmitNode(Later(r, "block mapping key"), event), ev)
  BY <1>1, <1>4, ItemFits
<1> QED BY <1>2, <1>3, <1>5 DEF EmitBlockMappingValue

\* The documents.
LEMMA DocumentFits ==
  ASSUME NEW e, NEW ev, Fits(e, ev), e.state \in EmitOuter,
         NEW event, event.value \in ScalarSet
  PROVE  /\ Fits(EmitDocumentStart(e, event), ev) /\ Fits(EmitDocumentEnd(e, event), ev)
         /\ Fits(EmitNode(Later(e, "document end"), event), ev)
         /\ Fits(Become(e, "error"), ev)
<1>1. PICK st : st = e.state
  OBVIOUS
<1>2. PICK ind, inds : Emits(e, ev, st, <<>>, ind, inds) /\ Len(inds) = 0
  <2>1. PICK ind, inds :
          Emits(e, ev, e.state, e.states, ind, inds) /\ Nested(e.state, e.states, Len(inds))
    BY DEF Fits
  <2>2. e.states = <<>> /\ Len(inds) = 0
    BY <2>1 DEF Nested, EmitOuter, EmitFirsts, EmitOpened
  <2> QED BY <1>1, <2>1, <2>2
<1>3. ASSUME NEW r, Emits(r, ev, st, <<>>, ind, inds), NEW s \in EmitOuter \cup {"error"}
      PROVE  Fits(Become(r, s), ev)
  <2>1. Nested(s, <<>>, Len(inds))
    BY <1>2, <1>3 DEF Nested
  <2>2. Emits(Become(r, s), ev, s, <<>>, ind, inds)
    BY <1>3, StateEmits
  <2> QED BY <2>1, <2>2, FitsNested
<1>4. PICK i, w, d : /\ i = WriteIndent(e) /\ w = Indicator(i, "---", TRUE, FALSE, FALSE)
                     /\ d = WriteIndent(w)
  OBVIOUS
<1>5. /\ Emits(i, ev, st, <<>>, ind, inds) /\ Emits(d, ev, st, <<>>, ind, inds)
  <2>1. Emits(i, ev, st, <<>>, ind, inds)
    BY <1>2, <1>4, IndentEmits
  <2>2. Emits(w, ev, st, <<>>, ind, inds)
    BY <1>4, <2>1, IndicatorEmits
  <2> QED BY <1>4, <2>1, <2>2, IndentEmits
<1>6. /\ "end" \in EmitOuter /\ "document content" \in EmitOuter /\ "document start" \in EmitOuter
  BY DEF EmitOuter
<1>7. Fits(Become(e, "error"), ev)
  BY <1>2, <1>3
<1>8. Fits(EmitDocumentStart(e, event), ev)
  <2>1. PICK r : r = IF e.state = "first document start" THEN e ELSE d
    OBVIOUS
  <2>2. Emits(r, ev, st, <<>>, ind, inds)
    BY <1>2, <1>5, <2>1
  <2>3. /\ Fits(Become(e, "end"), ev) /\ Fits(Become(r, "document content"), ev)
    BY <1>2, <1>3, <1>6, <2>2
  <2>4. EmitDocumentStart(e, event) =
          CASE event.type = "stream-end" -> Become(e, "end")
            [] event.type = "document-start" -> Become(r, "document content")
            [] OTHER -> Become(e, "error")
    BY <1>4, <2>1 DEF EmitDocumentStart
  <2>5. EmitDocumentStart(e, event) \in
          {Become(e, "end"), Become(r, "document content"), Become(e, "error")}
    BY <2>4
  <2> QED BY <1>7, <2>3, <2>5
<1>9. Fits(EmitDocumentEnd(e, event), ev)
  <2>1. Fits(Become(i, "document start"), ev)
    BY <1>3, <1>5, <1>6
  <2> QED BY <1>4, <1>7, <2>1 DEF EmitDocumentEnd
<1>10. Fits(EmitNode(Later(e, "document end"), event), ev)
  <2>1. Behaves("document end", <<>>, Len(inds))
    BY <1>2 DEF Behaves
  <2>2. Emits(Later(e, "document end"), ev, st, Append(<<>>, "document end"), ind, inds)
    BY <1>2, StateEmits
  <2> QED BY <2>1, <2>2, NodeFits
<1> QED BY <1>7, <1>8, <1>9, <1>10

\* One turn of the state machine, in any of its states.
LEMMA DispatchFits ==
  ASSUME NEW e, NEW ev, Fits(e, ev), e.state # "error", NEW event, event.value \in ScalarSet
  PROVE  Fits(Dispatch(e, event), ev)
<1>1. e.state \in EmitOuter \cup EmitFirsts \cup EmitOpened
  BY DEF Fits, Nested
<1>2. TRUE \in BOOLEAN /\ FALSE \in BOOLEAN
  OBVIOUS
<1>3. CASE e.state \in EmitOuter
  <2>1. Dispatch(e, event) \in
          {EmitDocumentStart(e, event), EmitDocumentEnd(e, event),
           EmitNode(Later(e, "document end"), event), Become(e, "error")}
    BY <1>3 DEF Dispatch, EmitOuter
  <2> QED BY <1>3, <2>1, DocumentFits
<1>4. CASE e.state \in EmitFirsts
  <2>1. /\ Fits(EmitFlowSequenceItem(e, event, TRUE), ev)
        /\ Fits(EmitFlowMappingKey(e, event, TRUE), ev)
        /\ Fits(EmitBlockSequenceItem(e, event, TRUE), ev)
        /\ Fits(EmitBlockMappingKey(e, event, TRUE), ev)
    BY <1>2, <1>4, FlowSequenceFits, FlowMappingFits, BlockSequenceFits, BlockMappingFits
  <2>2. Dispatch(e, event) \in
          {EmitFlowSequenceItem(e, event, TRUE), EmitFlowMappingKey(e, event, TRUE),
           EmitBlockSequenceItem(e, event, TRUE), EmitBlockMappingKey(e, event, TRUE)}
    BY <1>4 DEF Dispatch, EmitFirsts
  <2> QED BY <2>1, <2>2
<1>5. CASE e.state \in EmitOpened
  <2>1. /\ Fits(EmitFlowSequenceItem(e, event, FALSE), ev)
        /\ Fits(EmitFlowMappingKey(e, event, FALSE), ev)
        /\ Fits(EmitBlockSequenceItem(e, event, FALSE), ev)
        /\ Fits(EmitBlockMappingKey(e, event, FALSE), ev)
    BY <1>2, <1>5, FlowSequenceFits, FlowMappingFits, BlockSequenceFits, BlockMappingFits
  <2>2. Fits(EmitFlowMappingValue(e, event), ev) /\ Fits(EmitBlockMappingValue(e, event), ev)
    BY <1>5, FlowValueFits, BlockValueFits
  <2>3. Dispatch(e, event) \in
          {EmitFlowSequenceItem(e, event, FALSE), EmitFlowMappingKey(e, event, FALSE),
           EmitBlockSequenceItem(e, event, FALSE), EmitBlockMappingKey(e, event, FALSE),
           EmitFlowMappingValue(e, event), EmitBlockMappingValue(e, event)}
    BY <1>5 DEF Dispatch, EmitOpened
  <2> QED BY <2>1, <2>2, <2>3
<1> QED BY <1>1, <1>3, <1>4, <1>5

\* What is written is read as lexemes.
LEMMA TrailsType ==
  ASSUME NEW t \in Seq(LexemeSet)
  PROVE  WithTrails(t) \in Seq(LexemeSet)
<1>1. Len(t) \in Nat /\ DOMAIN t = 1..Len(t) /\ \A i \in 1..Len(t) : t[i] \in LexemeSet
  BY LenProperties
<1>2. ASSUME NEW i \in 1..Len(t)
      PROVE  WithTrails(t)[i] \in LexemeSet
  <2>1. PICK b \in BOOLEAN : b = (/\ t[i].kind = "plain"
                                  /\ i = Len(t) \/ t[i + 1].line > t[i].line)
    OBVIOUS
  <2>2. PICK x : x = t[i]
    OBVIOUS
  <2>3. x \in LexemeSet
    BY <1>1, <1>2, <2>2
  <2>4. [x EXCEPT !.trail = b] \in LexemeSet
    BY <2>1, <2>3, LexemeChanges
  <2>5. WithTrails(t)[i] = [x EXCEPT !.trail = b]
    BY <1>1, <1>2, <2>1, <2>2 DEF WithTrails
  <2> QED BY <2>4, <2>5
<1>3. WithTrails(t) = [i \in 1..Len(t) |-> WithTrails(t)[i]]
  BY <1>1 DEF WithTrails
<1>4. \A i \in 1..Len(t) : WithTrails(t)[i] \in LexemeSet
  BY <1>2
<1> QED BY <1>1, <1>3, <1>4, IsASeq

-----------------------------------------------------------------------------
(* Writing and reading.                                                    *)

\* The emitter is somewhere, and the events in its queue have values of scalars.
EventTypes == {"document-start", "document-end", "scalar", "sequence-start", "mapping-start",
               "sequence-end", "mapping-end", "stream-end"}
EventSet   == [type : EventTypes, value : ScalarSet, anchor : BOOLEAN, flow : BOOLEAN]
WriterInv  == Fits(emitter, emitter.events) /\ emitter.events \in Seq(EventSet)

LEMMA InitWriter == Init => WriterInv
<1> SUFFICES ASSUME Init PROVE WriterInv
  OBVIOUS
<1>1. PICK e : e = NewEmitter
  OBVIOUS
<1>2. /\ DOMAIN e = EmitterFields /\ e.line = 0 /\ e.col = 0 /\ e.text = <<>>
      /\ e.indent = -1 /\ e.indents = <<>> /\ e.events = <<>> /\ e.states = <<>>
      /\ e.state = "first document start"
  BY <1>1 DEF NewEmitter, EmitterFields
<1>3. Emits(e, <<>>, "first document start", <<>>, -1, <<>>)
  <2>1. <<>> \in Seq(LexemeSet) /\ <<>> \in Seq(Levels)
    BY EmptySeq
  <2>2. 0 \in Nat /\ -1 \in Levels
    BY DEF Levels
  <2> QED BY <1>2, <2>1, <2>2 DEF Emits
<1>4. Nested("first document start", <<>>, Len(<<>>))
  BY DEF Nested, EmitOuter
<1>5. Fits(e, <<>>)
  BY <1>3, <1>4, FitsNested
<1>6. emitter = e /\ <<>> \in Seq(EventSet)
  BY <1>1, EmptySeq DEF Init
<1> QED BY <1>2, <1>5, <1>6 DEF WriterInv

\* The events the encoder sends.
LEMMA EventType ==
  ASSUME NEW type \in EventTypes, NEW flow \in BOOLEAN
  PROVE  /\ Start(type, flow) \in EventSet
         /\ \A v \in ScalarSet : [Start(type, flow) EXCEPT !.value = v] \in EventSet
<1>1. Empty \in ScalarSet
  BY EmptyValue
<1> QED BY <1>1 DEF Start, EventSet

LEMMA SendWriter ==
  ASSUME WriterInv, NEW event \in EventSet, Send(event)
  PROVE  WriterInv'
<1>1. PICK q : q = Append(emitter.events, event)
  OBVIOUS
<1>2. emitter' = [emitter EXCEPT !.events = q]
  BY <1>1 DEF Send
<1>3. q \in Seq(EventSet)
  BY <1>1, AppendProperties DEF WriterInv
<1>4. PICK ind, inds :
        /\ Emits(emitter, emitter.events, emitter.state, emitter.states, ind, inds)
        /\ Nested(emitter.state, emitter.states, Len(inds))
  BY DEF WriterInv, Fits
<1>5. Emits([emitter EXCEPT !.events = q], q, emitter.state, emitter.states, ind, inds)
  BY <1>4, StateEmits
<1>6. Fits(emitter', q) /\ emitter'.events = q
  BY <1>2, <1>4, <1>5, FitsNested DEF Emits
<1> QED BY <1>3, <1>6 DEF WriterInv

LEMMA EmitWriter ==
  ASSUME WriterInv, Emit
  PROVE  WriterInv'
<1>1. PICK ev, event : ev = emitter.events /\ event = ev[1]
  OBVIOUS
<1>2. ev \in Seq(EventSet) /\ ev # <<>> /\ emitter.state # "error"
  BY <1>1 DEF WriterInv, Emit, Encoding, NeedMoreEvents
<1>3. event \in EventSet
  <2>1. Len(ev) \in Nat \ {0} /\ DOMAIN ev = 1..Len(ev)
    BY <1>2, EmptySeq, LenProperties
  <2>2. 1 \in 1..Len(ev)
    BY <2>1
  <2> QED BY <1>1, <1>2, <2>2, LenProperties
<1>4. event.value \in ScalarSet
  BY <1>3 DEF EventSet
<1>5. PICK r : r = Dispatch(emitter, event)
  OBVIOUS
<1>6. Fits(r, ev)
  BY <1>1, <1>2, <1>4, <1>5, DispatchFits DEF WriterInv
<1>7. PICK q : q = Tail(ev)
  OBVIOUS
<1>8. q \in Seq(EventSet)
  BY <1>2, <1>7, HeadTailProperties
<1>9. PICK ind, inds : Emits(r, ev, r.state, r.states, ind, inds) /\ Nested(r.state, r.states, Len(inds))
  BY <1>6 DEF Fits
<1>10. emitter' = [r EXCEPT !.events = q]
  <2>1. r.events = ev
    BY <1>9 DEF Emits
  <2>2. emitter' = [Dispatch(emitter, emitter.events[1]) EXCEPT !.events = Tail(@)]
    BY DEF Emit, EmitHead
  <2> QED BY <1>1, <1>5, <1>7, <2>1, <2>2
<1>11. Emits([r EXCEPT !.events = q], q, r.state, r.states, ind, inds)
  BY <1>9, StateEmits
<1>12. Fits(emitter', q) /\ emitter'.events = q
  BY <1>9, <1>10, <1>11, FitsNested DEF Emits
<1> QED BY <1>8, <1>12 DEF WriterInv

\* Writing does not read, and reading does not write.
ReadingVars == <<scanner, parser, builder>>
LEMMA WritingSteps ==
  ASSUME WriterInv, Writing
  PROVE  /\ WriterInv' /\ UNCHANGED ReadingVars
         /\ UNCHANGED text \/ text' \in Seq(LexemeSet)
<1>1. ASSUME NEW event \in EventSet, Send(event)
      PROVE  WriterInv' /\ UNCHANGED ReadingVars /\ UNCHANGED text
  BY <1>1, SendWriter DEF Send, ReadingVars
<1>2. FALSE \in BOOLEAN /\ TRUE \in BOOLEAN
  OBVIOUS
<1>3. CASE BeginDocument
  <2>1. "document-start" \in EventTypes
    BY DEF EventTypes
  <2>2. Send(Start("document-start", FALSE))
    BY <1>3 DEF BeginDocument
  <2> QED BY <1>1, <1>2, <2>1, <2>2, EventType
<1>4. CASE EndDocument
  <2>1. "document-end" \in EventTypes
    BY DEF EventTypes
  <2>2. Send(Start("document-end", FALSE))
    BY <1>4 DEF EndDocument
  <2> QED BY <1>1, <1>2, <2>1, <2>2, EventType
<1>5. CASE SendScalar
  <2>1. "scalar" \in EventTypes
    BY DEF EventTypes
  <2>2. PICK v \in Scalars : Send([Start("scalar", FALSE) EXCEPT !.value = v])
    BY <1>5 DEF SendScalar
  <2>3. v \in ScalarSet
    <3>1. v \in [text : STRING, lead : Nat, final : Nat, breaks : Nat, tab : BOOLEAN]
      BY YamlAssumption
    <3>2. v.text \in Words
      BY DEF Words
    <3> QED BY <3>1, <3>2 DEF ScalarSet
  <2> QED BY <1>1, <1>2, <2>1, <2>2, <2>3, EventType
<1>6. CASE BeginCollection
  <2>1. "sequence-start" \in EventTypes /\ "mapping-start" \in EventTypes
    BY DEF EventTypes
  <2>2. PICK kind \in {"sequence", "mapping"}, flow \in BOOLEAN :
          Send(Start(IF kind = "sequence" THEN "sequence-start" ELSE "mapping-start", flow))
    BY <1>6, Zenon DEF BeginCollection
  <2>3. PICK type : type = IF kind = "sequence" THEN "sequence-start" ELSE "mapping-start"
    OBVIOUS
  <2>4. type \in EventTypes /\ Send(Start(type, flow))
    BY <2>1, <2>2, <2>3
  <2> QED BY <1>1, <2>4, EventType
<1>7. CASE EndCollection
  <2>1. "sequence-end" \in EventTypes /\ "mapping-end" \in EventTypes
    BY DEF EventTypes
  <2>2. PICK type : type = IF Place = "sequence" THEN "sequence-end" ELSE "mapping-end"
    OBVIOUS
  <2>3. type \in EventTypes /\ Send(Start(type, FALSE))
    BY <1>7, <2>1, <2>2 DEF EndCollection
  <2> QED BY <1>1, <1>2, <2>3, EventType
<1>8. CASE Finish
  <2>1. "stream-end" \in EventTypes
    BY DEF EventTypes
  <2>2. Send(Start("stream-end", FALSE))
    BY <1>8 DEF Finish
  <2> QED BY <1>1, <1>2, <2>1, <2>2, EventType
<1>9. CASE Emit
  BY <1>9, EmitWriter DEF Emit, ReadingVars
<1>10. CASE Close
  <2>1. emitter' = emitter /\ UNCHANGED ReadingVars /\ text' = WithTrails(emitter.text)
    BY <1>10 DEF Close, encoding, ReadingVars
  <2>2. emitter.text \in Seq(LexemeSet)
    BY DEF WriterInv, Fits, Emits
  <2>3. WithTrails(emitter.text) \in Seq(LexemeSet)
    BY <2>2, TrailsType
  <2>4. WriterInv'
    BY <2>1 DEF WriterInv
  <2> QED BY <2>1, <2>3, <2>4
<1> QED BY <1>3, <1>4, <1>5, <1>6, <1>7, <1>8, <1>9, <1>10 DEF Writing

\* Every step keeps the two parts of the invariant.
BlocksInv == MatchedInv /\ TextInv /\ WriterInv
LEMMA StepBlocks ==
  ASSUME BlocksInv, ParserInv, [Next]_vars
  PROVE  BlocksInv'
<1>1. ASSUME UNCHANGED ReadingVars
      PROVE  MatchedInv'
  BY <1>1 DEF BlocksInv, MatchedInv, ReadingVars, Refused
<1>2. ASSUME UNCHANGED emitter
      PROVE  WriterInv'
  BY <1>2 DEF BlocksInv, WriterInv
<1>3. CASE Writing
  <2>1. WriterInv' /\ UNCHANGED ReadingVars /\ (UNCHANGED text \/ text' \in Seq(LexemeSet))
    BY <1>3, WritingSteps DEF BlocksInv
  <2>2. TextInv'
    BY <2>1 DEF BlocksInv, TextInv
  <2> QED BY <1>1, <2>1, <2>2 DEF BlocksInv
<1>4. CASE Fetch
  <2>1. MatchedInv' /\ TextInv'
    BY <1>4, FetchMatched DEF BlocksInv, ParserInv
  <2>2. UNCHANGED emitter
    BY <1>4 DEF Fetch, encoding
  <2> QED BY <1>2, <2>1, <2>2 DEF BlocksInv
<1>5. CASE Ready
  <2>1. MatchedInv' /\ TextInv'
    BY <1>5, ReadyMatched DEF BlocksInv
  <2>2. UNCHANGED emitter
    BY <1>5 DEF Ready, encoding
  <2> QED BY <1>2, <2>1, <2>2 DEF BlocksInv
<1>6. CASE Parse
  <2>1. MatchedInv' /\ TextInv'
    BY <1>6, ParseMatched DEF BlocksInv
  <2>2. UNCHANGED emitter
    BY <1>6 DEF Parse, encoding
  <2> QED BY <1>2, <2>1, <2>2 DEF BlocksInv
<1>7. CASE UNCHANGED vars
  <2>1. UNCHANGED ReadingVars /\ UNCHANGED emitter /\ UNCHANGED text
    BY <1>7 DEF vars, encoding, ReadingVars
  <2>2. TextInv'
    BY <2>1 DEF BlocksInv, TextInv
  <2> QED BY <1>1, <1>2, <2>1, <2>2 DEF BlocksInv
<1>8. CASE Done
  BY <1>7, <1>8 DEF Done
<1> QED BY <1>3, <1>4, <1>5, <1>6, <1>7, <1>8 DEF Next, Read

\* The levels of indentation of the scanner, the blocks the automaton is inside of and
\* those that wait in the queue of tokens are the same (scannerc.go's roll_indent and
\* unroll_indent, parserc.go's stack of states), whatever text is read: the one the
\* emitter wrote, and any other.
THEOREM BlocksMatched == Spec => []BlocksMatch
<1>1. Init => BlocksInv
  BY InitMatched, InitWriter DEF BlocksInv
<1>2. BlocksInv /\ ParserInv /\ [Next]_vars => BlocksInv'
  BY StepBlocks
<1>3. BlocksInv /\ ParserInv => BlocksMatch
  BY MatchedBlocks DEF BlocksInv
<1> QED BY <1>1, <1>2, <1>3, Parsing, PTL DEF Spec
=============================================================================
