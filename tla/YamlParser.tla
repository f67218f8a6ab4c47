----------------------------- MODULE YamlParser -----------------------------
(***************************************************************************)
(* The parser of the YAML library (yaml/parserc.go): an LL(1) automaton    *)
(* with a stack that turns tokens into events, and the node builder above  *)
(* it (yaml/decode.go), which calls itself for every nested node and       *)
(* panics at an event it does not expect.                                  *)
(*                                                                         *)
(* A step looks at one token.  A function of the code that skips a token   *)
(* and looks at the next one is two states here: the second one is named   *)
(* "... item".  A result is the parser after the step, whether the token   *)
(* was skipped, and the event, if there is one.                            *)
(***************************************************************************)
EXTENDS YamlScanner

\* An event; for the start of a node, whether the node has an anchor.
Event(type, value, anchor) == [type |-> type, value |-> value, anchor |-> anchor]
Plain(type) == Event(type, Empty, FALSE)
NoEvent     == Plain("none")

\* The properties of the node being read: whether it has an anchor, and the
\* handle of its tag ("": none).
NewParser ==
  [state |-> "stream start", states |-> <<>>, block |-> TRUE, indentless |-> FALSE,
   anchor |-> FALSE, tag |-> "", tags |-> {}, version |-> FALSE]

Result(p, skipped, event) == [parser |-> p, skipped |-> skipped, event |-> event]
Skip(p)          == Result(p, TRUE, NoEvent)
Stay(p)          == Result(p, FALSE, NoEvent)
Gives(p, type)   == Result(p, FALSE, Plain(type))
Takes(p, type)   == Result(p, TRUE, Plain(type))

Goto(p, state)   == [p EXCEPT !.state = state]
Return(p)        == [p EXCEPT !.state = Last(p.states), !.states = Front(@)]
Call(p, back)    == [p EXCEPT !.states = Append(@, back)]
Error(p)         == Stay(Goto(p, "error"))
EmptyScalar(p)   == Gives(p, "scalar")

\* parse_node, with the state to return to on the stack.
Node(p, block, indentless) ==
  [p EXCEPT !.state = "node", !.block = block, !.indentless = indentless,
            !.anchor = FALSE, !.tag = ""]

-----------------------------------------------------------------------------
(* Documents.                                                              *)

DefaultTags == {"!", "!!"}
Markers     == {"directive", "---", "...", "stream-end"}
Document(p) == [Call(p, "document end") EXCEPT !.tags = @ \cup DefaultTags, !.version = FALSE]

StreamEnd(p) == Takes(Goto(p, "end"), "stream-end")

\* The first document needs no "---".
ImplicitDocumentStart(p, t) ==
  CASE t.type = "stream-end"           -> StreamEnd(p)
    [] t.type \in {"directive", "---"} -> Stay(Goto(p, "directives"))
    [] OTHER -> Gives(Node(Document(p), TRUE, FALSE), "document-start")

\* Mutant of DocumentStart: the end marker is left where it is.
DocumentStartStays(p, t) ==
  CASE t.type = "..."        -> Stay(p)
    [] t.type = "stream-end" -> StreamEnd(p)
    [] OTHER                 -> Stay(Goto(p, "directives"))

DocumentStart(p, t) ==
  CASE t.type = "..."        -> Skip(p)
    [] t.type = "stream-end" -> StreamEnd(p)
    [] OTHER                 -> Stay(Goto(p, "directives"))

\* process_directives and the rest of an explicit document's start.  A directive
\* declares a tag handle, or is "%YAML" with a version.
Directives(p, t) ==
  IF t.type = "---" THEN Takes(Goto(Document(p), "document content"), "document-start")
  ELSE IF t.type # "directive" \/ t.value.text = "%YAML 2.0" THEN Error(p)
  ELSE IF t.value.text = "%YAML 1.1"
       THEN IF p.version THEN Error(p) ELSE Skip([p EXCEPT !.version = TRUE])
  ELSE IF t.value.text \in p.tags THEN Error(p)
       ELSE Skip([p EXCEPT !.tags = @ \cup {t.value.text}])

DocumentContent(p, t) ==
  IF t.type \in Markers THEN EmptyScalar(Return(p)) ELSE Stay(Node(p, TRUE, FALSE))

\* Tag directives last for one document.
DocumentEnd(p, t) ==
  Result([Goto(p, "document start") EXCEPT !.tags = {}], t.type = "...", Plain("document-end"))

-----------------------------------------------------------------------------
(* Nodes.                                                                  *)

Opens(p, state, type) == Result(Goto(p, state), FALSE, Event(type, Empty, p.anchor))

NodeContent(p, t) ==
  CASE p.indentless /\ t.type = "-" -> Opens(p, "indentless sequence", "sequence-start")
    [] t.type = "scalar" -> Result(Return(p), TRUE, Event("scalar", t.value, p.anchor))
    [] t.type = "["      -> Opens(p, "flow sequence first", "sequence-start")
    [] t.type = "{"      -> Opens(p, "flow mapping first", "mapping-start")
    [] p.block /\ t.type = "block-sequence-start" ->
                            Opens(p, "block sequence first", "sequence-start")
    [] p.block /\ t.type = "block-mapping-start" ->
                            Opens(p, "block mapping first", "mapping-start")
    [] OTHER -> IF p.anchor \/ p.tag # ""
                THEN Result(Return(p), FALSE, Event("scalar", Empty, p.anchor))
                ELSE Error(p)

\* One anchor and one tag, in either order; an alias stands alone.
ParseNode(p, t) ==
  CASE t.type = "alias" /\ ~p.anchor /\ p.tag = "" ->
         Result(Return(p), TRUE, Event("alias", t.value, FALSE))
    [] t.type = "anchor" /\ ~p.anchor -> Skip([p EXCEPT !.anchor = TRUE])
    [] t.type = "tag" /\ p.tag = ""   -> Skip([p EXCEPT !.tag = t.value.text])
    [] OTHER -> IF p.tag = "" \/ p.tag \in p.tags THEN NodeContent(p, t) ELSE Error(p)

\* Where a node may be left out: the tokens that show it was, the state after it,
\* and how to read it.
Item(stops, back, block, indentless) ==
  [stops |-> stops, back |-> back, block |-> block, indentless |-> indentless]

ItemStates == {"block sequence item", "indentless sequence item", "block mapping key item",
               "block mapping value item", "flow pair value item", "flow mapping key item",
               "flow mapping value item"}

Items ==
  [state \in ItemStates |->
     CASE state = "block sequence item"      ->
            Item({"-", "block-end"}, "block sequence", TRUE, FALSE)
       [] state = "indentless sequence item" ->
            Item({"-", "?", ":", "block-end"}, "indentless sequence", TRUE, FALSE)
       [] state = "block mapping key item"   ->
            Item({"?", ":", "block-end"}, "block mapping value", TRUE, TRUE)
       [] state = "block mapping value item" ->
            Item({"?", ":", "block-end"}, "block mapping key", TRUE, TRUE)
       [] state = "flow pair value item"     -> Item({",", "]"}, "flow pair end", FALSE, FALSE)
       [] state = "flow mapping key item"    ->
            Item({":", ",", "}"}, "flow mapping value", FALSE, FALSE)
       [] state = "flow mapping value item"  -> Item({",", "}"}, "flow mapping key", FALSE, FALSE)]

ParseItem(p, t) ==
  LET i == Items[p.state]
  IN IF t.type \in i.stops THEN EmptyScalar(Goto(p, i.back))
     ELSE Stay(Node(Call(p, i.back), i.block, i.indentless))

\* Mutant of ParseValue: a value that was left out gives no event.
ParseValueSilently(p, t, item) ==
  IF t.type = ":" THEN Skip(Goto(p, item)) ELSE Stay(Goto(p, Items[item].back))

\* ':' or a value that was left out.
ParseValue(p, t, item) ==
  IF t.type = ":" THEN Skip(Goto(p, item)) ELSE EmptyScalar(Goto(p, Items[item].back))

\* An entry of a block collection or its end.
ParseEntry(p, t, indicator, item, end) ==
  CASE t.type = indicator   -> Skip(Goto(p, item))
    [] t.type = "block-end" -> Takes(Return(p), end)
    [] OTHER                -> Error(p)

\* An indentless sequence ends without a token of its own.
ParseIndentlessEntry(p, t) ==
  IF t.type = "-" THEN Skip(Goto(p, "indentless sequence item"))
  ELSE Gives(Return(p), "sequence-end")

\* After an entry of a flow collection: ',' or the end.
ParseFlowEntry(p, t, close, item, end) ==
  CASE t.type = close -> Takes(Return(p), end)
    [] t.type = ","   -> Skip(Goto(p, item))
    [] OTHER          -> Error(p)

\* A single pair may stand in a flow sequence.
ParseFlowSequenceItem(p, t) ==
  CASE t.type = "]" -> Takes(Return(p), "sequence-end")
    [] t.type = "?" -> Takes(Goto(p, "flow pair key"), "mapping-start")
    [] OTHER        -> Stay(Node(Call(p, "flow sequence"), FALSE, FALSE))

\* The token that shows the key was left out is skipped with it.
ParseFlowPairKey(p, t) ==
  IF t.type \in {":", ",", "]"} THEN Takes(Goto(p, "flow pair value"), "scalar")
  ELSE Stay(Node(Call(p, "flow pair value"), FALSE, FALSE))

ParseFlowMappingItem(p, t) ==
  CASE t.type = "}" -> Takes(Return(p), "mapping-end")
    [] t.type = "?" -> Skip(Goto(p, "flow mapping key item"))
    [] OTHER        -> Stay(Node(Call(p, "flow mapping empty value"), FALSE, FALSE))

\* yaml_parser_state_machine, at token t.
Step(p, t) ==
  CASE p.state = "stream start"          ->
         IF t.type = "stream-start"
         THEN Takes(Goto(p, "implicit document start"), "stream-start") ELSE Error(p)
    [] p.state = "implicit document start" -> ImplicitDocumentStart(p, t)
    [] p.state = "document start"        -> DocumentStart(p, t)
    [] p.state = "directives"            -> Directives(p, t)
    [] p.state = "document content"      -> DocumentContent(p, t)
    [] p.state = "document end"          -> DocumentEnd(p, t)
    [] p.state = "node"                  -> ParseNode(p, t)
    [] p.state \in ItemStates            -> ParseItem(p, t)
    [] p.state = "block sequence first"  -> Skip(Goto(p, "block sequence"))
    [] p.state = "block sequence"        ->
         ParseEntry(p, t, "-", "block sequence item", "sequence-end")
    [] p.state = "indentless sequence"   -> ParseIndentlessEntry(p, t)
    [] p.state = "block mapping first"   -> Skip(Goto(p, "block mapping key"))
    [] p.state = "block mapping key"     ->
         ParseEntry(p, t, "?", "block mapping key item", "mapping-end")
    [] p.state = "block mapping value"   -> ParseValue(p, t, "block mapping value item")
    [] p.state = "flow sequence first"   -> Skip(Goto(p, "flow sequence item"))
    [] p.state = "flow sequence item"    -> ParseFlowSequenceItem(p, t)
    [] p.state = "flow sequence"         ->
         ParseFlowEntry(p, t, "]", "flow sequence item", "sequence-end")
    [] p.state = "flow pair key"         -> ParseFlowPairKey(p, t)
    [] p.state = "flow pair value"       -> ParseValue(p, t, "flow pair value item")
    [] p.state = "flow pair end"         -> Gives(Goto(p, "flow sequence"), "mapping-end")
    [] p.state = "flow mapping first"    -> Skip(Goto(p, "flow mapping item"))
    [] p.state = "flow mapping item"     -> ParseFlowMappingItem(p, t)
    [] p.state = "flow mapping key"      ->
         ParseFlowEntry(p, t, "}", "flow mapping item", "mapping-end")
    [] p.state = "flow mapping value"    -> ParseValue(p, t, "flow mapping value item")
    [] p.state = "flow mapping empty value" -> EmptyScalar(Goto(p, "flow mapping key"))

\* "end" and "error": there is no next event.
Stopped(p) == p.state \in {"end", "error"}

-----------------------------------------------------------------------------
(* The node builder.  Its stack is the stack of its calls: what it waits   *)
(* for in the document and in each collection it is inside of.             *)

NewBuilder == [stack |-> <<"stream">>, anchored |-> FALSE, outcome |-> "reading"]

NodeStarts == {"scalar", "alias", "sequence-start", "mapping-start"}
Enclosed   == [document |-> "document done", sequence |-> "sequence", key |-> "value",
               value |-> "key"]

Waiting(b) == Last(b.stack)
Over(b, outcome) == [b EXCEPT !.outcome = outcome]

\* A node is complete, or begins.
Completed(b)      == [b EXCEPT !.stack[Len(b.stack)] = Enclosed[@]]
Begun(b, e, inside) ==
  [Completed(b) EXCEPT !.stack = Append(@, inside), !.anchored = @ \/ e.anchor]

\* parser.parse and parser.expect.  "panic" is "attempted to parse unknown event" or
\* "expected ... event but got ...": the builder and the automaton disagree.
Build(b, e) ==
  CASE Waiting(b) = "stream" ->
         CASE e.type = "stream-start"   -> b
           [] e.type = "document-start" -> [b EXCEPT !.stack = Append(@, "document")]
           [] e.type = "stream-end"     -> Over(b, "read")
           [] OTHER                     -> Over(b, "panic")
    [] Waiting(b) = "document done" ->
         IF e.type = "document-end" THEN [b EXCEPT !.stack = Front(@)] ELSE Over(b, "panic")
    [] Waiting(b) = "sequence" /\ e.type = "sequence-end" -> [b EXCEPT !.stack = Front(@)]
    [] Waiting(b) = "key" /\ e.type = "mapping-end"       -> [b EXCEPT !.stack = Front(@)]
    [] OTHER ->
         CASE e.type = "scalar"         -> [Completed(b) EXCEPT !.anchored = @ \/ e.anchor]
           [] e.type = "alias"          -> IF b.anchored THEN Completed(b)
                                           ELSE Over(b, "unknown anchor")
           [] e.type = "sequence-start" -> Begun(b, e, "sequence")
           [] e.type = "mapping-start"  -> Begun(b, e, "key")
           [] OTHER                     -> Over(b, "panic")
=============================================================================
