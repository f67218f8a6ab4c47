---------------------------- MODULE YamlEmitter ----------------------------
(***************************************************************************)
(* The emitter of the YAML library (yaml/emitterc.go) as the encoder uses  *)
(* it: it turns events into text, looking a few events ahead, and decides  *)
(* for each scalar how it can be written and for each mapping key whether  *)
(* it can be a simple key.                                                 *)
(*                                                                         *)
(* The text is the sequence of lexemes of YamlScanner.  Comments, anchors, *)
(* tags, directives, the canonical form and folding (best_width is         *)
(* unlimited) are left out: the encoder of connectorctl uses none of them. *)
(***************************************************************************)
EXTENDS YamlParser

CONSTANTS
  BestIndent,  \* best_indent: 2, by Renderer.Marshal
  MaxSimple,   \* the longest simple key the emitter writes: 128 characters
  LongText     \* the length of the scalar "long"

ASSUME EmitterAssumption == /\ BestIndent \in 2..9
                            /\ {MaxSimple, LongText} \subseteq Nat

\* What is written of a scalar: the text "lines" has two lines.
Multiline(v) == v.text = "lines"
Length(v)    == IF v.text = "long" THEN LongText ELSE 1
Start(type, flow) == [type |-> type, value |-> Empty, anchor |-> FALSE, flow |-> flow]
Plainly(e)   == [type |-> e.type, value |-> e.value, anchor |-> e.anchor]

\* After emit_stream_start.
NewEmitter ==
  [events |-> <<>>, state |-> "first document start", states |-> <<>>, indent |-> -1,
   indents |-> <<>>, flow |-> 0, line |-> 0, col |-> 0, whitespace |-> TRUE,
   indention |-> TRUE, text |-> <<>>]

-----------------------------------------------------------------------------
(* Writing.                                                                *)

Break(e) == [e EXCEPT !.line = @ + 1, !.col = 0, !.indention = TRUE]

WriteIndent(e) ==
  LET indent == IF e.indent < 0 THEN 0 ELSE e.indent
      r == IF ~e.indention \/ e.col > indent \/ (e.col = indent /\ ~e.whitespace)
           THEN Break(e) ELSE e
  IN [r EXCEPT !.col = IF @ < indent THEN indent ELSE @, !.whitespace = TRUE]

Write(e, x, needWhitespace, isWhitespace, isIndention) ==
  LET col == IF needWhitespace /\ ~e.whitespace THEN e.col + 1 ELSE e.col
  IN [e EXCEPT !.text = Append(@, [x EXCEPT !.line = e.line, !.col = col]),
               !.col = col + x.width, !.whitespace = isWhitespace,
               !.indention = @ /\ isIndention]

\* write_indicator.
Indicator(e, kind, needWhitespace, isWhitespace, isIndention) ==
  Write(e, Lexeme(kind, Empty, 0, 0, IF kind = "---" THEN 3 ELSE 1, 0),
        needWhitespace, isWhitespace, isIndention)

\* write_block_scalar_hints: an indentation hint where the text begins with a space or
\* a break (but not a tab), chomping where it does not end with exactly one break.
Hints(v) == IF v.lead > 0 \/ v.breaks > 0 THEN BestIndent ELSE 0

Chomping(v) == CASE v.final = 0 -> -1 [] v.final = 1 -> 0 [] OTHER -> 1

\* No break is written behind the hints of a text that begins with one: the first
\* break of the text ends that line, and is not part of what is below it.
WithoutBreak(v) == [v EXCEPT !.breaks = IF @ > 0 THEN @ - 1 ELSE 0]

\* "|", its hints, and the lines at the indentation of the emitter.  The last break
\* is there when the text ends with one.
WriteLiteral(e, v) ==
  LET down == 3 + WithoutBreak(v).breaks + (IF v.final > 1 THEN v.final - 1 ELSE 0)
      x == [Lexeme("literal", WithoutBreak(v), 0, 0, 1, down) EXCEPT
              !.inner = e.indent, !.hint = Hints(v), !.chomp = Chomping(v)]
      r == Write(e, x, TRUE, TRUE, FALSE)
  IN IF v.final = 0
     THEN [r EXCEPT !.line = @ + down - 1, !.col = e.indent + 1, !.indention = FALSE]
     ELSE [r EXCEPT !.line = @ + down, !.col = 0, !.indention = TRUE]

\* The other values: "lines" is escaped between double quotes, on one line.
WritePlain(e, v)  == Write(e, Lexeme("plain", v, 0, 0, Length(v), 0), TRUE, FALSE, FALSE)
WriteQuoted(e, v) == Write(e, Lexeme("quoted", v, 0, 0, Length(v), 0), TRUE, FALSE, FALSE)

\* What a scanner finds after each plain scalar: another line, or more of this one.
WithTrails(text) ==
  [i \in DOMAIN text |->
     [text[i] EXCEPT !.trail = /\ text[i].kind = "plain"
                               /\ i = Len(text) \/ text[i + 1].line > text[i].line]]

-----------------------------------------------------------------------------
(* The state machine.                                                      *)

Become(e, state) == [e EXCEPT !.state = state]
Later(e, state)  == [e EXCEPT !.states = Append(@, state)]
Resume(e)        == [e EXCEPT !.state = Last(e.states), !.states = Front(@)]

\* Inside a sequence the first level skips "- ".
IncreaseIndent(e, flow) ==
  [e EXCEPT !.indents = Append(@, e.indent),
            !.indent = IF e.indent < 0 THEN (IF flow THEN BestIndent ELSE 0)
                       ELSE IF Last(e.states) = "block sequence item" THEN e.indent + 2
                       ELSE BestIndent * ((e.indent + BestIndent) \div BestIndent)]

DecreaseIndent(e) == [e EXCEPT !.indent = Last(e.indents), !.indents = Front(@)]

\* The next events are the start and the end of one collection.
EmptyCollection(e) ==
  /\ Len(e.events) >= 2
  /\ \/ e.events[1].type = "sequence-start" /\ e.events[2].type = "sequence-end"
     \/ e.events[1].type = "mapping-start" /\ e.events[2].type = "mapping-end"

\* Mutant of SimpleKey: any scalar on one line is a simple key.
SimpleKeyOfAnyLength(e) ==
  IF e.events[1].type = "scalar" THEN ~Multiline(e.events[1].value) ELSE EmptyCollection(e)

\* check_simple_key.
SimpleKey(e) ==
  IF e.events[1].type = "scalar"
  THEN ~Multiline(e.events[1].value) /\ Length(e.events[1].value) <= MaxSimple
  ELSE EmptyCollection(e)

\* select_scalar_style: the encoder asks for literal style where there are breaks.
Style(e, v) == IF ~Multiline(v) THEN "plain" ELSE IF e.flow = 0 THEN "literal" ELSE "quoted"

EmitScalar(e, v) ==
  LET r == IncreaseIndent(e, TRUE)
  IN Resume(DecreaseIndent(CASE Style(e, v) = "plain"   -> WritePlain(r, v)
                             [] Style(e, v) = "literal" -> WriteLiteral(r, v)
                             [] Style(e, v) = "quoted"  -> WriteQuoted(r, v)))

EmitCollection(e, event, inFlow, inBlock) ==
  Become(e, IF e.flow > 0 \/ event.flow \/ EmptyCollection(e) THEN inFlow ELSE inBlock)

EmitNode(e, event) ==
  CASE event.type = "scalar"         -> EmitScalar(e, event.value)
    [] event.type = "sequence-start" ->
         EmitCollection(e, event, "flow sequence first", "block sequence first")
    [] event.type = "mapping-start"  ->
         EmitCollection(e, event, "flow mapping first", "block mapping first")
    [] OTHER                         -> Become(e, "error")

\* Only the first document does without "---".
EmitDocumentStart(e, event) ==
  CASE event.type = "stream-end" -> Become(e, "end")
    [] event.type = "document-start" ->
         Become(IF e.state = "first document start" THEN e
                ELSE WriteIndent(Indicator(WriteIndent(e), "---", TRUE, FALSE, FALSE)),
                "document content")
    [] OTHER -> Become(e, "error")

EmitDocumentEnd(e, event) ==
  IF event.type = "document-end" THEN Become(WriteIndent(e), "document start")
  ELSE Become(e, "error")

OpenFlow(e, kind) ==
  LET r == IncreaseIndent(Indicator(e, kind, TRUE, TRUE, FALSE), TRUE)
  IN [r EXCEPT !.flow = @ + 1]
CloseFlow(e, kind) ==
  Resume(Indicator([DecreaseIndent(e) EXCEPT !.flow = @ - 1], kind, FALSE, FALSE, FALSE))
Comma(e, first) == IF first THEN e ELSE Indicator(e, ",", FALSE, FALSE, FALSE)

EmitFlowSequenceItem(e, event, first) ==
  LET r == IF first THEN OpenFlow(e, "[") ELSE e
  IN IF event.type = "sequence-end" THEN CloseFlow(r, "]")
     ELSE EmitNode(Later(Comma(r, first), "flow sequence item"), event)

EmitFlowMappingKey(e, event, first) ==
  LET r == IF first THEN OpenFlow(e, "{") ELSE e
  IN IF event.type = "mapping-end" THEN CloseFlow(r, "}")
     ELSE IF SimpleKey(e)
     THEN EmitNode(Later(Comma(r, first), "flow mapping simple value"), event)
     ELSE EmitNode(Later(Indicator(Comma(r, first), "?", TRUE, FALSE, FALSE),
                         "flow mapping value"), event)

EmitFlowMappingValue(e, event) ==
  LET simple == e.state = "flow mapping simple value"
  IN EmitNode(Later(Indicator(e, ":", ~simple, FALSE, FALSE), "flow mapping key"), event)

EmitBlockSequenceItem(e, event, first) ==
  LET r == IF first THEN IncreaseIndent(e, FALSE) ELSE e
  IN IF event.type = "sequence-end" THEN Resume(DecreaseIndent(r))
     ELSE EmitNode(Later(Indicator(WriteIndent(r), "-", TRUE, FALSE, TRUE),
                         "block sequence item"), event)

EmitBlockMappingKey(e, event, first) ==
  LET r == IF first THEN IncreaseIndent(e, FALSE) ELSE e
  IN IF event.type = "mapping-end" THEN Resume(DecreaseIndent(r))
     ELSE IF SimpleKey(e)
     THEN EmitNode(Later(WriteIndent(r), "block mapping simple value"), event)
     ELSE EmitNode(Later(Indicator(WriteIndent(r), "?", TRUE, FALSE, TRUE),
                         "block mapping value"), event)

\* The value of a complex key has a line of its own.
EmitBlockMappingValue(e, event) ==
  EmitNode(Later(IF e.state = "block mapping simple value"
                 THEN Indicator(e, ":", FALSE, FALSE, FALSE)
                 ELSE Indicator(WriteIndent(e), ":", TRUE, FALSE, TRUE),
                 "block mapping key"), event)

\* yaml_emitter_state_machine.
Dispatch(e, event) ==
  CASE e.state \in {"first document start", "document start"} -> EmitDocumentStart(e, event)
    [] e.state = "document content" -> EmitNode(Later(e, "document end"), event)
    [] e.state = "document end"     -> EmitDocumentEnd(e, event)
    [] e.state = "flow sequence first"  -> EmitFlowSequenceItem(e, event, TRUE)
    [] e.state = "flow sequence item"   -> EmitFlowSequenceItem(e, event, FALSE)
    [] e.state = "flow mapping first"   -> EmitFlowMappingKey(e, event, TRUE)
    [] e.state = "flow mapping key"     -> EmitFlowMappingKey(e, event, FALSE)
    [] e.state \in {"flow mapping simple value", "flow mapping value"} ->
         EmitFlowMappingValue(e, event)
    [] e.state = "block sequence first" -> EmitBlockSequenceItem(e, event, TRUE)
    [] e.state = "block sequence item"  -> EmitBlockSequenceItem(e, event, FALSE)
    [] e.state = "block mapping first"  -> EmitBlockMappingKey(e, event, TRUE)
    [] e.state = "block mapping key"    -> EmitBlockMappingKey(e, event, FALSE)
    [] e.state \in {"block mapping simple value", "block mapping value"} ->
         EmitBlockMappingValue(e, event)
    [] e.state = "end" -> Become(e, "error")

-----------------------------------------------------------------------------
(* Lookahead.                                                              *)

Starts    == {"document-start", "sequence-start", "mapping-start"}
Lookahead == [type \in Starts |-> CASE type = "document-start" -> 1
                                    [] type = "sequence-start" -> 2
                                    [] type = "mapping-start"  -> 3]
Ends      == {"stream-end", "document-end", "sequence-end", "mapping-end"}

\* The level of the queued events up to the k-th comes back to where it was.
Closed(events, k) ==
  Cardinality({i \in 1..k : events[i].type \in Starts})
    = Cardinality({i \in 1..k : events[i].type \in Ends})

NeedMoreEvents(e) ==
  \/ e.events = <<>>
  \/ /\ e.events # <<>> /\ e.events[1].type \in Starts
     /\ Len(e.events) <= Lookahead[e.events[1].type]
     /\ \A k \in 1..Len(e.events) : ~Closed(e.events, k)

\* One turn of the loop of yaml_emitter_emit.
EmitHead(e) == [Dispatch(e, e.events[1]) EXCEPT !.events = Tail(@)]
=============================================================================
