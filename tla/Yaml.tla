-------------------------------- MODULE Yaml --------------------------------
(***************************************************************************)
(* The YAML library put together: what connectorctl writes is read back    *)
(* as it was written, but for two kinds of texts of several lines, and a   *)
(* text from anywhere is read to its end or refused.                       *)
(*                                                                         *)
(* A behaviour is one of two.  "Written": the encoder (yaml/encode.go)     *)
(* sends the events of up to MaxDocuments documents to the emitter, and    *)
(* the text it makes of them is read.  "Given": the scanner meets up to    *)
(* MaxText lexemes chosen as it needs them.  The node builder asks the     *)
(* automaton for an event, which asks the scanner for tokens.  Reading     *)
(* goes on to the end of the text, as calls of Decode do that follow each  *)
(* other: Unmarshal returns after the first document, LoadConnectors asks  *)
(* for two, and each does what the model does up to there.                 *)
(***************************************************************************)
EXTENDS YamlEmitter

CONSTANTS
  Scalars,       \* the values of scalars the encoder is given
  MaxNodes,      \* bound: nodes of a stream
  MaxDocuments,  \* bound: documents of a stream
  Texts,         \* bound: the kinds of lexemes of a given text, and how many there are
  Columns        \* the columns a given lexeme may stand at on a new line

Indicators == {"-", "?", ":", ",", "[", "]", "{", "}"}
Kinds      == Indicators \cup {"plain", "quoted", "literal", "anchor", "alias", "tag",
                               "directive", "---", "..."}

ASSUME YamlAssumption ==
  /\ {MaxNodes, MaxDocuments} \subseteq Nat /\ Columns \subseteq Nat
  /\ \A t \in Texts : t.kinds \subseteq Kinds /\ t.length \in Nat
  /\ Scalars \subseteq [text : STRING, lead : Nat, final : Nat, breaks : Nat, tab : BOOLEAN]

VARIABLES
  given,      \* the kinds of a text from elsewhere; none when the encoder wrote it
  phase,      \* "writing" or "reading"
  open,       \* the encoder's calls: what it is inside of
  nodes,      \* nodes sent so far
  documents,  \* documents sent so far
  sent,       \* history: the events sent to the emitter
  emitter,
  text,       \* the lexemes known and not scanned yet
  plain,      \* whether the last lexeme scanned is a plain scalar
  length,     \* lexemes the text may still have
  scanner, parser, builder,
  received,   \* history: the events of a written text the automaton gave
  idle        \* history: steps of the automaton since it took a token

encoding == <<given, open, nodes, documents, sent, emitter>>
vars == <<encoding, phase, text, plain, length, scanner, parser, builder, received, idle>>

Init ==
  /\ \/ given = {} /\ length = 0 /\ phase = "writing"
     \/ \E t \in Texts : given = t.kinds /\ length = t.length /\ phase = "reading"
  /\ open = <<>> /\ nodes = 0 /\ documents = 0
  /\ sent = <<Plain("stream-start")>>
  /\ emitter = NewEmitter
  /\ text = <<>> /\ plain = FALSE
  /\ scanner = NewScanner /\ parser = NewParser /\ builder = NewBuilder
  /\ received = <<>> /\ idle = 0

-----------------------------------------------------------------------------
(* Writing.                                                                *)

\* must: an error of the emitter ends the encoder.
Encoding == phase = "writing" /\ emitter.state # "error"

\* emit: the event goes to the end of the emitter's queue.
Send(event) ==
  /\ Encoding /\ NeedMoreEvents(emitter)
  /\ sent' = Append(sent, Plainly(event))
  /\ emitter' = [emitter EXCEPT !.events = Append(@, event)]
  /\ UNCHANGED <<given, phase, text, plain, length, scanner, parser, builder, received, idle>>

\* The place of the next node: nothing, or what the innermost call waits for.
Place == IF open = <<>> THEN "none" ELSE Last(open)
\* The node there is complete: an entry of a mapping is a key and its value.
Advanced ==
  CASE Place = "document" -> Front(open) \o <<"document end">>
    [] Place = "key"      -> Front(open) \o <<"value">>
    [] Place = "value"    -> Front(open) \o <<"key">>
    [] OTHER              -> open

\* Bound: nodes are left for this one and for every value still owed to a key.
Count(set, s) == Cardinality({i \in DOMAIN s : s[i] \in set})
Affordable ==
  /\ Place \in {"document", "sequence", "key", "value"}
  /\ nodes < MaxNodes /\ nodes + 1 + Count({"value"}, Advanced) <= MaxNodes

\* Encode begins a document.
BeginDocument ==
  /\ open = <<>> /\ documents < MaxDocuments /\ nodes < MaxNodes
  /\ sent[Len(sent)].type # "stream-end"
  /\ Send(Start("document-start", FALSE))
  /\ open' = <<"document">> /\ documents' = documents + 1
  /\ UNCHANGED nodes

EndDocument ==
  /\ open = <<"document end">>
  /\ Send(Start("document-end", FALSE))
  /\ open' = <<>>
  /\ UNCHANGED <<nodes, documents>>

\* emitScalar.
SendScalar ==
  /\ Affordable
  /\ \E v \in Scalars : Send([Start("scalar", FALSE) EXCEPT !.value = v])
  /\ open' = Advanced /\ nodes' = nodes + 1
  /\ UNCHANGED documents

\* mappingv and slicev: the flow style is a choice of the value's type.
BeginCollection ==
  /\ Affordable
  /\ \E kind \in {"sequence", "mapping"}, flow \in BOOLEAN :
       /\ Send(Start(IF kind = "sequence" THEN "sequence-start" ELSE "mapping-start", flow))
       /\ open' = Append(Advanced, IF kind = "sequence" THEN "sequence" ELSE "key")
  /\ nodes' = nodes + 1
  /\ UNCHANGED documents

EndCollection ==
  /\ Place \in {"sequence", "key"}
  /\ Send(Start(IF Place = "sequence" THEN "sequence-end" ELSE "mapping-end", FALSE))
  /\ open' = Front(open)
  /\ UNCHANGED <<nodes, documents>>

\* finish.
Finish ==
  /\ open = <<>> /\ documents > 0
  /\ sent[Len(sent)].type # "stream-end"
  /\ Send(Start("stream-end", FALSE))
  /\ UNCHANGED <<open, nodes, documents>>

\* One turn of the loop of yaml_emitter_emit.
Emit ==
  /\ Encoding /\ ~NeedMoreEvents(emitter)
  /\ emitter' = EmitHead(emitter)
  /\ UNCHANGED <<given, phase, open, nodes, documents, sent, text, plain, length,
                 scanner, parser, builder, received, idle>>

\* The text is written: it is read from its first line.
Close ==
  /\ phase = "writing" /\ emitter.state = "end"
  /\ phase' = "reading"
  /\ text' = WithTrails(emitter.text)
  /\ UNCHANGED <<encoding, plain, length, scanner, parser, builder, received, idle>>

-----------------------------------------------------------------------------
(* Reading.                                                                *)

Reading ==
  /\ phase = "reading" /\ scanner.error = "none"
  /\ ~Stopped(parser) /\ builder.outcome = "reading"

Short == Value("short", 0, 0)

\* The steps TakesTokens allows the automaton at one token.
MaxIdle == 4

\* Where a text may go on behind the place m: at the start of a line, or on the
\* same line or the next one.
Places(m) == IF m.col = 0 THEN {Mark(m.line, c) : c \in Columns}
             ELSE {Mark(m.line, m.col + 1)} \cup {Mark(m.line + 1, c) : c \in Columns}

\* The lexemes that can stand at p, by the function that scans them.
At(kind, value, p, width) == Lexeme(kind, value, p.line, p.col, width, 0)
Quoted(p)     == {At("quoted", Short, p, 3), [At("quoted", Short, p, 3) EXCEPT !.down = 1]}
Plains(p)     == {[At("plain", Short, p, 2) EXCEPT !.trail = b] : b \in BOOLEAN}
Anchors(p)    == {At(kind, Short, p, 2) : kind \in {"anchor", "alias"}}
Tags(p)       == {At("tag", Value(handle, 0, 0), p, 3) : handle \in {"!!", "!e!"}}
Directed(p)   == {At("directive", Value(d, 0, 0), p, 9) :
                    d \in {"%YAML 1.1", "%YAML 2.0", "!e!", "%FOO"}}
Literal(p, tab, inner, hint) ==
  [At("literal", [Short EXCEPT !.tab = tab], p, 1) EXCEPT
     !.down = 2, !.inner = inner, !.hint = hint]
Literals(p)   == {Literal(p, t, c, h) : t \in BOOLEAN, c \in Columns, h \in {0, 2}}
Marks(p)      == {At(kind, Empty, p, 1) : kind \in Indicators}
Boundaries(p) == {At(kind, Empty, p, 3) : kind \in {"---", "..."}}

LexemesAt(p) ==
  Marks(p) \cup Quoted(p) \cup Plains(p) \cup Anchors(p) \cup Tags(p)
    \cup (IF p.col = 0 THEN Directed(p) \cup Boundaries(p) ELSE {})
    \cup (IF InBlock(scanner) THEN Literals(p) ELSE {})

\* A plain scalar with no break behind it goes on on its line, and neither kind is
\* followed by what it would have been scanned with.
Continuations ==
  {x \in UNION {LexemesAt(p) : p \in Places(scanner.mark)} :
     /\ x.kind \in given
     /\ plain => EndsPlain(scanner, x) /\ x.line = scanner.mark.line}

\* The next lexeme: what follows, or the end, again and again.
Upcoming ==
  IF text # <<>> THEN {Head(text)}
  ELSE {Lexeme("end", Empty, scanner.mark.line, scanner.mark.col, 0, 0)}
       \cup IF length > 0 /\ scanner.started /\ ~scanner.ended THEN Continuations ELSE {}

Below(x, line) ==
  [At("plain", Short, Mark(line, x.inner + x.value.lead), 2) EXCEPT !.trail = TRUE]

\* The lines below a block scalar's header that are not of the scalar are scanned
\* as what else they can be.
Behind(x) ==
  IF x.kind = "literal" /\ ~Taken(UnrollIndent(scanner, x.col), x)
  THEN <<Below(x, x.line + 1)>>
  ELSE <<>>

\* yaml_parser_fetch_more_tokens: one more token.
Fetch ==
  /\ Reading /\ ~scanner.available /\ MustFetch(scanner)
  /\ \E x \in Upcoming :
       /\ scanner' = FetchNextToken(scanner, x)
       /\ IF ~scanner.started THEN UNCHANGED <<text, plain, length>>
          ELSE /\ plain' = (x.kind = "plain")
               /\ text' = Behind(x) \o (IF text = <<>> THEN <<>> ELSE Tail(text))
               /\ length' = IF text = <<>> /\ x.kind # "end" THEN length - 1 ELSE length
  /\ UNCHANGED <<encoding, phase, parser, builder, received, idle>>

\* yaml_parser_fetch_more_tokens: the queue will do.
Ready ==
  /\ Reading /\ ~scanner.available /\ ~MustFetch(scanner)
  /\ scanner' = Offer(scanner)
  /\ UNCHANGED <<encoding, phase, text, plain, length, parser, builder, received, idle>>

\* The automaton looks at the token at the head of the queue; the builder is given
\* the event, if there is one.
Parse ==
  /\ Reading /\ scanner.available
  /\ LET r == Step(parser, Head(scanner.tokens))
     IN /\ parser' = r.parser
        /\ scanner' = IF r.skipped THEN Take(scanner) ELSE scanner
        /\ builder' = IF r.event = NoEvent THEN builder ELSE Build(builder, r.event)
        /\ received' = IF given # {} \/ r.event = NoEvent THEN received
                       ELSE Append(received, r.event)
        /\ idle' = IF r.skipped THEN 0 ELSE IF idle > MaxIdle THEN idle ELSE idle + 1
  /\ UNCHANGED <<encoding, phase, text, plain, length>>

\* All is read, or the text is refused.
Done == /\ phase = "reading" /\ ~Reading /\ UNCHANGED vars

Writing == \/ BeginDocument \/ EndDocument \/ SendScalar \/ BeginCollection \/ EndCollection
          \/ Finish \/ Emit \/ Close
Read   == Fetch \/ Ready \/ Parse
Next   == Writing \/ Read \/ Done

Spec == Init /\ [][Next]_vars

-----------------------------------------------------------------------------
(* Properties.                                                             *)

Refused == scanner.error # "none" \/ parser.state = "error"
           \/ builder.outcome \in {"panic", "unknown anchor"}

TypeOK ==
  /\ given \subseteq Kinds /\ phase \in {"writing", "reading"}
  /\ nodes \in 0..MaxNodes /\ documents \in 0..MaxDocuments /\ length \in Nat
  /\ builder.outcome \in {"reading", "read", "panic", "unknown anchor"}
  /\ scanner.indent \in Int /\ scanner.parsed \in Nat
  /\ \A x \in {text[i] : i \in DOMAIN text} : x.line >= scanner.mark.line

\* What the encoder sent is what the decoder is given, event by event, and what
\* connectorctl writes is not refused when it is read, with two exceptions, which are
\* errors of the emitter: a literal text loses one of the breaks it begins with, and one
\* that begins with a tab is written without the hint it cannot be read without.
InLiteral(v, hint) ==
  \E i \in DOMAIN emitter.text :
    emitter.text[i].kind = "literal" /\ emitter.text[i].value = v /\ emitter.text[i].hint = hint
RoundTrip ==
  given = {} /\ phase = "reading" =>
    /\ Len(received) <= Len(sent)
    /\ \A i \in DOMAIN received :
         \/ received[i] = sent[i]
         \/ /\ sent[i].value.breaks > 0 /\ InLiteral(WithoutBreak(sent[i].value), BestIndent)
            /\ received[i] = [sent[i] EXCEPT !.value = WithoutBreak(@)]
    /\ Refused => \E v \in Scalars : v.tab /\ InLiteral(v, 0)

\* The automaton gives the node builder no event it has no branch for: decode.go
\* panics at one ("attempted to parse unknown event"), which handleErr passes on to
\* the program, and refuses the whole text at another ("expected ... event but got").
NeverSurprised == builder.outcome # "panic"

\* The blocks the automaton is inside of and those that wait in the queue are the
\* levels of indentation the scanner counts.
BlockStates    == {"block sequence first", "block sequence", "block sequence item",
                   "block mapping first", "block mapping key", "block mapping key item",
                   "block mapping value", "block mapping value item"}
Types(s)       == [i \in DOMAIN s |-> s[i].type]
BlocksMatch ==
  phase = "reading" /\ ~Refused =>
    Count(BlockStates, Append(parser.states, parser.state))
      + Count({"block-sequence-start", "block-mapping-start"}, Types(scanner.tokens))
      - Count({"block-sequence-start", "block-mapping-start"},
              IF parser.state \in {"block sequence first", "block mapping first"}
              THEN <<Head(scanner.tokens).type>> ELSE <<>>)
      - Count({"block-end"}, Types(scanner.tokens))
      = Len(scanner.indents)

\* simple_keys_by_tok leads to a key that is there: fetch_more_tokens indexes
\* simple_keys with it, and an index out of range is no yamlError.  And a key that
\* may still turn out to be one has not been given to the parser: KEY would come
\* too late.  A flow collection loses its entry of simple_keys_by_tok to a key
\* inside of it, and is not held back.
SimpleKeysSound ==
  /\ TypeOK
  /\ scanner.error = "none" => HeadKey(scanner) <= Len(scanner.keys)
  /\ phase = "reading" /\ scanner.error = "none" =>
       \A level \in DOMAIN scanner.keys :
         LET key == scanner.keys[level]
         IN Alive(scanner, key) /\ key.token \in DOMAIN scanner.byTok
              => key.token >= scanner.parsed

\* The automaton takes a token every few steps: no text makes it give events, or
\* change its state, for ever at the same place.
TakesTokens == idle <= MaxIdle
=============================================================================
