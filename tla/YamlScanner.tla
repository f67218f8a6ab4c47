---------------------------- MODULE YamlScanner ----------------------------
(***************************************************************************)
(* The scanner of the YAML library (yaml/scannerc.go): it turns a text     *)
(* into the queue of tokens the parser reads, and decides after the fact   *)
(* that what it has read was a mapping key ("simple key").                 *)
(*                                                                         *)
(* A text is a sequence of lexemes, each with its kind, its place and what *)
(* the scanner needs to know of it: the characters of a scalar, a tag or   *)
(* an anchor, blanks, breaks and comments are abstracted.  A scanner is a  *)
(* record; a scanner with an error never leaves it, so what a fetcher does *)
(* to it after the error does not matter.                                  *)
(***************************************************************************)
EXTENDS Integers, Sequences, FiniteSets, SequencesExt

CONSTANTS
  MaxKey,        \* the longest simple key: 1024 characters
  MaxFlowLevel,  \* max_flow_level
  MaxIndents     \* max_indents

ASSUME ScannerAssumption == {MaxKey, MaxFlowLevel, MaxIndents} \subseteq Nat \ {0}

\* What a scalar holds: the breaks it begins with, then spaces or a tab, its text, and
\* its final breaks.
Value(text, lead, final) ==
  [text |-> text, lead |-> lead, final |-> final, breaks |-> 0, tab |-> FALSE]
Empty == Value("", 0, 0)

\* Three parts of a lexeme matter for a block scalar only: the column of its
\* content, its indentation hint (0: none) and its chomping (-1, 0 or 1); one for a
\* plain scalar: whether a break comes after it, which is scanned with it.
Lexeme(kind, value, line, col, width, down) ==
  [kind |-> kind, value |-> value, line |-> line, col |-> col, width |-> width,
   down |-> down, inner |-> 0, hint |-> 0, chomp |-> 0,
   trail |-> FALSE]

Token(type, value) == [type |-> type, value |-> value]
Mark(line, col)    == [line |-> line, col |-> col]
NoKey              == [possible |-> FALSE, required |-> FALSE, token |-> 0, mark |-> Mark(0, 0)]

\* Before fetch_stream_start.  byTok is simple_keys_by_tok: the level of the key
\* that begins at a token.
NewScanner ==
  [mark |-> Mark(0, 0), tokens |-> <<>>, parsed |-> 0, available |-> FALSE,
   started |-> FALSE, ended |-> FALSE, indent |-> -1, indents |-> <<>>,
   keys |-> <<>>, byTok |-> <<>>, allowed |-> FALSE, error |-> "none"]

FlowLevel(s) == Len(s.keys) - 1
NextToken(s) == s.parsed + Len(s.tokens)
Fail(s, why) == IF s.error = "none" THEN [s EXCEPT !.error = why] ELSE s

\* yaml_insert_token: a place behind the head of the queue is the end of the queue.
Insert(s, place, token) ==
  [s EXCEPT !.tokens = IF place < 0 THEN Append(@, token) ELSE InsertAt(@, place + 1, token)]

Add(s, type, value) == Insert(s, -1, Token(type, value))

-----------------------------------------------------------------------------
(* Simple keys.                                                            *)

Without(f, x) == [y \in DOMAIN f \ {x} |-> f[y]]
With(f, x, v) == [y \in DOMAIN f \cup {x} |-> IF y = x THEN v ELSE f[y]]

\* On one line, and not too long.
Alive(s, key) == /\ key.possible
                 /\ key.mark.line = s.mark.line /\ s.mark.col <= key.mark.col + MaxKey

\* The side effects of yaml_simple_key_is_valid on a key that is not.
Expire(s, level) ==
  IF ~s.keys[level].possible \/ Alive(s, s.keys[level]) THEN s
  ELSE IF s.keys[level].required THEN Fail(s, "expected ':'")
  ELSE [s EXCEPT !.keys[level].possible = FALSE]

Drop(s, level) ==
  [s EXCEPT !.keys[level].possible = FALSE, !.byTok = Without(@, s.keys[level].token)]

RemoveSimpleKey(s) ==
  LET level == Len(s.keys)
  IN IF ~s.keys[level].possible THEN s
     ELSE IF s.keys[level].required THEN Fail(s, "expected ':'") ELSE Drop(s, level)

SaveSimpleKey(s) ==
  LET key == [possible |-> TRUE, required |-> FlowLevel(s) = 0 /\ s.indent = s.mark.col,
              token |-> NextToken(s), mark |-> s.mark]
      r == RemoveSimpleKey(s)
  IN IF ~s.allowed THEN s
     ELSE [r EXCEPT !.keys[Len(s.keys)] = key, !.byTok = With(@, key.token, Len(s.keys))]

-----------------------------------------------------------------------------
(* Flow levels and indentation.                                            *)

IncreaseFlowLevel(s) ==
  LET r == [s EXCEPT !.keys = Append(@, [NoKey EXCEPT !.token = NextToken(s), !.mark = s.mark])]
  IN IF FlowLevel(r) > MaxFlowLevel THEN Fail(r, "flow depth") ELSE r

DecreaseFlowLevel(s) ==
  IF FlowLevel(s) = 0 THEN s
  ELSE [s EXCEPT !.keys = Front(@), !.byTok = Without(@, Last(s.keys).token)]

\* The token opens the block; number is the token it is put before, or -1.
RollIndent(s, col, number, type) ==
  LET r == Insert([s EXCEPT !.indents = Append(@, s.indent), !.indent = col],
                  IF number > -1 THEN number - s.parsed ELSE number, Token(type, Empty))
  IN IF FlowLevel(s) > 0 \/ s.indent >= col THEN s
     ELSE IF Len(r.indents) > MaxIndents THEN Fail(r, "indent depth") ELSE r

\* Mutant of UnrollIndent: one BLOCK-END for all the levels that are left.
UnrollIndentAtOnce(s, col) ==
  LET levels == Append(s.indents, s.indent)
      keep   == CHOOSE k \in 1..Len(levels) :
                  /\ levels[k] <= col
                  /\ \A l \in k + 1..Len(levels) : levels[l] > col
  IN IF FlowLevel(s) > 0 \/ keep = Len(levels) THEN s
     ELSE [s EXCEPT !.indent = levels[keep], !.indents = SubSeq(levels, 1, keep - 1),
             !.tokens = Append(@, Token("block-end", Empty))]

\* One BLOCK-END for each level deeper than the column.
UnrollIndent(s, col) ==
  LET levels == Append(s.indents, s.indent)
      keep   == CHOOSE k \in 1..Len(levels) :
                  /\ levels[k] <= col
                  /\ \A l \in k + 1..Len(levels) : levels[l] > col
  IN IF FlowLevel(s) > 0 THEN s
     ELSE [s EXCEPT !.indent = levels[keep], !.indents = SubSeq(levels, 1, keep - 1),
             !.tokens = @ \o [k \in 1..Len(levels) - keep |-> Token("block-end", Empty)]]

-----------------------------------------------------------------------------
(* The fetchers.                                                           *)

Allow(s, b)    == [s EXCEPT !.allowed = b]
Past(s, x)     == [s EXCEPT !.mark = IF x.trail THEN Mark(x.line + x.down + 1, 0)
                                     ELSE IF x.down > 0 THEN Mark(x.line + x.down, x.width)
                                     ELSE Mark(x.line, x.col + x.width)]
InBlock(s)     == FlowLevel(s) = 0
Reset(s)       == Allow(RemoveSimpleKey(UnrollIndent(s, -1)), FALSE)

FetchStreamStart(s) ==
  Add([s EXCEPT !.keys = <<NoKey>>, !.allowed = TRUE, !.started = TRUE], "stream-start", Empty)

FetchStreamEnd(s) ==
  LET line == IF s.mark.col = 0 THEN s.mark.line ELSE s.mark.line + 1
  IN Add(Reset([s EXCEPT !.mark = Mark(line, 0)]), "stream-end", Empty)

FetchDirective(s, x) ==
  IF x.value.text = "%FOO" THEN Fail(s, "found unknown directive name")
  ELSE Add(Past(Reset(s), x), "directive", x.value)
FetchDocumentIndicator(s, x) == Add(Past(Reset(s), x), x.kind, Empty)

FetchFlowStart(s, x) ==
  Add(Past(Allow(IncreaseFlowLevel(SaveSimpleKey(s)), TRUE), x), x.kind, Empty)
FetchFlowEnd(s, x) ==
  Add(Past(Allow(DecreaseFlowLevel(RemoveSimpleKey(s)), FALSE), x), x.kind, Empty)
FetchFlowEntry(s, x) == Add(Past(Allow(RemoveSimpleKey(s), TRUE), x), ",", Empty)

\* '-' and '?' open a block where they stand, and must be allowed there.
Opened(s, x, type) ==
  IF ~InBlock(s) THEN s
  ELSE IF ~s.allowed THEN Fail(s, "not allowed in this context")
  ELSE RollIndent(s, x.col, -1, type)

FetchBlockEntry(s, x) ==
  Add(Past(Allow(RemoveSimpleKey(Opened(s, x, "block-sequence-start")), TRUE), x), "-", Empty)
FetchKey(s, x) ==
  Add(Past(Allow(RemoveSimpleKey(Opened(s, x, "block-mapping-start")), InBlock(s)), x), "?", Empty)

\* ':' after a simple key makes the tokens since then a key: KEY goes before them,
\* and BLOCK-MAPPING-START before KEY.
FetchValue(s, x) ==
  LET level  == Len(s.keys)
      key    == s.keys[level]
      simple == RollIndent(Insert(s, key.token - s.parsed, Token("?", Empty)),
                           key.mark.col, key.token, "block-mapping-start")
  IN Add(Past(IF Alive(s, key) THEN Allow(Drop(simple, level), FALSE)
              ELSE Allow(Opened(Expire(s, level), x, "block-mapping-start"), InBlock(s)), x),
         ":", Empty)

\* Anchors, aliases and tags; quoted scalars; plain scalars, which allow a key when
\* a break comes after them.
FetchProperty(s, x) == Add(Past(Allow(SaveSimpleKey(s), FALSE), x), x.kind, x.value)
FetchQuoted(s, x)   == Add(Past(Allow(SaveSimpleKey(s), FALSE), x), "scalar", x.value)
FetchPlain(s, x)    == Add(Past(Allow(SaveSimpleKey(s), x.trail), x), "scalar", x.value)

\* scan_plain_scalar goes on at x unless it ends the scalar: ':', a document
\* indicator, an indicator of a flow collection, or a line that is not indented.
EndsPlain(s, x) ==
  \/ x.kind \in {":", "---", "...", "end"}
  \/ ~InBlock(s) /\ x.kind \in {",", "?", "[", "]", "{", "}"}
  \/ InBlock(s) /\ s.mark.col = 0 /\ x.col <= s.indent

\* Mutant of ContentIndent: the hint counts from the left margin.
ContentIndentAbsolute(s, x) ==
  IF x.hint > 0 THEN x.hint
  ELSE IF x.inner + x.value.lead > s.indent THEN x.inner + x.value.lead ELSE s.indent + 1

\* The column a block scalar's content begins at: counted from the enclosing
\* block when there is a hint, found from the first line when there is none.
ContentIndent(s, x) ==
  IF x.hint > 0 THEN (IF s.indent >= 0 THEN s.indent + x.hint ELSE x.hint)
  ELSE IF x.inner + x.value.lead > s.indent THEN x.inner + x.value.lead ELSE s.indent + 1

\* Whether the lines below belong to the scalar, and what is read of them.
Taken(s, x)    == x.inner + x.value.lead >= ContentIndent(s, x)
Scanned(s, x)  ==
  IF ~Taken(s, x) THEN Empty
  ELSE [x.value EXCEPT
          !.lead  = x.inner + @ - ContentIndent(s, x),
          !.final = CASE x.chomp = -1 -> 0 [] x.chomp = 1 -> @
                      [] OTHER -> IF @ > 0 THEN 1 ELSE 0]

\* While the indentation is not known, or not reached, a tab is no space of it.
TabIndents(s, x) == x.value.tab /\ (x.hint = 0 \/ ~Taken(s, x))

FetchBlockScalar(s, x) ==
  LET below == IF Taken(s, x) THEN x.line + x.down ELSE x.line + 1
      r     == IF TabIndents(s, x) THEN Fail(s, "found a tab character") ELSE s
  IN Add([Allow(RemoveSimpleKey(r), TRUE) EXCEPT !.mark = Mark(below, 0)],
         "scalar", Scanned(s, x))

\* scan_to_next_token: past a break in the block context a key may follow.
Reached(s, x) ==
  [s EXCEPT !.mark = Mark(x.line, x.col),
            !.allowed = s.allowed \/ (InBlock(s) /\ x.line > s.mark.line)]

\* yaml_parser_fetch_next_token, at lexeme x.
FetchNextToken(s, x) ==
  LET r == UnrollIndent(Reached(s, x), x.col)
  IN IF ~s.started THEN FetchStreamStart(s)
     ELSE CASE x.kind = "end"               -> FetchStreamEnd([r EXCEPT !.ended = TRUE])
            [] x.kind = "directive"         -> FetchDirective(r, x)
            [] x.kind \in {"---", "..."}    -> FetchDocumentIndicator(r, x)
            [] x.kind \in {"[", "{"}        -> FetchFlowStart(r, x)
            [] x.kind \in {"]", "}"}        -> FetchFlowEnd(r, x)
            [] x.kind = ","                 -> FetchFlowEntry(r, x)
            [] x.kind = "-"                 -> FetchBlockEntry(r, x)
            [] x.kind = "?"                 -> FetchKey(r, x)
            [] x.kind = ":"                 -> FetchValue(r, x)
            [] x.kind = "literal"           -> FetchBlockScalar(r, x)
            [] x.kind = "quoted"            -> FetchQuoted(r, x)
            [] x.kind = "plain"             -> FetchPlain(r, x)
            [] OTHER                        -> FetchProperty(r, x)

-----------------------------------------------------------------------------
(* yaml_parser_fetch_more_tokens.                                          *)

\* A key that may begin at the head of the queue keeps it from the parser.
HeadKey(s) == IF s.parsed \in DOMAIN s.byTok THEN s.byTok[s.parsed] ELSE 0

\* Mutant of MustFetch: three tokens are enough, whatever the first one begins.
MustFetchThree(s) == Len(s.tokens) <= 2

\* Two tokens of lookahead (for comments), more while the head may be a key.
MustFetch(s) ==
  \/ Len(s.tokens) <= 2
  \/ HeadKey(s) # 0 /\ Alive(s, s.keys[HeadKey(s)])

\* The queue is ready.
Offer(s) ==
  [IF HeadKey(s) = 0 THEN s ELSE Expire(s, HeadKey(s)) EXCEPT !.available = TRUE]

\* yaml_parser_scan: the parser takes a token.
Take(s) ==
  [s EXCEPT !.tokens = Tail(@), !.parsed = @ + 1, !.available = FALSE]
=============================================================================
