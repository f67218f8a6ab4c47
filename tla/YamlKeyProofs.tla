--------------------------- MODULE YamlKeyProofs ---------------------------
(***************************************************************************)
(* Proofs about the simple keys of the YAML library (Yaml): the scanner    *)
(* finds the keys it looks for in the index by tokens, and gives no token  *)
(* away that may yet begin a key, because the text lies in front of it in  *)
(* order - any text that is given, and any the emitter writes.             *)
(***************************************************************************)
EXTENDS YamlProofs

-----------------------------------------------------------------------------
(* Simple keys: where the keys of the levels begin, and the index of them  *)
(* by the token they begin at.                                             *)

\* Places in the order of the text, and the reach of a key: yaml_simple_key_is_valid.
Upto(m, k)      == m.line < k.line \/ (m.line = k.line /\ m.col <= k.col)
InReach(m, key) == m.line = key.mark.line /\ m.col <= key.mark.col + MaxKey

\* The first token the parser does not have nor is offered.
Floor(s) == IF s.available THEN s.parsed + 1 ELSE s.parsed

\* The keys begin one behind the other, at places and tokens the scanner has passed.
Marked(keys, mark) ==
  /\ keys \in Seq(KeySet) /\ mark \in Positions
  /\ \A i \in 1..Len(keys) : Upto(keys[i].mark, mark)
  /\ \A i, j \in 1..Len(keys) : i <= j => Upto(keys[i].mark, keys[j].mark)
Numbered(keys, next) == \A i \in 1..Len(keys) : keys[i].token < next

\* An entry of a token still to come leads to the key of a flow level that begins
\* there, and a key that has an entry is found by it.
Indexed(keys, byTok, parsed) ==
  /\ \A t \in DOMAIN byTok : t \in Nat /\ byTok[t] \in Nat \ {0}
  /\ \A t \in DOMAIN byTok : t >= parsed /\ byTok[t] >= 2 =>
       byTok[t] <= Len(keys) /\ keys[byTok[t]].token = t
  /\ \A l \in 1..Len(keys) : keys[l].possible /\ keys[l].token \in DOMAIN byTok =>
       byTok[keys[l].token] = l

\* The parser is not given a token that may begin a key.
Held(keys, byTok, floor, mark) ==
  \A l \in 1..Len(keys) :
    keys[l].possible /\ InReach(mark, keys[l]) /\ keys[l].token \in DOMAIN byTok =>
      keys[l].token >= floor

\* An entry of a flow level whose key is none any more: it stays out of reach, and
\* there are enough tokens behind it to be taken before another key replaces it.
Outlived(keys, byTok, floor, mark, t) ==
  t >= floor /\ byTok[t] >= 2 /\ ~keys[byTok[t]].possible
Lax(keys, byTok, floor, mark, next) ==
  \A t \in DOMAIN byTok : Outlived(keys, byTok, floor, mark, t) =>
    ~InReach(mark, keys[byTok[t]]) /\ next >= t + 3
Spent(keys, byTok, floor, mark, next, allowed) ==
  \A t \in DOMAIN byTok : Outlived(keys, byTok, floor, mark, t) =>
    /\ ~InReach(mark, keys[byTok[t]])
    /\ next >= t + 3 \/ (next >= t + 2 /\ byTok[t] = Len(keys) /\ ~allowed)

LEMMA UptoFacts ==
  ASSUME NEW a \in Positions, NEW b \in Positions, NEW c \in Positions
  PROVE  Upto(a, a) /\ (Upto(a, b) /\ Upto(b, c) => Upto(a, c))
BY DEF Upto, Positions

\* A key out of reach stays so, and the keys behind one in reach are in reach.
LEMMA ReachFacts ==
  ASSUME NEW m \in Positions, NEW k \in Positions, NEW key \in KeySet, NEW inner \in KeySet
  PROVE  /\ Upto(key.mark, m) /\ Upto(m, k) /\ InReach(k, key) => InReach(m, key)
         /\ Upto(key.mark, inner.mark) /\ Upto(inner.mark, m) /\ InReach(m, key) => InReach(m, inner)
<1>1. MaxKey \in Nat
  BY ScannerAssumption
<1>2. /\ m.line \in Nat /\ m.col \in Nat /\ k.line \in Nat /\ k.col \in Nat
      /\ key.mark.line \in Nat /\ key.mark.col \in Nat
      /\ inner.mark.line \in Nat /\ inner.mark.col \in Nat
  BY DEF KeySet, Positions
<1>3. PICK x, y, u, v : x = key.mark.line /\ y = key.mark.col /\ u = inner.mark.line /\ v = inner.mark.col
  OBVIOUS
<1>4. Upto(key.mark, m) /\ Upto(m, k) /\ InReach(k, key) => InReach(m, key)
  BY <1>1, <1>2, <1>3 DEF Upto, InReach
<1>5. Upto(key.mark, inner.mark) /\ Upto(inner.mark, m) /\ InReach(m, key) => InReach(m, inner)
  BY <1>1, <1>2, <1>3 DEF Upto, InReach
<1> QED BY <1>4, <1>5

\* The same keys, some of them no key any more, and fewer entries of the index.
LEMMA Fewer ==
  ASSUME NEW keys, NEW more, NEW byTok, NEW index, NEW mark, NEW next, NEW parsed, NEW floor,
         keys \in Seq(KeySet), Len(keys) = Len(more), DOMAIN byTok \subseteq DOMAIN index,
         \A t \in DOMAIN byTok : byTok[t] = index[t],
         \A i \in 1..Len(keys) : /\ keys[i].mark = more[i].mark /\ keys[i].token = more[i].token
                                 /\ keys[i].possible => more[i].possible
  PROVE  /\ Marked(more, mark) => Marked(keys, mark)
         /\ Numbered(more, next) => Numbered(keys, next)
         /\ Indexed(more, index, parsed) => Indexed(keys, byTok, parsed)
         /\ Held(more, index, floor, mark) => Held(keys, byTok, floor, mark)
<1>1. PICK n : n = Len(keys)
  OBVIOUS
<1>2. n \in Nat /\ n = Len(more)
  BY <1>1, LenProperties
<1>3. Marked(more, mark) => Marked(keys, mark)
  BY <1>1, <1>2 DEF Marked
<1>4. Numbered(more, next) => Numbered(keys, next)
  BY <1>1, <1>2 DEF Numbered
<1>5. ASSUME Indexed(more, index, parsed)
      PROVE  Indexed(keys, byTok, parsed)
  <2>1. \A t \in DOMAIN byTok : t \in Nat /\ byTok[t] \in Nat \ {0}
    BY <1>5 DEF Indexed
  <2>2. \A t \in DOMAIN byTok : t >= parsed /\ byTok[t] >= 2 =>
          byTok[t] <= n /\ keys[byTok[t]].token = t
    <3> TAKE t \in DOMAIN byTok
    <3> HAVE t >= parsed /\ byTok[t] >= 2
    <3>1. PICK l : l = byTok[t]
      OBVIOUS
    <3>2. l = index[t] /\ t \in DOMAIN index /\ l \in Nat \ {0}
      BY <2>1, <3>1
    <3>3. l <= n /\ more[l].token = t
      BY <1>2, <1>5, <3>1, <3>2 DEF Indexed
    <3>4. l \in 1..n
      BY <1>2, <3>2, <3>3
    <3> QED BY <1>1, <3>1, <3>3, <3>4
  <2>3. \A l \in 1..n : keys[l].possible /\ keys[l].token \in DOMAIN byTok =>
          byTok[keys[l].token] = l
    BY <1>1, <1>2, <1>5 DEF Indexed
  <2> QED BY <1>1, <2>1, <2>2, <2>3 DEF Indexed
<1>6. ASSUME Held(more, index, floor, mark)
      PROVE  Held(keys, byTok, floor, mark)
  <2>1. \A l \in 1..n : InReach(mark, keys[l]) => InReach(mark, more[l])
    BY <1>1 DEF InReach
  <2> QED BY <1>1, <1>2, <1>6, <2>1 DEF Held
<1> QED BY <1>3, <1>4, <1>5, <1>6

\* What is always true of the keys; and of the entries that have outlived theirs, while
\* a token is fetched and when it is fetched.  No key begins at token n or behind it.
Steady(s, n)  == /\ n \in Nat /\ n <= NextToken(s) + 1
                 /\ Marked(s.keys, s.mark) /\ Numbered(s.keys, n)
                 /\ Indexed(s.keys, s.byTok, s.parsed)
                 /\ Held(s.keys, s.byTok, Floor(s), s.mark)
Loose(s, n)   == Steady(s, n) /\ Lax(s.keys, s.byTok, Floor(s), s.mark, n)
Settled(s, n) == Steady(s, n) /\ Spent(s.keys, s.byTok, Floor(s), s.mark, n, s.allowed)

\* A scanner at the place m that fails, or goes on with its keys in order.
Fine(s, n, m) == Sound(s) /\ s.mark = m /\ (s.error = "none" => Loose(s, n))
Firm(s, n, m) == Sound(s) /\ s.mark = m /\ (s.error = "none" => Settled(s, n))

\* What a scanner has done stays sound.
LEMMA StaysSound ==
  ASSUME NEW s, Sound(s)
  PROVE  /\ \A why : Sound(Fail(s, why))
         /\ \A b : Sound(Allow(s, b)) /\ Sound([s EXCEPT !.ended = b])
         /\ \A level : Sound(Drop(s, level)) /\ Sound(Expire(s, level))
         /\ Sound(RemoveSimpleKey(s)) /\ Sound(SaveSimpleKey(s))
         /\ Sound(IncreaseFlowLevel(s)) /\ Sound(DecreaseFlowLevel(s))
         /\ \A x \in LexemeSet : Sound(Past(s, x)) /\ Sound(Reached(s, x))
         /\ \A col \in Int : -1 <= col => Sound(UnrollIndent(s, col))
<1>1. PICK n : Balanced(s, n)
  BY SoundBalanced
<1>2. \A q : Balanced(q, n) => Sound(q)
  BY DEF Balanced
<1>3. \A why : Sound(Fail(s, why))
  BY <1>1, <1>2, PlainBalanced
<1>4. \A b : Sound(Allow(s, b)) /\ Sound([s EXCEPT !.ended = b])
  BY <1>1, <1>2, PlainBalanced
<1>5. /\ \A level : Sound(Drop(s, level)) /\ Sound(Expire(s, level))
      /\ Sound(RemoveSimpleKey(s)) /\ Sound(SaveSimpleKey(s))
  BY <1>1, <1>2, KeyBalanced, SaveBalanced
<1>6. Sound(IncreaseFlowLevel(s)) /\ Sound(DecreaseFlowLevel(s))
  BY <1>1, <1>2, FlowBalanced
<1>7. \A x \in LexemeSet : Sound(Past(s, x)) /\ Sound(Reached(s, x))
  BY <1>1, <1>2, PastBalanced
<1>8. \A col \in Int : -1 <= col => Sound(UnrollIndent(s, col))
  BY <1>1, <1>2, UnrollBalanced
<1> QED BY <1>3, <1>4, <1>5, <1>6, <1>7, <1>8

\* The numbers of a sound scanner.
LEMMA NumberFacts ==
  ASSUME NEW s, Sound(s)
  PROVE  /\ NextToken(s) \in Nat /\ Floor(s) \in Nat /\ s.parsed \in Nat /\ s.parsed <= Floor(s)
         /\ Len(s.keys) \in Nat \ {0} /\ FlowLevel(s) = Len(s.keys) - 1
         /\ NextToken(s) = s.parsed + Len(s.tokens)
         /\ s.mark \in Positions /\ DOMAIN s = ScannerFields /\ s.keys \in Seq(KeySet)
<1>1. /\ s.parsed \in Nat /\ Len(s.tokens) \in Nat /\ Len(s.keys) \in Nat /\ Len(s.keys) >= 1
      /\ s.mark \in Positions /\ DOMAIN s = ScannerFields /\ s.keys \in Seq(KeySet)
  <2>1. s.mark \in Positions
    BY DEF Sound
  <2> QED BY <2>1, SoundFacts
<1>2. Floor(s) \in Nat /\ s.parsed <= Floor(s)
  BY <1>1 DEF Floor
<1> QED BY <1>1, <1>2 DEF NextToken, FlowLevel

\* The keys do not change, and there are as many tokens or more.
LEMMA AlikeFine ==
  ASSUME NEW s, NEW q, NEW n, NEW m, Sound(q), q.keys = s.keys, q.byTok = s.byTok, q.mark = s.mark,
         q.parsed = s.parsed, q.available = s.available, q.error = "none" => s.error = "none",
         NextToken(s) \in Int, NextToken(q) \in Int, NextToken(s) <= NextToken(q)
  PROVE  /\ Fine(s, n, m) => Fine(q, n, m)
         /\ Firm(s, n, m) /\ q.allowed = s.allowed => Firm(q, n, m)
<1>1. Floor(q) = Floor(s)
  BY DEF Floor
<1>2. Steady(s, n) => Steady(q, n)
  BY <1>1 DEF Steady
<1> QED BY <1>1, <1>2 DEF Fine, Firm, Loose, Settled

\* With more tokens behind them the entries are as spent.
LEMMA MoreTokens ==
  ASSUME NEW s, NEW n \in Int, NEW k \in Nat, n <= k, k <= NextToken(s) + 1, Sound(s)
  PROVE  /\ Settled(s, n) => Settled(s, k)
         /\ Loose(s, n) => Loose(s, k) /\ Settled(s, k)
<1>1. \A i \in 1..Len(s.keys) : s.keys[i].token \in Int
  <2>1. s.keys \in Seq(KeySet)
    BY NumberFacts
  <2>2. \A i \in 1..Len(s.keys) : s.keys[i] \in KeySet
    BY <2>1, ElementOfSeq
  <2> QED BY <2>2 DEF KeySet
<1>2. Numbered(s.keys, n) => Numbered(s.keys, k)
  BY <1>1 DEF Numbered
<1>3. Steady(s, n) => Steady(s, k) /\ \A t \in DOMAIN s.byTok : t \in Nat
  BY <1>2 DEF Steady, Indexed
<1>4. ASSUME Settled(s, n) PROVE Settled(s, k)
  BY <1>3, <1>4 DEF Settled, Spent
<1>5. ASSUME Loose(s, n) PROVE Loose(s, k) /\ Settled(s, k)
  BY <1>3, <1>5 DEF Loose, Settled, Lax, Spent
<1> QED BY <1>4, <1>5

\* Between two tokens a scanner is settled; a token later it is loose.
LEMMA SettledLoose ==
  ASSUME NEW s, Sound(s), Settled(s, NextToken(s))
  PROVE  Loose(s, NextToken(s) + 1)
<1>1. NextToken(s) \in Nat
  BY NumberFacts
<1>2. Settled(s, NextToken(s) + 1)
  BY <1>1, MoreTokens
<1>3. \A t \in DOMAIN s.byTok : t \in Nat
  BY <1>2 DEF Settled, Steady, Indexed
<1>4. Lax(s.keys, s.byTok, Floor(s), s.mark, NextToken(s) + 1)
  BY <1>1, <1>3 DEF Settled, Lax, Spent
<1> QED BY <1>2, <1>4 DEF Loose, Settled

\* Failing, and a change of what is allowed.
LEMMA PlainFine ==
  ASSUME NEW s, NEW n, NEW m, Fine(s, n, m)
  PROVE  /\ \A why : Fine(Fail(s, why), n, m)
         /\ \A b : Fine(Allow(s, b), n, m)
         /\ \A b : Fine([s EXCEPT !.ended = b], n, m)
<1>1. Sound(s) /\ DOMAIN s = ScannerFields /\ NextToken(s) \in Int
  BY NumberFacts DEF Fine
<1>2. ASSUME NEW why PROVE Fine(Fail(s, why), n, m)
  <2>1. PICK q : q = Fail(s, why)
    OBVIOUS
  <2>2. /\ q.keys = s.keys /\ q.byTok = s.byTok /\ q.mark = s.mark /\ q.parsed = s.parsed
        /\ q.available = s.available /\ q.tokens = s.tokens /\ (q.error = "none" => s.error = "none")
    BY <1>1, <2>1 DEF Fail, ScannerFields
  <2>3. Sound(q) /\ NextToken(q) = NextToken(s)
    BY <1>1, <2>1, <2>2, StaysSound DEF NextToken
  <2>4. Fine(q, n, m)
    BY <1>1, <2>2, <2>3, AlikeFine
  <2> QED BY <2>1, <2>4, Zenon
<1>3. ASSUME NEW b PROVE Fine(Allow(s, b), n, m)
  <2>1. PICK q : q = Allow(s, b)
    OBVIOUS
  <2>2. /\ q.keys = s.keys /\ q.byTok = s.byTok /\ q.mark = s.mark /\ q.parsed = s.parsed
        /\ q.available = s.available /\ q.tokens = s.tokens /\ q.error = s.error
    BY <1>1, <2>1 DEF Allow, ScannerFields
  <2>3. Sound(q) /\ NextToken(q) = NextToken(s)
    BY <1>1, <2>1, <2>2, StaysSound DEF NextToken
  <2> QED BY <1>1, <2>1, <2>2, <2>3, AlikeFine
<1>4. ASSUME NEW b PROVE Fine([s EXCEPT !.ended = b], n, m)
  <2>1. PICK q : q = [s EXCEPT !.ended = b]
    OBVIOUS
  <2>2. /\ q.keys = s.keys /\ q.byTok = s.byTok /\ q.mark = s.mark /\ q.parsed = s.parsed
        /\ q.available = s.available /\ q.tokens = s.tokens /\ q.error = s.error
    BY <1>1, <2>1 DEF ScannerFields
  <2>3. Sound(q) /\ NextToken(q) = NextToken(s)
    BY <1>1, <2>1, <2>2, StaysSound DEF NextToken
  <2>4. Fine(q, n, m)
    BY <1>1, <2>2, <2>3, AlikeFine
  <2> QED BY <2>1, <2>4, Zenon
<1> QED BY <1>2, <1>3, <1>4

\* A token put in the queue, blocks that begin or end.
LEMMA InsertFine ==
  ASSUME NEW s, NEW n, NEW m, Fine(s, n, m), NEW t \in TokenSet,
         NEW place \in Int, place <= Len(s.tokens)
  PROVE  /\ Fine(Insert(s, place, t), n, m)
         /\ NextToken(Insert(s, place, t)) = NextToken(s) + 1
<1>1. Sound(s) /\ DOMAIN s = ScannerFields /\ NextToken(s) \in Int
      /\ s.parsed \in Nat /\ Len(s.tokens) \in Nat
  BY NumberFacts, SoundFacts DEF Fine
<1>2. PICK q : q = Insert(s, place, t)
  OBVIOUS
<1>3. /\ q.keys = s.keys /\ q.byTok = s.byTok /\ q.mark = s.mark /\ q.parsed = s.parsed
      /\ q.available = s.available /\ q.error = s.error
  BY <1>1, <1>2 DEF Insert, ScannerFields
<1>4. Sound(q) /\ Len(q.tokens) = Len(s.tokens) + 1
  <2>1. PICK k : Balanced(s, k)
    BY <1>1, SoundBalanced
  <2> QED BY <1>2, <2>1, InsertBalanced DEF Balanced
<1>5. NextToken(q) = NextToken(s) + 1
  BY <1>1, <1>3, <1>4 DEF NextToken
<1>6. Fine(q, n, m)
  BY <1>1, <1>3, <1>4, <1>5, AlikeFine
<1> QED BY <1>2, <1>5, <1>6, Zenon

LEMMA RollFine ==
  ASSUME NEW s, NEW n, NEW m, Fine(s, n, m), NEW col \in Int, NEW type \in BlockStarts,
         NEW number \in Int, number <= NextToken(s)
  PROVE  /\ Fine(RollIndent(s, col, number, type), n, m)
         /\ RollIndent(s, col, number, type).keys = s.keys
<1>1. Sound(s) /\ DOMAIN s = ScannerFields /\ s.parsed \in Nat /\ Len(s.tokens) \in Nat
      /\ NextToken(s) = s.parsed + Len(s.tokens)
  BY NumberFacts, SoundFacts DEF Fine
<1>2. PICK q : q = RollIndent(s, col, number, type)
  OBVIOUS
<1>3. Sound(q)
  <2>1. PICK k : Balanced(s, k)
    BY <1>1, SoundBalanced
  <2>2. number <= s.parsed + Len(s.tokens)
    BY <1>1
  <2> QED BY <1>2, <2>1, <2>2, RollBalanced DEF Balanced
<1>4. PICK p, t, place, r :
        /\ p = [s EXCEPT !.indents = Append(@, s.indent), !.indent = col]
        /\ t = Token(type, Empty)
        /\ place = IF number > -1 THEN number - s.parsed ELSE number
        /\ r = Insert(p, place, t)
  OBVIOUS
<1>5. q \in {s, r, Fail(r, "indent depth")}
  BY <1>2, <1>4 DEF RollIndent
<1>6. /\ p.keys = s.keys /\ p.byTok = s.byTok /\ p.mark = s.mark /\ p.parsed = s.parsed
      /\ p.available = s.available /\ p.tokens = s.tokens /\ p.error = s.error
      /\ DOMAIN p = ScannerFields
  BY <1>1, <1>4 DEF ScannerFields
<1>7. /\ r.keys = p.keys /\ r.byTok = p.byTok /\ r.mark = p.mark /\ r.parsed = p.parsed
      /\ r.available = p.available /\ r.error = p.error /\ DOMAIN r = ScannerFields
  BY <1>4, <1>6 DEF Insert, ScannerFields
<1>8. /\ q.keys = s.keys /\ q.byTok = s.byTok /\ q.mark = s.mark /\ q.parsed = s.parsed
      /\ q.available = s.available /\ (q.error = "none" => s.error = "none")
  <2>1. CASE q = s
    BY <2>1
  <2>2. CASE q = r
    BY <1>6, <1>7, <2>2
  <2>3. CASE q = Fail(r, "indent depth")
    <3>1. /\ q.keys = r.keys /\ q.byTok = r.byTok /\ q.mark = r.mark /\ q.parsed = r.parsed
          /\ q.available = r.available /\ (q.error = "none" => r.error = "none")
      BY <1>7, <2>3 DEF Fail, ScannerFields
    <3> QED BY <1>6, <1>7, <3>1
  <2> QED BY <1>5, <2>1, <2>2, <2>3
<1>9. Len(q.tokens) >= Len(s.tokens) /\ Len(q.tokens) \in Nat
  <2>1. CASE q = s
    BY <1>1, <2>1
  <2>2. CASE q # s
    <3>1. q \in {r, Fail(r, "indent depth")}
      BY <1>5, <2>2
    <3>2. q.tokens = r.tokens
      BY <1>7, <3>1 DEF Fail, ScannerFields
    <3>3. Len(r.tokens) = Len(p.tokens) + 1
      <4>1. PICK k : Balanced(s, k)
        BY <1>1, SoundBalanced
      <4>2. Balanced(p, k - 1)
        BY <1>4, <4>1, PushBalanced
      <4>3. place \in Int /\ place <= Len(p.tokens)
        BY <1>1, <1>4, <1>6
      <4>4. t \in TokenSet
        <5>1. type \in TokenTypes
          BY DEF TokenTypes, BlockTokens
        <5> QED BY <1>4, <5>1, EmptyValue, TokenFacts
      <4> QED BY <1>4, <4>2, <4>3, <4>4, InsertBalanced
    <3> QED BY <1>1, <1>6, <3>2, <3>3
  <2> QED BY <2>1, <2>2
<1>10. NextToken(q) \in Int /\ NextToken(s) \in Int /\ NextToken(s) <= NextToken(q)
  <2>1. NextToken(q) = s.parsed + Len(q.tokens)
    BY <1>8 DEF NextToken
  <2> QED BY <1>1, <1>9, <2>1
<1>11. Fine(q, n, m)
  BY <1>3, <1>8, <1>10, AlikeFine
<1> QED BY <1>2, <1>8, <1>11, Zenon

\* Unrolling touches the queue and the levels of indentation alone.
LEMMA UnrollKeeps ==
  ASSUME NEW s, Sound(s), NEW col \in Int, -1 <= col, NEW q, q = UnrollIndent(s, col)
  PROVE  /\ Sound(q) /\ q.keys = s.keys /\ q.byTok = s.byTok /\ q.mark = s.mark
         /\ q.parsed = s.parsed /\ q.available = s.available /\ q.error = s.error
         /\ q.allowed = s.allowed /\ q.started /\ s.started
         /\ NextToken(q) \in Int /\ NextToken(s) \in Int /\ NextToken(s) <= NextToken(q)
<1>1. Sound(q)
  BY StaysSound
<1>2. Lengthened(s, q) /\ q.error = s.error
  BY SoundBalanced, UnrollBalanced
<1>3. q.started /\ s.started
  BY <1>1 DEF Sound
<1>4. NextToken(q) \in Int /\ NextToken(s) \in Int /\ NextToken(s) <= NextToken(q)
  <2>1. /\ s.parsed \in Nat /\ Len(s.tokens) \in Nat /\ Len(q.tokens) \in Nat
        /\ q.parsed = s.parsed /\ Len(s.tokens) <= Len(q.tokens)
    BY <1>1, <1>2, SoundFacts DEF Lengthened
  <2> QED BY <2>1 DEF NextToken
<1> QED BY <1>1, <1>2, <1>3, <1>4 DEF Lengthened

LEMMA UnrollFine ==
  ASSUME NEW s, NEW n, NEW m, NEW col \in Int, -1 <= col
  PROVE  /\ Fine(s, n, m) => Fine(UnrollIndent(s, col), n, m)
         /\ Firm(s, n, m) => Firm(UnrollIndent(s, col), n, m)
<1>1. PICK q : q = UnrollIndent(s, col)
  OBVIOUS
<1>2. ASSUME Fine(s, n, m) PROVE Fine(q, n, m)
  <2>1. Sound(s)
    BY <1>2 DEF Fine
  <2> QED BY <1>1, <1>2, <2>1, UnrollKeeps, AlikeFine
<1>3. ASSUME Firm(s, n, m) PROVE Firm(q, n, m)
  <2>1. Sound(s)
    BY <1>3 DEF Firm
  <2> QED BY <1>1, <1>3, <2>1, UnrollKeeps, AlikeFine
<1> QED BY <1>1, <1>2, <1>3, Zenon

\* The keys when that of a level is none any more.
NoneAt(keys, level) == [keys EXCEPT ![level].possible = FALSE]

LEMMA NoneFacts ==
  ASSUME NEW keys \in Seq(KeySet), NEW level \in 1..Len(keys)
  PROVE  /\ NoneAt(keys, level) \in Seq(KeySet)
         /\ Len(NoneAt(keys, level)) = Len(keys) /\ Len(keys) \in Nat
         /\ \A i \in 1..Len(keys) :
              /\ NoneAt(keys, level)[i].mark = keys[i].mark
              /\ NoneAt(keys, level)[i].token = keys[i].token
              /\ NoneAt(keys, level)[i].possible => keys[i].possible
              /\ i # level => NoneAt(keys, level)[i].possible = keys[i].possible
<1>1. PICK n, r : n = Len(keys) /\ r = NoneAt(keys, level)
  OBVIOUS
<1>2. keys \in [1..n -> KeySet] /\ n \in Nat
  BY <1>1
<1>3. DOMAIN r = 1..n
  BY <1>1, <1>2 DEF NoneAt
<1>4. ASSUME NEW i \in 1..n
      PROVE  /\ r[i] \in KeySet /\ r[i].mark = keys[i].mark /\ r[i].token = keys[i].token
             /\ r[i].possible => keys[i].possible
             /\ i # level => r[i].possible = keys[i].possible
  <2>1. r[i] = IF i = level THEN [keys[i] EXCEPT !.possible = FALSE] ELSE keys[i]
    BY <1>1, <1>2 DEF NoneAt
  <2>2. keys[i] \in KeySet /\ [keys[i] EXCEPT !.possible = FALSE] \in KeySet
    BY <1>2 DEF KeySet
  <2>3. r[i] \in KeySet
    BY <2>1, <2>2
  <2>4. CASE i = level
    <3>1. r[i] = [keys[i] EXCEPT !.possible = FALSE]
      BY <2>1, <2>4
    <3> QED BY <2>2, <2>3, <2>4, <3>1 DEF KeySet
  <2>5. CASE i # level
    BY <2>1, <2>3, <2>5
  <2> QED BY <2>4, <2>5
<1>5. r = [i \in 1..n |-> r[i]]
  BY <1>1, <1>2 DEF NoneAt
<1>6. r \in [1..n -> KeySet]
  BY <1>4, <1>5
<1>7. r \in Seq(KeySet) /\ Len(r) = n
  BY <1>2, <1>6
<1> QED BY <1>1, <1>2, <1>4, <1>7

\* The key of a level is none any more, and with it goes its entry.
LEMMA DropFine ==
  ASSUME NEW s, NEW n, NEW m, Fine(s, n, m), NEW level \in 1..Len(s.keys)
  PROVE  /\ Fine(Drop(s, level), n, m) /\ NextToken(Drop(s, level)) = NextToken(s)
         /\ Drop(s, level).error = s.error /\ Drop(s, level).allowed = s.allowed
<1>1. /\ Sound(s) /\ DOMAIN s = ScannerFields /\ s.keys \in Seq(KeySet) /\ Len(s.keys) \in Nat \ {0}
      /\ s.parsed \in Nat /\ Floor(s) \in Nat /\ s.parsed <= Floor(s)
  BY NumberFacts DEF Fine
<1>2. PICK q, keys, byTok, key : q = Drop(s, level) /\ keys = q.keys /\ byTok = q.byTok
                                 /\ key = s.keys[level]
  OBVIOUS
<1>3. /\ keys = [s.keys EXCEPT ![level].possible = FALSE]
      /\ byTok = Without(s.byTok, key.token)
      /\ q.tokens = s.tokens /\ q.parsed = s.parsed /\ q.available = s.available
      /\ q.mark = s.mark /\ q.error = s.error /\ q.allowed = s.allowed
  BY <1>1, <1>2 DEF Drop, ScannerFields
<1>4. Sound(q) /\ NextToken(q) = NextToken(s) /\ Floor(q) = Floor(s)
  BY <1>1, <1>2, <1>3, StaysSound DEF NextToken, Floor
<1>5. /\ keys \in Seq(KeySet) /\ Len(keys) = Len(s.keys) /\ Len(keys) \in Nat
      /\ \A i \in 1..Len(keys) :
           /\ keys[i].mark = s.keys[i].mark /\ keys[i].token = s.keys[i].token
           /\ keys[i].possible => s.keys[i].possible
           /\ i # level => keys[i].possible = s.keys[i].possible
  <2>1. keys = NoneAt(s.keys, level)
    BY <1>3 DEF NoneAt
  <2> QED BY <1>1, <2>1, NoneFacts
<1>7. /\ DOMAIN byTok = DOMAIN s.byTok \ {key.token}
      /\ \A t \in DOMAIN byTok : byTok[t] = s.byTok[t]
  BY <1>3 DEF Without
<1>8. ASSUME s.error = "none" PROVE Loose(q, n)
  <2>1. Loose(s, n)
    BY <1>8 DEF Fine
  <2>2. Steady(q, n)
    <3>1. /\ Marked(keys, s.mark) /\ Numbered(keys, n) /\ Indexed(keys, byTok, s.parsed)
          /\ Held(keys, byTok, Floor(s), s.mark)
      BY <1>5, <1>7, <2>1, Fewer DEF Loose, Steady
    <3> QED BY <1>2, <1>3, <1>4, <2>1, <3>1 DEF Loose, Steady
  <2>3. ASSUME NEW t \in DOMAIN byTok, Outlived(keys, byTok, Floor(s), s.mark, t)
        PROVE  ~InReach(s.mark, keys[byTok[t]]) /\ n >= t + 3
    <3>1. PICK l : l = byTok[t]
      OBVIOUS
    <3>2. l = s.byTok[t] /\ t \in DOMAIN s.byTok /\ t # key.token
      BY <1>7, <3>1
    <3>3. t >= s.parsed /\ l >= 2 /\ t \in Nat /\ l \in Nat \ {0} /\ t >= Floor(s)
      BY <1>1, <2>1, <2>3, <3>1, <3>2 DEF Outlived, Loose, Steady, Indexed
    <3>4. l <= Len(s.keys) /\ s.keys[l].token = t
      BY <2>1, <3>2, <3>3 DEF Loose, Steady, Indexed
    <3>5. l \in 1..Len(keys) /\ l # level
      BY <1>1, <1>2, <1>5, <3>2, <3>3, <3>4
    <3>6. ~s.keys[l].possible
      BY <1>5, <2>3, <3>1, <3>5 DEF Outlived
    <3>7. ~InReach(s.mark, s.keys[l]) /\ n >= t + 3
      BY <2>1, <3>2, <3>3, <3>6 DEF Loose, Lax, Outlived
    <3> QED BY <1>5, <3>1, <3>5, <3>7 DEF InReach
  <2>4. Lax(keys, byTok, Floor(s), s.mark, n)
    BY <2>3 DEF Lax
  <2> QED BY <1>2, <1>3, <1>4, <2>2, <2>4 DEF Loose
<1>9. Fine(q, n, m)
  BY <1>3, <1>4, <1>8 DEF Fine
<1> QED BY <1>2, <1>3, <1>4, <1>9, Zenon

LEMMA RemoveFine ==
  ASSUME NEW s, NEW n, NEW m, Fine(s, n, m)
  PROVE  Fine(RemoveSimpleKey(s), n, m) /\ NextToken(RemoveSimpleKey(s)) = NextToken(s)
<1>1. Len(s.keys) \in 1..Len(s.keys)
  BY NumberFacts DEF Fine
<1>2. \A why : Fine(Fail(s, why), n, m) /\ NextToken(Fail(s, why)) = NextToken(s)
  <2>1. DOMAIN s = ScannerFields
    BY NumberFacts DEF Fine
  <2>2. \A why : NextToken(Fail(s, why)) = NextToken(s)
    BY <2>1 DEF Fail, NextToken, ScannerFields
  <2> QED BY <2>2, PlainFine
<1>3. Fine(Drop(s, Len(s.keys)), n, m) /\ NextToken(Drop(s, Len(s.keys))) = NextToken(s)
  BY <1>1, DropFine
<1> QED BY <1>2, <1>3 DEF RemoveSimpleKey

\* A flow level ends: the entry of its key goes with it.
LEMMA DecreaseFine ==
  ASSUME NEW s, NEW n, NEW m, Fine(s, n, m)
  PROVE  Fine(DecreaseFlowLevel(s), n, m)
<1>1. /\ Sound(s) /\ DOMAIN s = ScannerFields /\ s.keys \in Seq(KeySet) /\ Len(s.keys) \in Nat \ {0}
      /\ s.parsed \in Nat /\ Floor(s) \in Nat /\ s.parsed <= Floor(s)
      /\ FlowLevel(s) = Len(s.keys) - 1
  BY NumberFacts DEF Fine
<1>2. CASE FlowLevel(s) = 0
  BY <1>2 DEF DecreaseFlowLevel
<1>3. CASE FlowLevel(s) # 0
  <2>1. PICK q, keys, byTok, key, l :
          /\ q = DecreaseFlowLevel(s) /\ keys = q.keys /\ byTok = q.byTok
          /\ key = Last(s.keys) /\ l = Len(s.keys)
    OBVIOUS
  <2>2. l \in Nat /\ l >= 2 /\ s.keys # <<>>
    <3>1. l \in Nat /\ l >= 2
      <4>1. l \in Nat \ {0} /\ l - 1 # 0
        BY <1>1, <1>3, <2>1
      <4> QED BY <4>1
    <3>2. Len(<<>>) = 0
      OBVIOUS
    <3> QED BY <2>1, <3>1, <3>2
  <2>3. /\ keys = Front(s.keys) /\ byTok = Without(s.byTok, key.token)
        /\ q.tokens = s.tokens /\ q.parsed = s.parsed /\ q.available = s.available
        /\ q.mark = s.mark /\ q.error = s.error
    BY <1>1, <1>3, <2>1 DEF DecreaseFlowLevel, ScannerFields
  <2>4. Sound(q) /\ NextToken(q) = NextToken(s) /\ Floor(q) = Floor(s)
    BY <1>1, <2>1, <2>3, StaysSound DEF NextToken, Floor
  <2>5. /\ keys \in Seq(KeySet) /\ Len(keys) = l - 1 /\ key = s.keys[l]
        /\ \A i \in 1..l - 1 : keys[i] = s.keys[i]
    <3>1. s.keys \in Seq(KeySet) /\ s.keys # <<>>
      BY <1>1, <2>2
    <3>2. /\ Last(s.keys) = s.keys[Len(s.keys)] /\ Front(s.keys) \in Seq(KeySet)
          /\ Len(Front(s.keys)) = Len(s.keys) - 1
          /\ \A i \in 1..Len(s.keys) - 1 : Front(s.keys)[i] = s.keys[i]
      BY <3>1, FrontLast
    <3> QED BY <2>1, <2>3, <3>2
  <2>6. /\ DOMAIN byTok = DOMAIN s.byTok \ {key.token}
        /\ \A t \in DOMAIN byTok : byTok[t] = s.byTok[t]
    BY <2>3 DEF Without
  <2>7. ASSUME s.error = "none" PROVE Loose(q, n)
    <3>1. Loose(s, n)
      BY <2>7 DEF Fine
    <3>2. /\ n \in Nat /\ n <= NextToken(s) + 1
          /\ Marked(s.keys, s.mark) /\ Numbered(s.keys, n) /\ Indexed(s.keys, s.byTok, s.parsed)
          /\ Held(s.keys, s.byTok, Floor(s), s.mark)
          /\ Lax(s.keys, s.byTok, Floor(s), s.mark, n)
      BY <3>1 DEF Loose, Steady
    <3>3. Marked(keys, s.mark) /\ Numbered(keys, n) /\ Held(keys, byTok, Floor(s), s.mark)
      <4>1. \A i \in 1..Len(keys) : i \in 1..Len(s.keys) /\ keys[i] = s.keys[i]
        BY <2>1, <2>2, <2>5
      <4>2. Marked(keys, s.mark)
        BY <2>5, <3>2, <4>1, Zenon DEF Marked
      <4>3. Numbered(keys, n)
        BY <3>2, <4>1 DEF Numbered
      <4>4. Held(keys, byTok, Floor(s), s.mark)
        BY <2>6, <3>2, <4>1, Zenon DEF Held
      <4> QED BY <4>2, <4>3, <4>4
    <3>4. ASSUME NEW t \in DOMAIN byTok, t >= s.parsed, byTok[t] >= 2
          PROVE  byTok[t] \in 1..l - 1 /\ keys[byTok[t]].token = t
      <4>1. PICK k : k = byTok[t]
        OBVIOUS
      <4>2. k = s.byTok[t] /\ t \in DOMAIN s.byTok /\ t # key.token
        BY <2>6, <4>1
      <4>3. k \in Nat \ {0} /\ k <= l /\ s.keys[k].token = t
        BY <2>1, <3>2, <3>4, <4>1, <4>2 DEF Indexed
      <4>4. k \in 1..l - 1
        BY <2>2, <2>5, <4>2, <4>3
      <4> QED BY <2>5, <4>1, <4>3, <4>4
    <3>5. Indexed(keys, byTok, s.parsed)
      <4>1. \A t \in DOMAIN byTok : t \in Nat /\ byTok[t] \in Nat \ {0}
        BY <2>6, <3>2 DEF Indexed
      <4>2. \A k \in 1..l - 1 : keys[k].possible /\ keys[k].token \in DOMAIN byTok =>
              byTok[keys[k].token] = k
        <5>1. \A k \in 1..l - 1 : k \in 1..Len(s.keys) /\ keys[k] = s.keys[k]
          BY <2>1, <2>2, <2>5
        <5>2. \A k \in 1..Len(s.keys) :
                s.keys[k].possible /\ s.keys[k].token \in DOMAIN s.byTok => s.byTok[s.keys[k].token] = k
          BY <3>2 DEF Indexed
        <5> QED BY <2>6, <5>1, <5>2
      <4>3. \A t \in DOMAIN byTok : t >= s.parsed /\ byTok[t] >= 2 =>
              byTok[t] <= l - 1 /\ keys[byTok[t]].token = t
        BY <2>2, <3>4
      <4> QED BY <2>5, <4>1, <4>2, <4>3 DEF Indexed
    <3>6. ASSUME NEW t \in DOMAIN byTok, Outlived(keys, byTok, Floor(s), s.mark, t)
          PROVE  ~InReach(s.mark, keys[byTok[t]]) /\ n >= t + 3
      <4>1. PICK k : k = byTok[t]
        OBVIOUS
      <4>2. k = s.byTok[t] /\ t \in DOMAIN s.byTok /\ t >= Floor(s) /\ k >= 2 /\ ~keys[k].possible
        BY <2>6, <3>6, <4>1 DEF Outlived
      <4>3. t \in Nat /\ t >= s.parsed
        BY <1>1, <3>2, <4>2 DEF Indexed
      <4>4. k \in 1..l - 1
        BY <3>4, <4>1, <4>2, <4>3
      <4>5. keys[k] = s.keys[k]
        BY <2>5, <4>4
      <4> QED BY <3>2, <4>1, <4>2, <4>5 DEF Lax, Outlived
    <3>7. Lax(keys, byTok, Floor(s), s.mark, n)
      BY <3>6 DEF Lax
    <3> QED BY <2>1, <2>3, <2>4, <3>2, <3>3, <3>5, <3>7 DEF Loose, Steady
  <2>8. Fine(q, n, m)
    BY <2>3, <2>4, <2>7 DEF Fine
  <2> QED BY <2>1, <2>8, Zenon
<1> QED BY <1>2, <1>3

\* A flow level begins: there is no key at it, nor an entry that leads to it.
LEMMA IncreaseFine ==
  ASSUME NEW s, NEW n, NEW m, Fine(s, n, m), NextToken(s) < n
  PROVE  Fine(IncreaseFlowLevel(s), n, m)
<1>1. /\ Sound(s) /\ DOMAIN s = ScannerFields /\ s.keys \in Seq(KeySet) /\ Len(s.keys) \in Nat \ {0}
      /\ s.parsed \in Nat /\ Floor(s) \in Nat /\ s.parsed <= Floor(s) /\ NextToken(s) \in Nat
      /\ s.mark \in Positions
  BY NumberFacts DEF Fine
<1>2. PICK key, r, keys, l :
        /\ key = [NoKey EXCEPT !.token = NextToken(s), !.mark = s.mark]
        /\ r = [s EXCEPT !.keys = Append(@, key)] /\ keys = r.keys /\ l = Len(s.keys)
  OBVIOUS
<1>3. IncreaseFlowLevel(s) = IF FlowLevel(r) > MaxFlowLevel THEN Fail(r, "flow depth") ELSE r
  BY <1>2 DEF IncreaseFlowLevel
<1>4. /\ keys = Append(s.keys, key) /\ DOMAIN r = ScannerFields
      /\ r.tokens = s.tokens /\ r.parsed = s.parsed /\ r.available = s.available
      /\ r.mark = s.mark /\ r.error = s.error /\ r.byTok = s.byTok
      /\ r.started = s.started /\ r.indent = s.indent /\ r.indents = s.indents
  BY <1>1, <1>2 DEF ScannerFields
<1>5. key \in KeySet /\ ~key.possible /\ key.token = NextToken(s) /\ key.mark = s.mark
  <2>1. key = [possible |-> FALSE, required |-> FALSE, token |-> NextToken(s), mark |-> s.mark]
    BY <1>2 DEF NoKey
  <2> QED BY <1>1, <2>1 DEF KeySet
<1>6. /\ keys \in Seq(KeySet) /\ Len(keys) = l + 1 /\ l \in Nat /\ l >= 1 /\ keys[l + 1] = key
      /\ \A i \in 1..l : keys[i] = s.keys[i]
  BY <1>1, <1>2, <1>4, <1>5, AppendProperties
<1>7. Sound(r) /\ NextToken(r) = NextToken(s) /\ Floor(r) = Floor(s)
  <2>1. KeysOk(keys, s.parsed + Len(s.tokens))
    <3>1. KeysOk(s.keys, s.parsed + Len(s.tokens))
      BY <1>1 DEF Sound
    <3>2. key.token <= s.parsed + Len(s.tokens) /\ s.parsed + Len(s.tokens) \in Int
      BY <1>1, <1>5 DEF NextToken
    <3> QED BY <1>4, <1>5, <3>1, <3>2, KeysAppend
  <2>2. Sound(r)
    BY <1>1, <1>2, <1>4, <2>1 DEF Sound
  <2> QED BY <1>4, <2>2 DEF NextToken, Floor
<1>8. ASSUME s.error = "none" PROVE Loose(r, n)
  <2>1. /\ n \in Nat /\ n <= NextToken(s) + 1
        /\ Marked(s.keys, s.mark) /\ Numbered(s.keys, n) /\ Indexed(s.keys, s.byTok, s.parsed)
        /\ Held(s.keys, s.byTok, Floor(s), s.mark)
        /\ Lax(s.keys, s.byTok, Floor(s), s.mark, n)
    BY <1>8 DEF Fine, Loose, Steady
  <2>2. \A i \in 1..l + 1 : i \in 1..l \/ i = l + 1
    BY <1>6
  <2>3. Marked(keys, s.mark)
    <3>1. Upto(s.mark, s.mark)
      BY <1>1, UptoFacts
    <3>2. \A i \in 1..l + 1 : Upto(keys[i].mark, s.mark)
      BY <1>2, <1>5, <1>6, <2>1, <2>2, <3>1 DEF Marked
    <3>3. ASSUME NEW i \in 1..l + 1, NEW j \in 1..l + 1, i <= j
          PROVE  Upto(keys[i].mark, keys[j].mark)
      <4>1. CASE j = l + 1
        BY <1>5, <1>6, <3>2, <4>1
      <4>2. CASE j \in 1..l
        <5>1. i \in 1..l
          BY <1>6, <3>3, <4>2
        <5> QED BY <1>2, <1>6, <2>1, <3>3, <4>2, <5>1 DEF Marked
      <4> QED BY <2>2, <4>1, <4>2
    <3> QED BY <1>1, <1>6, <3>2, <3>3 DEF Marked
  <2>4. Numbered(keys, n)
    BY <1>2, <1>5, <1>6, <2>1, <2>2 DEF Numbered
  <2>5. Held(keys, s.byTok, Floor(s), s.mark)
    BY <1>2, <1>5, <1>6, <2>1, <2>2 DEF Held
  <2>6. ASSUME NEW t \in DOMAIN s.byTok, t >= s.parsed, s.byTok[t] >= 2
        PROVE  s.byTok[t] \in 1..l /\ keys[s.byTok[t]].token = t
               /\ keys[s.byTok[t]] = s.keys[s.byTok[t]]
    <3>1. PICK k : k = s.byTok[t]
      OBVIOUS
    <3>2. k \in Nat \ {0} /\ k <= l /\ s.keys[k].token = t
      BY <1>2, <2>1, <2>6, <3>1 DEF Indexed
    <3>3. k \in 1..l
      BY <1>6, <3>2
    <3> QED BY <1>6, <3>1, <3>2, <3>3
  <2>7. Indexed(keys, s.byTok, s.parsed)
    <3>1. \A k \in 1..l + 1 : keys[k].possible /\ keys[k].token \in DOMAIN s.byTok =>
            s.byTok[keys[k].token] = k
      BY <1>2, <1>5, <1>6, <2>1, <2>2 DEF Indexed
    <3>2. \A t \in DOMAIN s.byTok : t >= s.parsed /\ s.byTok[t] >= 2 =>
            s.byTok[t] <= l + 1 /\ keys[s.byTok[t]].token = t
      BY <1>6, <2>6
    <3> QED BY <1>6, <2>1, <3>1, <3>2 DEF Indexed
  <2>8. Lax(keys, s.byTok, Floor(s), s.mark, n)
    <3>1. ASSUME NEW t \in DOMAIN s.byTok, Outlived(keys, s.byTok, Floor(s), s.mark, t)
          PROVE  ~InReach(s.mark, keys[s.byTok[t]]) /\ n >= t + 3
      <4>1. t \in Nat /\ t >= s.parsed /\ t >= Floor(s) /\ s.byTok[t] >= 2
        BY <1>1, <2>1, <3>1 DEF Outlived, Indexed
      <4>2. keys[s.byTok[t]] = s.keys[s.byTok[t]]
        BY <2>6, <4>1
      <4> QED BY <2>1, <3>1, <4>2 DEF Lax, Outlived
    <3> QED BY <3>1 DEF Lax
  <2> QED BY <1>2, <1>4, <1>7, <2>1, <2>3, <2>4, <2>5, <2>7, <2>8 DEF Loose, Steady
<1>9. Fine(r, n, m)
  BY <1>4, <1>7, <1>8 DEF Fine
<1>10. Fine(Fail(r, "flow depth"), n, m)
  BY <1>9, PlainFine
<1> QED BY <1>3, <1>9, <1>10

\* Where a key may begin no entry leads to the level of the innermost key that
\* belongs to another token.
Free(s) == s.allowed =>
             \A t \in DOMAIN s.byTok :
               Outlived(s.keys, s.byTok, s.parsed, s.mark, t) => s.byTok[t] # Len(s.keys)

\* The innermost key made way for the one that begins here.
Entered(s, key) ==
  [s EXCEPT !.keys[Len(s.keys)] = key, !.byTok = With(@, key.token, Len(s.keys))]

LEMMA EnteredLoose ==
  ASSUME NEW s, NEW n, Sound(s), Loose(s, n), n <= NextToken(s), ~s.available,
         \A t \in DOMAIN s.byTok : t >= s.parsed /\ s.byTok[t] >= 2 => s.byTok[t] # Len(s.keys),
         NEW key \in KeySet, key.possible, key.token = NextToken(s), key.mark = s.mark,
         NEW q, q = Entered(s, key), Sound(q)
  PROVE  Loose(q, NextToken(s) + 1) /\ NextToken(q) = NextToken(s) /\ q.mark = s.mark
<1>1. /\ DOMAIN s = ScannerFields /\ s.keys \in Seq(KeySet) /\ Len(s.keys) \in Nat \ {0}
      /\ s.parsed \in Nat /\ NextToken(s) \in Nat /\ s.mark \in Positions
      /\ NextToken(s) = s.parsed + Len(s.tokens) /\ Len(s.tokens) \in Nat
  BY NumberFacts, SoundFacts
<1>2. PICK keys, byTok, l, k :
        keys = q.keys /\ byTok = q.byTok /\ l = Len(s.keys) /\ k = NextToken(s)
  OBVIOUS
<1>3. /\ keys = [s.keys EXCEPT ![l] = key] /\ byTok = With(s.byTok, k, l)
      /\ q.tokens = s.tokens /\ q.parsed = s.parsed /\ q.available = s.available
      /\ q.mark = s.mark
  BY <1>1, <1>2 DEF Entered, ScannerFields
<1>4. Floor(q) = s.parsed /\ Floor(s) = s.parsed /\ NextToken(q) = k
  BY <1>2, <1>3 DEF Floor, NextToken
<1>5. /\ keys \in Seq(KeySet) /\ Len(keys) = l /\ l \in Nat /\ l >= 1 /\ keys[l] = key
      /\ \A i \in 1..l : keys[i] = IF i = l THEN key ELSE s.keys[i]
  <2>1. s.keys \in [1..l -> KeySet] /\ l \in Nat
    BY <1>1, <1>2
  <2>2. DOMAIN keys = 1..l /\ \A i \in 1..l : keys[i] = IF i = l THEN key ELSE s.keys[i]
    BY <1>3, <2>1
  <2>3. keys \in Seq(KeySet)
    BY <1>2, NumberFacts
  <2> QED BY <1>1, <1>2, <2>1, <2>2, <2>3, LenProperties
<1>6. /\ DOMAIN byTok = DOMAIN s.byTok \cup {k} /\ byTok[k] = l
      /\ \A t \in DOMAIN byTok : t # k => t \in DOMAIN s.byTok /\ byTok[t] = s.byTok[t]
  BY <1>3 DEF With
<1>7. /\ n \in Nat /\ n <= k
      /\ Marked(s.keys, s.mark) /\ Numbered(s.keys, n) /\ Indexed(s.keys, s.byTok, s.parsed)
      /\ Held(s.keys, s.byTok, s.parsed, s.mark)
      /\ Lax(s.keys, s.byTok, s.parsed, s.mark, n)
  BY <1>2, <1>4 DEF Loose, Steady
<1>8. \A i \in 1..l : i # l => i \in 1..Len(s.keys) /\ keys[i] = s.keys[i]
  BY <1>2, <1>5
<1>9. \A i \in 1..l : s.keys[i].token < k /\ s.keys[i].token \in Nat
  <2>1. \A i \in 1..l : s.keys[i] \in KeySet
    BY <1>1, <1>2, ElementOfSeq
  <2>2. \A i \in 1..l : s.keys[i].token \in Nat
    BY <2>1 DEF KeySet
  <2> QED BY <1>1, <1>2, <1>7, <2>2 DEF Numbered
<1>10. Marked(keys, s.mark)
  <2>1. Upto(s.mark, s.mark)
    BY <1>1, UptoFacts
  <2>2. \A i \in 1..l : Upto(keys[i].mark, s.mark)
    BY <1>5, <1>7, <1>8, <2>1, Zenon DEF Marked
  <2>3. ASSUME NEW i \in 1..l, NEW j \in 1..l, i <= j
        PROVE  Upto(keys[i].mark, keys[j].mark)
    <3>1. CASE j = l
      BY <1>5, <2>2, <3>1
    <3>2. CASE j # l
      <4>1. i # l
        BY <1>5, <2>3, <3>2
      <4> QED BY <1>7, <1>8, <2>3, <3>2, <4>1 DEF Marked
    <3> QED BY <3>1, <3>2
  <2> QED BY <1>1, <1>5, <2>2, <2>3 DEF Marked
<1>11. Numbered(keys, k + 1)
  <2>1. ASSUME NEW i \in 1..l PROVE keys[i].token < k + 1
    <3>1. keys[i].token = k \/ keys[i].token = s.keys[i].token
      BY <1>2, <1>5
    <3>2. k \in Nat /\ s.keys[i].token < k /\ s.keys[i].token \in Nat
      BY <1>1, <1>2, <1>9
    <3> QED BY <3>1, <3>2
  <2> QED BY <1>5, <2>1 DEF Numbered
<1>12. ASSUME NEW t \in DOMAIN byTok, t >= s.parsed, byTok[t] >= 2, t # k
       PROVE  /\ t \in Nat /\ byTok[t] \in 1..l /\ byTok[t] # l
              /\ keys[byTok[t]] = s.keys[byTok[t]] /\ keys[byTok[t]].token = t
  <2>1. PICK i : i = byTok[t]
    OBVIOUS
  <2>2. t \in DOMAIN s.byTok /\ i = s.byTok[t] /\ t \in Nat /\ i \in Nat \ {0}
    BY <1>6, <1>7, <1>12, <2>1 DEF Indexed
  <2>3. i <= l /\ s.keys[i].token = t /\ i # l
    BY <1>2, <1>7, <1>12, <2>1, <2>2 DEF Indexed
  <2>4. i \in 1..l
    BY <1>5, <2>2, <2>3
  <2> QED BY <1>8, <2>1, <2>2, <2>3, <2>4
<1>13. Indexed(keys, byTok, s.parsed)
  <2>1. \A t \in DOMAIN byTok : t \in Nat /\ byTok[t] \in Nat \ {0}
    BY <1>1, <1>2, <1>5, <1>6, <1>7 DEF Indexed
  <2>2. ASSUME NEW t \in DOMAIN byTok, t >= s.parsed, byTok[t] >= 2
        PROVE  byTok[t] <= l /\ keys[byTok[t]].token = t
    <3>1. CASE t = k
      BY <1>2, <1>5, <1>6, <3>1
    <3>2. CASE t # k
      BY <1>12, <2>2, <3>2
    <3> QED BY <3>1, <3>2
  <2>3. ASSUME NEW i \in 1..l, keys[i].possible, keys[i].token \in DOMAIN byTok
        PROVE  byTok[keys[i].token] = i
    <3>1. CASE i = l
      BY <1>2, <1>5, <1>6, <3>1
    <3>2. CASE i # l
      <4>1. keys[i] = s.keys[i] /\ i \in 1..Len(s.keys)
        BY <1>8, <3>2
      <4>2. s.keys[i].token # k
        BY <1>1, <1>2, <1>9
      <4> QED BY <1>6, <1>7, <2>3, <4>1, <4>2 DEF Indexed
    <3> QED BY <3>1, <3>2
  <2> QED BY <1>5, <2>1, <2>2, <2>3 DEF Indexed
<1>14. Held(keys, byTok, s.parsed, s.mark)
  <2>1. ASSUME NEW i \in 1..l, keys[i].possible, InReach(s.mark, keys[i]),
               keys[i].token \in DOMAIN byTok
        PROVE  keys[i].token >= s.parsed
    <3>1. CASE i = l
      BY <1>1, <1>5, <3>1
    <3>2. CASE i # l
      <4>1. keys[i] = s.keys[i] /\ i \in 1..Len(s.keys)
        BY <1>8, <3>2
      <4>2. s.keys[i].token # k
        BY <1>1, <1>2, <1>9
      <4> QED BY <1>6, <1>7, <2>1, <4>1, <4>2 DEF Held
    <3> QED BY <3>1, <3>2
  <2> QED BY <1>5, <2>1 DEF Held
<1>15. Lax(keys, byTok, s.parsed, s.mark, k + 1)
  <2>1. ASSUME NEW t \in DOMAIN byTok, Outlived(keys, byTok, s.parsed, s.mark, t)
        PROVE  ~InReach(s.mark, keys[byTok[t]]) /\ k + 1 >= t + 3
    <3>1. t >= s.parsed /\ byTok[t] >= 2 /\ ~keys[byTok[t]].possible
      BY <2>1 DEF Outlived
    <3>2. t # k
      BY <1>5, <1>6, <3>1
    <3>3. t \in Nat /\ keys[byTok[t]] = s.keys[byTok[t]]
      BY <1>12, <3>1, <3>2
    <3>4. t \in DOMAIN s.byTok /\ byTok[t] = s.byTok[t]
      BY <1>6, <3>2
    <3>5. ~InReach(s.mark, s.keys[byTok[t]]) /\ n >= t + 3
      BY <1>7, <3>1, <3>3, <3>4 DEF Lax, Outlived
    <3>6. k + 1 >= t + 3
      BY <1>1, <1>2, <1>7, <3>3, <3>5
    <3> QED BY <3>3, <3>5, <3>6
  <2> QED BY <2>1 DEF Lax
<1> QED BY <1>1, <1>2, <1>3, <1>4, <1>10, <1>11, <1>13, <1>14, <1>15 DEF Loose, Steady

\* Saving a key, or leaving that there may be one.
LEMMA SaveFine ==
  ASSUME NEW s, Sound(s), Settled(s, NextToken(s)), s.error = "none", ~s.available, Free(s)
  PROVE  /\ Fine(SaveSimpleKey(s), NextToken(s) + 1, s.mark)
         /\ NextToken(SaveSimpleKey(s)) = NextToken(s)
<1>1. /\ DOMAIN s = ScannerFields /\ s.keys \in Seq(KeySet) /\ Len(s.keys) \in Nat \ {0}
      /\ s.parsed \in Nat /\ NextToken(s) \in Nat /\ s.mark \in Positions
      /\ Sound(SaveSimpleKey(s)) /\ Sound(RemoveSimpleKey(s))
  BY NumberFacts, StaysSound
<1>2. PICK key, r, q, l, n :
        /\ key = [possible |-> TRUE, required |-> FlowLevel(s) = 0 /\ s.indent = s.mark.col,
                  token |-> NextToken(s), mark |-> s.mark]
        /\ r = RemoveSimpleKey(s) /\ q = SaveSimpleKey(s) /\ l = Len(s.keys) /\ n = NextToken(s)
  OBVIOUS
<1>3. CASE ~s.allowed
  <2>1. q = s
    BY <1>2, <1>3 DEF SaveSimpleKey
  <2>2. Loose(s, n + 1)
    BY <1>2, SettledLoose
  <2>3. Fine(s, n + 1, s.mark)
    BY <2>2 DEF Fine
  <2> QED BY <1>2, <2>1, <2>3
<1>4. CASE s.allowed
  <2>1. key \in KeySet /\ key.possible /\ key.token = n /\ key.mark = s.mark
    BY <1>1, <1>2 DEF KeySet
  <2>2. q = [r EXCEPT !.keys[l] = key, !.byTok = With(@, key.token, l)]
    BY <1>2, <1>4 DEF SaveSimpleKey
  <2>3. Settled(s, n) /\ n \in Nat
    BY <1>1, <1>2
  <2>4. \A t \in DOMAIN s.byTok : t \in Nat
    BY <2>3 DEF Settled, Steady, Indexed
  <2>5. Loose(s, n)
    <3>1. Lax(s.keys, s.byTok, Floor(s), s.mark, n)
      BY <1>4, <2>3 DEF Settled, Spent, Lax
    <3> QED BY <2>3, <3>1 DEF Settled, Loose
  <2>6. Fine(s, n, s.mark)
    BY <2>5 DEF Fine
  <2>7. ASSUME NEW p, Fine(p, n, s.mark), p.error = "none", ~p.available, NextToken(p) = n,
               Len(p.keys) = l, p.mark = s.mark, q = Entered(p, key),
               \A t \in DOMAIN p.byTok : t >= p.parsed /\ p.byTok[t] >= 2 => p.byTok[t] # l
        PROVE  Fine(q, n + 1, s.mark) /\ NextToken(q) = n
    <3>1. Sound(p) /\ Loose(p, n) /\ n <= NextToken(p)
      BY <2>3, <2>7 DEF Fine
    <3>2. Sound(q)
      BY <1>1, <1>2
    <3>3. Loose(q, n + 1) /\ NextToken(q) = n /\ q.mark = s.mark
      BY <2>1, <2>7, <3>1, <3>2, EnteredLoose
    <3> QED BY <3>2, <3>3 DEF Fine
  <2>8. CASE ~s.keys[l].possible
    <3>1. r = s
      BY <1>2, <2>8 DEF RemoveSimpleKey
    <3>2. q = Entered(s, key)
      BY <1>2, <2>2, <3>1 DEF Entered
    <3>3. ASSUME NEW t \in DOMAIN s.byTok, t >= s.parsed, s.byTok[t] >= 2, s.byTok[t] = l
          PROVE  FALSE
      <4>1. Outlived(s.keys, s.byTok, s.parsed, s.mark, t)
        BY <2>8, <3>3 DEF Outlived
      <4> QED BY <1>2, <1>4, <3>3, <4>1 DEF Free
    <3> QED BY <1>2, <2>6, <2>7, <3>2, <3>3
  <2>9. CASE s.keys[l].possible /\ s.keys[l].required
    <3>1. r = Fail(s, "expected ':'")
      BY <1>2, <2>9 DEF RemoveSimpleKey
    <3>2. /\ r.error # "none" /\ r.mark = s.mark /\ r.parsed = s.parsed /\ r.tokens = s.tokens
          /\ DOMAIN r = ScannerFields
      BY <1>1, <3>1 DEF Fail, ScannerFields
    <3>3. q.error # "none" /\ q.mark = s.mark /\ q.parsed = s.parsed /\ q.tokens = s.tokens
      BY <2>2, <3>2 DEF ScannerFields
    <3> QED BY <1>1, <1>2, <3>3 DEF Fine, NextToken
  <2>10. CASE s.keys[l].possible /\ ~s.keys[l].required
    <3>1. r = Drop(s, l) /\ l \in 1..l
      BY <1>1, <1>2, <2>10 DEF RemoveSimpleKey
    <3>2. Fine(r, n, s.mark) /\ NextToken(r) = n /\ r.error = "none"
      BY <1>2, <2>6, <3>1, DropFine
    <3>3. /\ r.keys = NoneAt(s.keys, l) /\ r.byTok = Without(s.byTok, s.keys[l].token)
          /\ r.available = s.available /\ r.mark = s.mark /\ r.parsed = s.parsed
      BY <1>1, <3>1 DEF Drop, NoneAt, ScannerFields
    <3>4. Len(r.keys) = l
      BY <1>1, <1>2, <3>1, <3>3, NoneFacts
    <3>5. q = Entered(r, key)
      BY <2>2, <3>4 DEF Entered
    <3>6. ASSUME NEW t \in DOMAIN r.byTok, t >= r.parsed, r.byTok[t] >= 2, r.byTok[t] = l
          PROVE  FALSE
      <4>1. t \in DOMAIN s.byTok /\ t # s.keys[l].token /\ s.byTok[t] = l
        BY <3>3, <3>6 DEF Without
      <4>2. s.keys[l].token = t
        BY <2>3, <3>3, <3>6, <4>1 DEF Settled, Steady, Indexed
      <4> QED BY <4>1, <4>2
    <3> QED BY <1>2, <2>7, <3>2, <3>3, <3>4, <3>5, <3>6
  <2> QED BY <1>2, <2>8, <2>9, <2>10
<1> QED BY <1>2, <1>3, <1>4

-----------------------------------------------------------------------------
(* A token is scanned: the keys stay in order.                             *)

\* Where a lexeme begins, and where the scanner is when it has scanned it.
PlaceOf(x) == Mark(x.line, x.col)
PastOf(x)  == IF x.trail THEN Mark(x.line + x.down + 1, 0)
              ELSE IF x.down > 0 THEN Mark(x.line + x.down, x.width)
              ELSE Mark(x.line, x.col + x.width)
EndOf(x)   == IF x.kind = "literal" THEN Mark(x.line + x.down, 0) ELSE PastOf(x)

LEMMA PlacesOf ==
  ASSUME NEW x \in LexemeSet
  PROVE  /\ PlaceOf(x) \in Positions /\ PastOf(x) \in Positions /\ EndOf(x) \in Positions
         /\ Upto(PlaceOf(x), PastOf(x))
<1>1. /\ x.line \in Nat /\ x.col \in Nat /\ x.width \in Nat /\ x.down \in Nat
      /\ x.line + x.down + 1 \in Nat /\ x.line + x.down \in Nat /\ x.col + x.width \in Nat
  BY LexemeFacts
<1>2. PlaceOf(x) \in Positions /\ PastOf(x) \in Positions /\ EndOf(x) \in Positions
  BY <1>1, MarkType DEF PlaceOf, PastOf, EndOf
<1>3. Upto(PlaceOf(x), PastOf(x))
  <2>1. \A l, c : Mark(l, c).line = l /\ Mark(l, c).col = c
    BY DEF Mark
  <2>2. PlaceOf(x).line = x.line /\ PlaceOf(x).col = x.col
    BY <2>1 DEF PlaceOf
  <2>3. \/ PastOf(x).line = x.line + x.down + 1
        \/ x.down > 0 /\ PastOf(x).line = x.line + x.down
        \/ PastOf(x).line = x.line /\ PastOf(x).col = x.col + x.width
    BY <2>1 DEF PastOf
  <2> QED BY <1>1, <2>2, <2>3 DEF Upto
<1> QED BY <1>2, <1>3

\* The scanner goes on to a place.
LEMMA MarkFirm ==
  ASSUME NEW s, NEW n, NEW m \in Positions, NEW k \in Positions, Upto(m, k)
  PROVE  /\ Fine(s, n, m) => Fine([s EXCEPT !.mark = k], n, k)
         /\ Firm(s, n, m) => Firm([s EXCEPT !.mark = k], n, k)
<1> SUFFICES ASSUME Sound(s), s.mark = m
             PROVE  /\ Fine(s, n, m) => Fine([s EXCEPT !.mark = k], n, k)
                    /\ Firm(s, n, m) => Firm([s EXCEPT !.mark = k], n, k)
  BY DEF Fine, Firm
<1>1. PICK q : q = [s EXCEPT !.mark = k]
  OBVIOUS
<1>2. /\ DOMAIN s = ScannerFields /\ s.keys \in Seq(KeySet) /\ Len(s.keys) \in Nat
  BY NumberFacts
<1>3. /\ q.keys = s.keys /\ q.byTok = s.byTok /\ q.mark = k /\ q.parsed = s.parsed
      /\ q.available = s.available /\ q.tokens = s.tokens /\ q.error = s.error
      /\ q.allowed = s.allowed
  BY <1>1, <1>2 DEF ScannerFields
<1>4. Sound(q) /\ NextToken(q) = NextToken(s) /\ Floor(q) = Floor(s)
  <2>1. Sound(q)
    BY <1>1, SoundBalanced, PlainBalanced DEF Balanced
  <2> QED BY <1>3, <2>1 DEF NextToken, Floor
<1>5. \A i \in 1..Len(s.keys) : s.keys[i] \in KeySet /\ s.keys[i].mark \in Positions
  <2>1. \A i \in 1..Len(s.keys) : s.keys[i] \in KeySet
    BY <1>2, ElementOfSeq
  <2> QED BY <2>1 DEF KeySet
<1>6. ASSUME Steady(s, n) PROVE Steady(q, n)
  <2>1. /\ Marked(s.keys, m) /\ Numbered(s.keys, n) /\ Indexed(s.keys, s.byTok, s.parsed)
        /\ Held(s.keys, s.byTok, Floor(s), m) /\ n \in Nat /\ n <= NextToken(s) + 1
    BY <1>6 DEF Steady
  <2>2. Marked(s.keys, k)
    <3>1. \A i \in 1..Len(s.keys) : Upto(s.keys[i].mark, k)
      BY <1>5, <2>1, UptoFacts DEF Marked
    <3> QED BY <2>1, <3>1 DEF Marked
  <2>3. \A i \in 1..Len(s.keys) : InReach(k, s.keys[i]) => InReach(m, s.keys[i])
    BY <1>5, <2>1, ReachFacts DEF Marked
  <2>4. Held(s.keys, s.byTok, Floor(s), k)
    BY <2>1, <2>3 DEF Held
  <2> QED BY <1>3, <1>4, <2>1, <2>2, <2>4 DEF Steady
<1>7. ASSUME Steady(s, n), NEW t \in DOMAIN s.byTok,
             Outlived(s.keys, s.byTok, Floor(s), m, t), ~InReach(m, s.keys[s.byTok[t]])
      PROVE  ~InReach(k, s.keys[s.byTok[t]])
  <2>1. Marked(s.keys, m) /\ Indexed(s.keys, s.byTok, s.parsed)
    BY <1>7 DEF Steady
  <2>2. PICK l : l = s.byTok[t]
    OBVIOUS
  <2>3. l \in Nat \ {0} /\ l <= Len(s.keys)
    <3>1. t \in Nat /\ t >= Floor(s) /\ l >= 2 /\ l \in Nat \ {0}
      BY <1>7, <2>1, <2>2 DEF Outlived, Indexed
    <3>2. t >= s.parsed
      BY <3>1, NumberFacts
    <3> QED BY <2>1, <2>2, <3>1, <3>2 DEF Indexed
  <2>4. l \in 1..Len(s.keys)
    BY <1>2, <2>3
  <2>5. Upto(s.keys[l].mark, m)
    BY <2>1, <2>4 DEF Marked
  <2>6. s.keys[l] \in KeySet
    BY <1>5, <2>4
  <2>7. InReach(k, s.keys[l]) => InReach(m, s.keys[l])
    BY <2>5, <2>6, ReachFacts
  <2> QED BY <1>7, <2>2, <2>7
<1>8. \A t : Outlived(s.keys, s.byTok, Floor(s), k, t) <=> Outlived(s.keys, s.byTok, Floor(s), m, t)
  BY DEF Outlived
<1>9. ASSUME Loose(s, n) PROVE Loose(q, n)
  <2>1. Steady(s, n) /\ Lax(s.keys, s.byTok, Floor(s), m, n)
    BY <1>9 DEF Loose
  <2>2. Lax(s.keys, s.byTok, Floor(s), k, n)
    BY <1>7, <1>8, <2>1 DEF Lax
  <2> QED BY <1>3, <1>4, <1>6, <2>1, <2>2 DEF Loose
<1>10. ASSUME Settled(s, n) PROVE Settled(q, n)
  <2>1. Steady(s, n) /\ Spent(s.keys, s.byTok, Floor(s), m, n, s.allowed)
    BY <1>10 DEF Settled
  <2>2. Spent(s.keys, s.byTok, Floor(s), k, n, s.allowed)
    BY <1>7, <1>8, <2>1 DEF Spent
  <2> QED BY <1>3, <1>4, <1>6, <2>1, <2>2 DEF Settled
<1>11. (Fine(s, n, m) => Fine(q, n, k)) /\ (Firm(s, n, m) => Firm(q, n, k))
  BY <1>3, <1>4, <1>9, <1>10 DEF Fine, Firm
<1> QED BY <1>1, <1>11, Zenon

\* A scanner that has scanned a token, and stands at the place m; and one that is about
\* to scan one.
Rests(s, m) == Firm(s, NextToken(s), m)
Poised(s)   == /\ Sound(s) /\ s.error = "none" /\ ~s.available
               /\ Settled(s, NextToken(s)) /\ Free(s)

LEMMA FineFirm ==
  ASSUME NEW s, NEW n, NEW m, Fine(s, n, m)
  PROVE  Firm(s, n, m)
<1>1. \A t : Outlived(s.keys, s.byTok, Floor(s), s.mark, t) => t >= Floor(s)
  BY DEF Outlived
<1>2. Lax(s.keys, s.byTok, Floor(s), s.mark, n) => Spent(s.keys, s.byTok, Floor(s), s.mark, n, s.allowed)
  BY DEF Lax, Spent
<1> QED BY <1>2 DEF Fine, Firm, Loose, Settled

LEMMA PoisedFine ==
  ASSUME NEW s, Poised(s)
  PROVE  Fine(s, NextToken(s) + 1, s.mark) /\ Rests(s, s.mark)
BY SettledLoose DEF Poised, Fine, Firm, Rests

\* The token is added, and the text scanned.
LEMMA AddRests ==
  ASSUME NEW s, NEW n, NEW m, Firm(s, n, m),
         NEW type \in TokenTypes \ BlockTokens, NEW v \in ReadSet
  PROVE  Rests(Add(s, type, v), m)
<1>1. /\ Sound(s) /\ DOMAIN s = ScannerFields /\ NextToken(s) \in Nat
      /\ s.parsed \in Nat /\ Len(s.tokens) \in Nat
  BY NumberFacts, SoundFacts DEF Firm
<1>2. PICK t, q : t = Token(type, v) /\ q = Insert(s, -1, t)
  OBVIOUS
<1>3. q = Add(s, type, v)
  BY <1>2 DEF Add
<1>4. /\ q.keys = s.keys /\ q.byTok = s.byTok /\ q.mark = s.mark /\ q.parsed = s.parsed
      /\ q.available = s.available /\ q.error = s.error /\ q.allowed = s.allowed
  BY <1>1, <1>2 DEF Insert, ScannerFields
<1>5. Sound(q) /\ Len(q.tokens) = Len(s.tokens) + 1
  <2>1. PICK k : Balanced(s, k)
    BY <1>1, SoundBalanced
  <2>2. t \in TokenSet
    BY <1>2, TokenFacts
  <2>3. -1 \in Int /\ -1 <= Len(s.tokens)
    BY <1>1
  <2> QED BY <1>2, <2>1, <2>2, <2>3, InsertBalanced DEF Balanced
<1>6. NextToken(q) = NextToken(s) + 1
  BY <1>1, <1>4, <1>5 DEF NextToken
<1>7. Firm(q, n, m)
  <2>1. NextToken(s) \in Int /\ NextToken(q) \in Int /\ NextToken(s) <= NextToken(q)
    BY <1>1, <1>6
  <2> QED BY <1>4, <1>5, <2>1, AlikeFine
<1>8. ASSUME q.error = "none" PROVE Settled(q, NextToken(q))
  <2>1. Settled(q, n) /\ n \in Nat /\ n <= NextToken(s) + 1
    BY <1>4, <1>7, <1>8 DEF Firm, Settled, Steady
  <2>2. Settled(s, n)
    BY <1>4, <1>8 DEF Firm
  <2>3. n <= NextToken(s) + 1
    BY <2>2 DEF Settled, Steady
  <2> QED BY <1>1, <1>5, <1>6, <2>1, <2>3, MoreTokens
<1> QED BY <1>3, <1>7, <1>8 DEF Firm, Rests

LEMMA PastRests ==
  ASSUME NEW s, NEW n, NEW x \in LexemeSet, Firm(s, n, PlaceOf(x)),
         NEW type \in TokenTypes \ BlockTokens, NEW v \in ReadSet
  PROVE  Rests(Add(Past(s, x), type, v), PastOf(x))
<1>1. Firm([s EXCEPT !.mark = PastOf(x)], n, PastOf(x))
  BY PlacesOf, MarkFirm
<1>2. Past(s, x) = [s EXCEPT !.mark = PastOf(x)]
  BY DEF Past, PastOf
<1> QED BY <1>1, <1>2, AddRests

\* A fetch: where a key may begin, the innermost level has no entry out of reach, for
\* the head of the queue would be out of reach too and be offered.
LEMMA PoisedToFetch ==
  ASSUME NEW s, Sound(s), s.error = "none", ~s.available, Settled(s, NextToken(s)), MustFetch(s)
  PROVE  Poised(s)
<1>1. /\ s.keys \in Seq(KeySet) /\ Len(s.keys) \in Nat \ {0}
      /\ s.parsed \in Nat /\ s.mark \in Positions
      /\ NextToken(s) = s.parsed + Len(s.tokens) /\ Len(s.tokens) \in Nat
  BY NumberFacts, SoundFacts
<1>2. /\ Marked(s.keys, s.mark) /\ Indexed(s.keys, s.byTok, s.parsed)
      /\ Spent(s.keys, s.byTok, s.parsed, s.mark, NextToken(s), s.allowed)
  BY DEF Settled, Steady, Floor
<1>3. ASSUME s.allowed, NEW t \in DOMAIN s.byTok,
             Outlived(s.keys, s.byTok, s.parsed, s.mark, t), s.byTok[t] = Len(s.keys)
      PROVE  FALSE
  <2>1. ~InReach(s.mark, s.keys[Len(s.keys)]) /\ NextToken(s) >= t + 3
    BY <1>2, <1>3 DEF Spent
  <2>2. t \in Nat /\ t >= s.parsed
    BY <1>2, <1>3 DEF Outlived, Indexed
  <2>3. Len(s.tokens) > 2
    BY <1>1, <2>1, <2>2
  <2>4. PICK h : h = HeadKey(s)
    OBVIOUS
  <2>5. h # 0 /\ Alive(s, s.keys[h])
    BY <1>1, <2>3, <2>4 DEF MustFetch
  <2>6. s.parsed \in DOMAIN s.byTok /\ h = s.byTok[s.parsed]
    BY <2>4, <2>5 DEF HeadKey
  <2>7. h \in Nat \ {0} /\ (h >= 2 => h <= Len(s.keys))
    BY <1>1, <1>2, <2>6 DEF Indexed
  <2>8. h \in 1..Len(s.keys) /\ Len(s.keys) \in 1..Len(s.keys) /\ h <= Len(s.keys)
    BY <1>1, <2>7
  <2>9. s.keys[h] \in KeySet /\ s.keys[Len(s.keys)] \in KeySet
    BY <1>1, <2>8, ElementOfSeq
  <2>10. InReach(s.mark, s.keys[h])
    BY <2>5 DEF Alive, InReach
  <2>11. Upto(s.keys[h].mark, s.keys[Len(s.keys)].mark) /\ Upto(s.keys[Len(s.keys)].mark, s.mark)
    BY <1>2, <2>8 DEF Marked
  <2> QED BY <1>1, <2>1, <2>9, <2>10, <2>11, ReachFacts
<1> QED BY <1>3 DEF Poised, Free

\* At the next lexeme, with the blocks ended it is left of.
LEMMA PoisedAt ==
  ASSUME NEW s, Poised(s), NEW x \in LexemeSet, Upto(s.mark, PlaceOf(x)),
         NEW r, r = UnrollIndent(Reached(s, x), x.col)
  PROVE  Poised(r) /\ r.mark = PlaceOf(x)
<1>1. Sound(s) /\ DOMAIN s = ScannerFields /\ s.mark \in Positions /\ NextToken(s) \in Nat
      /\ FlowLevel(s) = Len(s.keys) - 1 /\ Len(s.keys) \in Nat
  BY NumberFacts DEF Poised
<1>2. PICK p, q : p = [s EXCEPT !.mark = PlaceOf(x)] /\ q = Reached(s, x)
  OBVIOUS
<1>3. Firm(p, NextToken(s), PlaceOf(x))
  BY <1>1, <1>2, PoisedFine, PlacesOf, MarkFirm DEF Rests
<1>4. /\ p.keys = s.keys /\ p.byTok = s.byTok /\ p.mark = PlaceOf(x) /\ p.parsed = s.parsed
      /\ p.available = s.available /\ p.tokens = s.tokens /\ p.error = s.error
      /\ p.allowed = s.allowed
  BY <1>1, <1>2 DEF ScannerFields
<1>5. /\ q.keys = p.keys /\ q.byTok = p.byTok /\ q.mark = p.mark /\ q.parsed = p.parsed
      /\ q.available = p.available /\ q.tokens = p.tokens /\ q.error = p.error
      /\ ~InBlock(s) => (q.allowed <=> s.allowed)
  <2>1. PICK b, c : b = (s.allowed \/ c) /\ c = (InBlock(s) /\ x.line > s.mark.line)
    OBVIOUS
  <2>2. q = [s EXCEPT !.mark = PlaceOf(x), !.allowed = b]
    BY <1>2, <2>1 DEF Reached, PlaceOf
  <2>3. /\ q.keys = s.keys /\ q.byTok = s.byTok /\ q.mark = PlaceOf(x) /\ q.parsed = s.parsed
        /\ q.available = s.available /\ q.tokens = s.tokens /\ q.error = s.error
        /\ q.allowed = b
    BY <1>1, <2>2 DEF ScannerFields
  <2> QED BY <1>4, <2>1, <2>3, Zenon
<1>6. Sound(q) /\ NextToken(q) = NextToken(s) /\ Floor(q) = Floor(s) /\ Floor(p) = Floor(s)
      /\ NextToken(p) = NextToken(s)
  BY <1>1, <1>2, <1>4, <1>5, StaysSound DEF NextToken, Floor
<1>7. Settled(p, NextToken(s))
  BY <1>3, <1>4 DEF Firm, Poised
<1>8. ASSUME NEW t \in DOMAIN s.byTok, s.byTok[t] >= 2, s.byTok[t] = Len(s.keys)
      PROVE  q.allowed <=> s.allowed
  <2>1. ~InBlock(s)
    <3>1. PICK l : l = Len(s.keys)
      OBVIOUS
    <3>2. l \in Nat /\ l >= 2 /\ FlowLevel(s) = l - 1
      BY <1>1, <1>8, <3>1
    <3>3. FlowLevel(s) # 0
      BY <3>2
    <3> QED BY <3>3 DEF InBlock
  <2> QED BY <1>5, <2>1
<1>9. Settled(q, NextToken(q))
  <2>1. Steady(q, NextToken(q))
    BY <1>4, <1>5, <1>6, <1>7 DEF Settled, Steady
  <2>2. Spent(s.keys, s.byTok, Floor(s), p.mark, NextToken(s), s.allowed)
    BY <1>4, <1>6, <1>7 DEF Settled
  <2>3. Spent(s.keys, s.byTok, Floor(s), p.mark, NextToken(s), q.allowed)
    BY <1>8, <2>2 DEF Spent, Outlived
  <2> QED BY <1>4, <1>5, <1>6, <2>1, <2>3 DEF Settled
<1>10. Free(q)
  <2>1. Free(s)
    BY DEF Poised
  <2> QED BY <1>4, <1>5, <1>8, <2>1 DEF Free, Outlived
<1>11. x.col \in Int /\ -1 <= x.col
  BY LexemeFacts
<1>12. /\ Sound(r) /\ r.keys = q.keys /\ r.byTok = q.byTok /\ r.mark = q.mark
       /\ r.parsed = q.parsed /\ r.available = q.available /\ r.error = q.error
       /\ r.allowed = q.allowed
       /\ NextToken(r) \in Int /\ NextToken(q) \in Int /\ NextToken(q) <= NextToken(r)
  BY <1>2, <1>6, <1>11, UnrollKeeps
<1>13. Settled(r, NextToken(r))
  <2>1. q.error = "none"
    BY <1>4, <1>5 DEF Poised
  <2>2. Firm(q, NextToken(q), q.mark)
    BY <1>6, <1>9 DEF Firm
  <2>3. Firm(r, NextToken(q), q.mark)
    BY <1>12, <2>2, AlikeFine
  <2>4. Settled(r, NextToken(q))
    BY <1>12, <2>1, <2>3 DEF Firm
  <2>5. NextToken(r) \in Nat
    BY <1>12, NumberFacts
  <2> QED BY <1>12, <2>4, <2>5, MoreTokens
<1>14. Free(r)
  BY <1>10, <1>12 DEF Free, Outlived
<1> QED BY <1>4, <1>5, <1>12, <1>13, <1>14 DEF Poised

\* A key that is dead is none, and its entry stays.
Expired(s, level) == [s EXCEPT !.keys[level].possible = FALSE]

LEMMA NoneSteady ==
  ASSUME NEW s, NEW n, Sound(s), Steady(s, n), NEW level \in 1..Len(s.keys),
         NEW q, q = Expired(s, level)
  PROVE  /\ Steady(q, n) /\ q.keys = NoneAt(s.keys, level) /\ q.byTok = s.byTok
         /\ q.mark = s.mark /\ q.parsed = s.parsed /\ q.available = s.available
         /\ q.tokens = s.tokens /\ q.error = s.error /\ q.allowed = s.allowed
         /\ q.indent = s.indent
<1>1. DOMAIN s = ScannerFields /\ s.keys \in Seq(KeySet)
  BY NumberFacts
<1>2. /\ q.keys = NoneAt(s.keys, level) /\ q.byTok = s.byTok
      /\ q.mark = s.mark /\ q.parsed = s.parsed /\ q.available = s.available
      /\ q.tokens = s.tokens /\ q.error = s.error /\ q.allowed = s.allowed
      /\ q.indent = s.indent
  BY <1>1 DEF Expired, NoneAt, ScannerFields
<1>3. PICK keys : keys = q.keys
  OBVIOUS
<1>4. /\ keys \in Seq(KeySet) /\ Len(keys) = Len(s.keys)
      /\ \A i \in 1..Len(keys) :
           /\ keys[i].mark = s.keys[i].mark /\ keys[i].token = s.keys[i].token
           /\ keys[i].possible => s.keys[i].possible
  BY <1>1, <1>2, <1>3, NoneFacts
<1>5. /\ Marked(keys, s.mark) /\ Numbered(keys, n) /\ Indexed(keys, s.byTok, s.parsed)
      /\ Held(keys, s.byTok, Floor(s), s.mark)
  BY <1>4, Fewer DEF Steady
<1> QED BY <1>2, <1>3, <1>5 DEF Steady, Floor, NextToken

\* The entries that outlive a key of which it is known that it is dead.
LEMMA NoneOutlived ==
  ASSUME NEW s, NEW n, Sound(s), Steady(s, n), NEW level \in 1..Len(s.keys),
         NEW floor \in Nat, s.parsed <= floor,
         NEW t \in DOMAIN s.byTok, Outlived(NoneAt(s.keys, level), s.byTok, floor, s.mark, t)
  PROVE  /\ t \in Nat /\ t >= floor /\ s.byTok[t] \in 1..Len(s.keys) /\ s.byTok[t] >= 2
         /\ s.keys[s.byTok[t]].token = t
         /\ Outlived(s.keys, s.byTok, floor, s.mark, t) \/ s.byTok[t] = level
         /\ InReach(s.mark, NoneAt(s.keys, level)[s.byTok[t]]) => InReach(s.mark, s.keys[s.byTok[t]])
<1>1. s.keys \in Seq(KeySet) /\ s.parsed \in Nat /\ Len(s.keys) \in Nat
  BY NumberFacts
<1>2. PICK l, keys : l = s.byTok[t] /\ keys = NoneAt(s.keys, level)
  OBVIOUS
<1>3. /\ t \in Nat /\ t >= floor /\ l \in Nat /\ l >= 2 /\ ~keys[l].possible
      /\ l <= Len(s.keys) /\ s.keys[l].token = t
  <2>1. Indexed(s.keys, s.byTok, s.parsed)
    BY DEF Steady
  <2>2. t >= floor /\ l >= 2 /\ ~keys[l].possible /\ t \in Nat /\ l \in Nat
    BY <1>2, <2>1 DEF Outlived, Indexed
  <2>3. t >= s.parsed
    BY <1>1, <2>2
  <2> QED BY <1>2, <2>1, <2>2, <2>3 DEF Indexed
<1>4. l \in 1..Len(s.keys)
  BY <1>1, <1>3
<1>5. keys[l].mark = s.keys[l].mark /\ (l # level => keys[l].possible = s.keys[l].possible)
  BY <1>1, <1>2, <1>4, NoneFacts
<1>6. Outlived(s.keys, s.byTok, floor, s.mark, t) \/ l = level
  BY <1>2, <1>3, <1>5 DEF Outlived
<1>7. InReach(s.mark, keys[l]) => InReach(s.mark, s.keys[l])
  BY <1>5 DEF InReach
<1> QED BY <1>2, <1>3, <1>4, <1>6, <1>7

\* ':' finds that the innermost key is dead.  In a flow collection the entry of that key
\* outlives it, two tokens from the end, and no key may begin.
LEMMA ExpireFirm ==
  ASSUME NEW s, Poised(s), ~Alive(s, s.keys[Len(s.keys)]), NEW q, q = Expire(s, Len(s.keys))
  PROVE  /\ InBlock(s) => Fine(q, NextToken(s) + 1, s.mark)
         /\ Firm(Allow(q, FALSE), NextToken(s) + 1, s.mark)
         /\ InBlock(q) <=> InBlock(s)
<1>1. /\ Sound(s) /\ DOMAIN s = ScannerFields /\ s.keys \in Seq(KeySet) /\ Len(s.keys) \in Nat \ {0}
      /\ Sound(q) /\ NextToken(s) \in Nat /\ s.parsed \in Nat /\ FlowLevel(s) = Len(s.keys) - 1
  BY NumberFacts, StaysSound DEF Poised
<1>2. PICK l, n : l = Len(s.keys) /\ n = NextToken(s) + 1
  OBVIOUS
<1>3. Fine(s, n, s.mark) /\ Loose(s, n) /\ s.error = "none" /\ Floor(s) = s.parsed
  BY <1>2, PoisedFine DEF Poised, Fine, Floor
<1>4. ASSUME Fine(q, n, s.mark) PROVE Firm(Allow(q, FALSE), n, s.mark)
  BY <1>4, PlainFine, FineFirm
<1>5. CASE ~s.keys[l].possible
  <2>1. q = s
    BY <1>2, <1>5 DEF Expire
  <2> QED BY <1>2, <1>3, <1>4, <2>1
<1>6. CASE s.keys[l].possible /\ s.keys[l].required
  <2>1. PICK why : q = Fail(s, why)
    BY <1>2, <1>6 DEF Expire
  <2>2. Fine(q, n, s.mark)
    BY <1>3, <2>1, PlainFine
  <2>3. q.keys = s.keys
    BY <1>1, <2>1 DEF Fail, ScannerFields
  <2> QED BY <1>2, <1>4, <2>2, <2>3 DEF InBlock, FlowLevel
<1>7. CASE s.keys[l].possible /\ ~s.keys[l].required
  <2>1. q = Expired(s, l) /\ l \in 1..Len(s.keys) /\ l \in Nat
    BY <1>1, <1>2, <1>7 DEF Expire, Expired
  <2>2. /\ Steady(q, n) /\ q.keys = NoneAt(s.keys, l) /\ q.byTok = s.byTok
        /\ q.mark = s.mark /\ q.parsed = s.parsed /\ q.available = s.available
        /\ q.tokens = s.tokens /\ q.error = s.error
    BY <1>1, <1>3, <2>1, NoneSteady DEF Loose
  <2>3. Len(q.keys) = l
    BY <1>1, <1>2, <2>1, <2>2, NoneFacts
  <2>4. Floor(q) = s.parsed
    BY <1>3, <2>2 DEF Floor
  <2>5. ~InReach(s.mark, s.keys[l])
    BY <1>2, <1>7 DEF Alive, InReach
  <2>6. ASSUME NEW t \in DOMAIN s.byTok, Outlived(q.keys, s.byTok, s.parsed, s.mark, t)
        PROVE  /\ ~InReach(s.mark, q.keys[s.byTok[t]]) /\ t \in Nat /\ s.byTok[t] >= 2
               /\ n >= t + 3 \/ (n >= t + 2 /\ s.byTok[t] = l)
    <3>1. /\ t \in Nat /\ s.byTok[t] \in 1..Len(s.keys) /\ s.byTok[t] >= 2
          /\ s.keys[s.byTok[t]].token = t
          /\ Outlived(s.keys, s.byTok, s.parsed, s.mark, t) \/ s.byTok[t] = l
          /\ InReach(s.mark, q.keys[s.byTok[t]]) => InReach(s.mark, s.keys[s.byTok[t]])
      <4>1. Outlived(NoneAt(s.keys, l), s.byTok, s.parsed, s.mark, t) /\ Steady(s, n)
            /\ s.parsed <= s.parsed
        BY <1>1, <1>3, <2>2, <2>6 DEF Loose
      <4>2. /\ t \in Nat /\ s.byTok[t] \in 1..Len(s.keys) /\ s.byTok[t] >= 2
            /\ s.keys[s.byTok[t]].token = t
            /\ Outlived(s.keys, s.byTok, s.parsed, s.mark, t) \/ s.byTok[t] = l
            /\ InReach(s.mark, NoneAt(s.keys, l)[s.byTok[t]]) => InReach(s.mark, s.keys[s.byTok[t]])
        <5>1. Sound(s) /\ s.parsed \in Nat /\ s.parsed <= s.parsed /\ l \in 1..Len(s.keys)
          BY <1>1, <2>1
        <5>2. Steady(s, n) /\ t \in DOMAIN s.byTok
              /\ Outlived(NoneAt(s.keys, l), s.byTok, s.parsed, s.mark, t)
          BY <2>6, <4>1
        <5> QED BY <5>1, <5>2, NoneOutlived
      <4> QED BY <2>2, <4>2
    <3>2. CASE Outlived(s.keys, s.byTok, s.parsed, s.mark, t)
      BY <1>3, <3>1, <3>2 DEF Loose, Lax
    <3>3. CASE s.byTok[t] = l
      <4>1. t < NextToken(s)
        <5>1. Numbered(s.keys, NextToken(s))
          BY DEF Poised, Settled, Steady
        <5> QED BY <2>1, <3>1, <3>3, <5>1 DEF Numbered
      <4>2. n >= t + 2
        BY <1>1, <1>2, <3>1, <4>1
      <4> QED BY <2>5, <3>1, <3>3, <4>2
    <3> QED BY <3>1, <3>2, <3>3
  <2>7. ASSUME InBlock(s) PROVE Fine(q, n, s.mark)
    <3>1. l = 1
      BY <1>1, <1>2, <2>7 DEF InBlock
    <3>2. ASSUME NEW t \in DOMAIN s.byTok, Outlived(q.keys, s.byTok, s.parsed, s.mark, t)
          PROVE  ~InReach(s.mark, q.keys[s.byTok[t]]) /\ n >= t + 3
      <4>1. s.byTok[t] # l
        BY <2>6, <3>1, <3>2
      <4> QED BY <2>6, <3>2, <4>1
    <3>3. Lax(q.keys, s.byTok, s.parsed, s.mark, n)
      BY <3>2 DEF Lax
    <3> QED BY <1>1, <2>2, <2>4, <3>3 DEF Fine, Loose
  <2>8. Firm(Allow(q, FALSE), n, s.mark)
    <3>1. PICK p : p = Allow(q, FALSE)
      OBVIOUS
    <3>2. Sound(p) /\ DOMAIN q = ScannerFields
      BY <1>1, <3>1, StaysSound, NumberFacts
    <3>3. /\ p.keys = q.keys /\ p.byTok = s.byTok /\ p.mark = s.mark /\ p.parsed = s.parsed
          /\ p.available = s.available /\ p.tokens = s.tokens /\ p.allowed = FALSE
      BY <2>2, <3>1, <3>2 DEF Allow, ScannerFields
    <3>4. Steady(p, n) /\ Floor(p) = s.parsed
      BY <2>2, <2>4, <3>3 DEF Steady, Floor, NextToken
    <3>5. Spent(q.keys, s.byTok, s.parsed, s.mark, n, FALSE)
      BY <2>3, <2>6 DEF Spent
    <3> QED BY <3>1, <3>2, <3>3, <3>4, <3>5 DEF Firm, Settled
  <2>9. InBlock(q) <=> InBlock(s)
    BY <1>2, <2>3 DEF InBlock, FlowLevel
  <2> QED BY <1>2, <2>7, <2>8, <2>9
<1> QED BY <1>5, <1>6, <1>7

\* The fetchers, one by one: what they leave rests behind the lexeme.
LEMMA FlowRests ==
  ASSUME NEW s, Poised(s), NEW x \in LexemeSet, s.mark = PlaceOf(x), x.kind \in Kinds
  PROVE  /\ Rests(FetchFlowStart(s, x), PastOf(x)) /\ Rests(FetchFlowEnd(s, x), PastOf(x))
         /\ Rests(FetchFlowEntry(s, x), PastOf(x))
<1>1. x.kind \in TokenTypes \ BlockTokens /\ "," \in TokenTypes \ BlockTokens /\ Empty \in ReadSet
  BY KindTypes, EmptyValue
<1>2. PICK n, m : n = NextToken(s) + 1 /\ m = PlaceOf(x)
  OBVIOUS
<1>3. Fine(s, n, m) /\ Fine(SaveSimpleKey(s), n, m) /\ NextToken(SaveSimpleKey(s)) < n
  <2>1. NextToken(s) \in Nat
    BY NumberFacts DEF Poised
  <2> QED BY <1>2, <2>1, PoisedFine, SaveFine DEF Poised
<1>4. Firm(Allow(IncreaseFlowLevel(SaveSimpleKey(s)), TRUE), n, m)
  BY <1>3, IncreaseFine, PlainFine, FineFirm
<1>5. Firm(Allow(DecreaseFlowLevel(RemoveSimpleKey(s)), FALSE), n, m)
  BY <1>3, RemoveFine, DecreaseFine, PlainFine, FineFirm
<1>6. Firm(Allow(RemoveSimpleKey(s), TRUE), n, m)
  BY <1>3, RemoveFine, PlainFine, FineFirm
<1> QED BY <1>1, <1>2, <1>4, <1>5, <1>6, PastRests DEF FetchFlowStart, FetchFlowEnd, FetchFlowEntry

\* Back at the left margin, or where a block may begin.
LEMMA OpenedFine ==
  ASSUME NEW s, NEW n, NEW m, Fine(s, n, m)
  PROVE  /\ Fine(Reset(s), n, m)
         /\ \A x \in LexemeSet, type \in BlockStarts : Fine(Opened(s, x, type), n, m)
<1>1. Fine(Reset(s), n, m)
  <2>1. Fine(UnrollIndent(s, -1), n, m)
    BY UnrollFine
  <2> QED BY <2>1, RemoveFine, PlainFine DEF Reset
<1>2. ASSUME NEW x \in LexemeSet, NEW type \in BlockStarts
      PROVE  Fine(Opened(s, x, type), n, m)
  <2>1. x.col \in Int /\ -1 \in Int /\ -1 <= NextToken(s)
    BY LexemeFacts, NumberFacts DEF Fine
  <2>2. Fine(RollIndent(s, x.col, -1, type), n, m)
    BY <2>1, RollFine
  <2> QED BY <2>2, PlainFine DEF Opened
<1> QED BY <1>1, <1>2

LEMMA EntryRests ==
  ASSUME NEW s, Poised(s), NEW x \in LexemeSet, s.mark = PlaceOf(x)
  PROVE  Rests(FetchBlockEntry(s, x), PastOf(x)) /\ Rests(FetchKey(s, x), PastOf(x))
<1>1. \A type \in {"-", "?"} : type \in TokenTypes \ BlockTokens
  BY KindTypes
<1>2. PICK n, m : n = NextToken(s) + 1 /\ m = PlaceOf(x)
  OBVIOUS
<1>3. \A type \in BlockStarts : Fine(Opened(s, x, type), n, m)
  BY <1>2, PoisedFine, OpenedFine
<1>4. "block-sequence-start" \in BlockStarts /\ "block-mapping-start" \in BlockStarts
  BY DEF BlockStarts
<1>5. Firm(Allow(RemoveSimpleKey(Opened(s, x, "block-sequence-start")), TRUE), n, m)
  BY <1>3, <1>4, RemoveFine, PlainFine, FineFirm
<1>6. Firm(Allow(RemoveSimpleKey(Opened(s, x, "block-mapping-start")), InBlock(s)), n, m)
  BY <1>3, <1>4, RemoveFine, PlainFine, FineFirm
<1> QED BY <1>1, <1>2, <1>5, <1>6, EmptyValue, PastRests DEF FetchBlockEntry, FetchKey

LEMMA ScalarRests ==
  ASSUME NEW s, Poised(s), NEW x \in LexemeSet, s.mark = PlaceOf(x)
  PROVE  /\ x.down >= 1 =>
              Rests(FetchBlockScalar(s, x), Mark(IF Taken(s, x) THEN x.line + x.down ELSE x.line + 1, 0))
         /\ Rests(FetchQuoted(s, x), PastOf(x)) /\ Rests(FetchPlain(s, x), PastOf(x))
         /\ x.kind \in Kinds => Rests(FetchProperty(s, x), PastOf(x))
<1>1. "scalar" \in TokenTypes \ BlockTokens /\ x.value \in ReadSet
  BY KindTypes, LexemeFacts
<1>2. PICK n, m : n = NextToken(s) + 1 /\ m = PlaceOf(x)
  OBVIOUS
<1>3. Fine(s, n, m) /\ Fine(SaveSimpleKey(s), n, m)
  BY <1>2, PoisedFine, SaveFine DEF Poised
<1>4. \A b : Firm(Allow(SaveSimpleKey(s), b), n, m)
  BY <1>3, PlainFine, FineFirm
<1>5. Rests(FetchQuoted(s, x), PastOf(x)) /\ Rests(FetchPlain(s, x), PastOf(x))
  BY <1>1, <1>2, <1>4, PastRests DEF FetchQuoted, FetchPlain
<1>6. x.kind \in Kinds => Rests(FetchProperty(s, x), PastOf(x))
  BY <1>1, <1>2, <1>4, KindTypes, PastRests DEF FetchProperty
<1>7. PICK k, q, r : /\ k = Mark(IF Taken(s, x) THEN x.line + x.down ELSE x.line + 1, 0)
                     /\ q = IF TabIndents(s, x) THEN Fail(s, "found a tab character") ELSE s
                     /\ r = Allow(RemoveSimpleKey(q), TRUE)
  OBVIOUS
<1>8. k \in Positions /\ m \in Positions /\ (x.down >= 1 => Upto(m, k))
  <2>1. x.line \in Nat /\ x.down \in Nat /\ x.line + x.down \in Nat /\ x.line + 1 \in Nat
    BY LexemeFacts
  <2>2. \A l, c : Mark(l, c).line = l
    BY DEF Mark
  <2>3. k \in Positions /\ m \in Positions
    BY <1>2, <1>7, <2>1, MarkType, PlacesOf
  <2>4. m.line = x.line /\ k.line = IF Taken(s, x) THEN x.line + x.down ELSE x.line + 1
    BY <1>2, <1>7, <2>2 DEF PlaceOf
  <2>5. x.down >= 1 => m.line < k.line
    BY <2>1, <2>4
  <2> QED BY <2>3, <2>5 DEF Upto
<1>9. x.down >= 1 => Firm([r EXCEPT !.mark = k], n, k)
  <2>1. Fine(q, n, m)
    BY <1>3, <1>7, PlainFine
  <2>2. Firm(r, n, m)
    BY <1>7, <2>1, RemoveFine, PlainFine, FineFirm
  <2> QED BY <1>8, <2>2, MarkFirm
<1>10. s.indent \in Int
  BY SoundFacts DEF Poised
<1>11. FetchBlockScalar(s, x) = Add([r EXCEPT !.mark = k], "scalar", Scanned(s, x))
  BY <1>7 DEF FetchBlockScalar
<1>12. x.down >= 1 => Rests(FetchBlockScalar(s, x), k)
  BY <1>1, <1>9, <1>10, <1>11, ScannedType, AddRests
<1> QED BY <1>5, <1>6, <1>7, <1>12

\* The stream ends at the start of a line.
Foot(m) == Mark(IF m.col = 0 THEN m.line ELSE m.line + 1, 0)

LEMMA EndRests ==
  ASSUME NEW s, NEW n, NEW m \in Positions, Fine(s, n, m)
  PROVE  Rests(FetchStreamEnd(s), Foot(m)) /\ Foot(m) \in Positions /\ Upto(m, Foot(m))
<1>1. m.line \in Nat /\ m.col \in Nat /\ m.line + 1 \in Nat /\ s.mark = m
  BY DEF Positions, Fine
<1>2. PICK line, k : line = (IF m.col = 0 THEN m.line ELSE m.line + 1) /\ k = Mark(line, 0)
  OBVIOUS
<1>3. k = Foot(m) /\ k \in Positions /\ Upto(m, k)
  <2>1. line \in Nat /\ k.line = line /\ k.col = 0
    BY <1>1, <1>2 DEF Mark
  <2>2. Upto(m, k)
    BY <1>1, <1>2, <2>1 DEF Upto
  <2> QED BY <1>2, <2>1, <2>2, MarkType DEF Foot
<1>4. Fine([s EXCEPT !.mark = k], n, k)
  BY <1>3, MarkFirm
<1>5. Firm(Reset([s EXCEPT !.mark = k]), n, k)
  BY <1>4, OpenedFine, FineFirm
<1>6. FetchStreamEnd(s) = Add(Reset([s EXCEPT !.mark = k]), "stream-end", Empty)
  BY <1>1, <1>2 DEF FetchStreamEnd
<1>7. "stream-end" \in TokenTypes \ BlockTokens /\ Empty \in ReadSet
  BY KindTypes, EmptyValue
<1> QED BY <1>3, <1>5, <1>6, <1>7, AddRests

\* A directive that is not known leaves the scanner where it stands.
LEMMA DocumentRests ==
  ASSUME NEW s, Poised(s), NEW x \in LexemeSet, s.mark = PlaceOf(x), x.kind \in Kinds
  PROVE  /\ Rests(FetchDirective(s, x), PlaceOf(x)) \/ Rests(FetchDirective(s, x), PastOf(x))
         /\ Rests(FetchDocumentIndicator(s, x), PastOf(x))
<1>1. /\ x.kind \in TokenTypes \ BlockTokens /\ "directive" \in TokenTypes \ BlockTokens
      /\ x.value \in ReadSet /\ Empty \in ReadSet
  <2>1. "directive" \in Kinds
    BY DEF Kinds
  <2> QED BY <2>1, KindTypes, LexemeFacts, EmptyValue
<1>2. PICK n, m : n = NextToken(s) + 1 /\ m = PlaceOf(x)
  OBVIOUS
<1>3. Fine(s, n, m) /\ Rests(s, m)
  BY <1>2, PoisedFine
<1>4. Firm(Reset(s), n, m)
  BY <1>3, OpenedFine, FineFirm
<1>5. Rests(FetchDocumentIndicator(s, x), PastOf(x))
  BY <1>1, <1>2, <1>4, PastRests DEF FetchDocumentIndicator
<1>6. Rests(Add(Past(Reset(s), x), "directive", x.value), PastOf(x))
  BY <1>1, <1>2, <1>4, PastRests
<1>7. \A why : Rests(Fail(s, why), m)
  <2> TAKE why
  <2>1. PICK q : q = Fail(s, why)
    OBVIOUS
  <2>2. DOMAIN s = ScannerFields /\ s.error = "none" /\ Sound(s) /\ NextToken(s) \in Nat
    BY NumberFacts DEF Poised
  <2>3. /\ q.keys = s.keys /\ q.byTok = s.byTok /\ q.mark = s.mark /\ q.parsed = s.parsed
        /\ q.available = s.available /\ q.tokens = s.tokens /\ q.allowed = s.allowed
    BY <2>1, <2>2 DEF Fail, ScannerFields
  <2>4. Sound(q) /\ NextToken(q) = NextToken(s)
    BY <2>1, <2>2, <2>3, StaysSound DEF NextToken
  <2>5. Firm(q, NextToken(s), m)
    <3>1. Firm(s, NextToken(s), m)
      BY <1>3 DEF Rests
    <3>2. NextToken(s) \in Int /\ NextToken(q) \in Int /\ NextToken(s) <= NextToken(q)
      BY <2>2, <2>4
    <3> QED BY <2>2, <2>3, <2>4, <3>1, <3>2, AlikeFine
  <2> QED BY <2>1, <2>4, <2>5 DEF Rests
<1> QED BY <1>2, <1>5, <1>6, <1>7 DEF FetchDirective

LEMMA ValueRests ==
  ASSUME NEW s, Poised(s), NEW x \in LexemeSet, s.mark = PlaceOf(x)
  PROVE  Rests(FetchValue(s, x), PastOf(x))
<1>1. PICK level, key, t, n, m :
        /\ level = Len(s.keys) /\ key = s.keys[level] /\ t = Token("?", Empty)
        /\ n = NextToken(s) + 1 /\ m = PlaceOf(x)
  OBVIOUS
<1>2. /\ s.parsed \in Nat /\ Len(s.tokens) \in Nat /\ NextToken(s) = s.parsed + Len(s.tokens)
      /\ s.keys \in Seq(KeySet) /\ level \in 1..Len(s.keys) /\ Fine(s, n, m)
  <2>1. Sound(s)
    BY DEF Poised
  <2>2. s.keys \in Seq(KeySet) /\ Len(s.keys) \in Nat \ {0}
    BY <2>1, NumberFacts
  <2> QED BY <1>1, <2>1, <2>2, NumberFacts, SoundFacts, PoisedFine
<1>3. key \in KeySet /\ key.token < NextToken(s)
  <2>1. key \in KeySet
    BY <1>1, <1>2, ElementOfSeq
  <2>2. Numbered(s.keys, NextToken(s))
    BY DEF Poised, Settled, Steady
  <2> QED BY <1>1, <1>2, <2>1, <2>2 DEF Numbered
<1>4. key.token \in Nat /\ key.mark.col \in Int
  BY <1>3 DEF KeySet, Positions
<1>5. t \in TokenSet /\ "block-mapping-start" \in BlockStarts
  <2>1. "?" \in TokenTypes \ BlockTokens
    BY KindTypes
  <2> QED BY <1>1, <2>1, EmptyValue, TokenFacts DEF BlockStarts
<1>6. PICK i : i = Insert(s, key.token - s.parsed, t)
  OBVIOUS
<1>7. Fine(i, n, m) /\ NextToken(i) = NextToken(s) + 1 /\ i.keys = s.keys
  <2>1. key.token - s.parsed \in Int /\ key.token - s.parsed <= Len(s.tokens)
    BY <1>2, <1>3, <1>4
  <2>2. Fine(i, n, m) /\ NextToken(i) = NextToken(s) + 1
    BY <1>2, <1>5, <1>6, <2>1, InsertFine
  <2>3. PICK k : Balanced(s, k)
    BY <1>2, SoundBalanced DEF Fine
  <2> QED BY <1>5, <1>6, <2>1, <2>2, <2>3, InsertBalanced
<1>8. PICK simple : simple = RollIndent(i, key.mark.col, key.token, "block-mapping-start")
  OBVIOUS
<1>9. Fine(simple, n, m) /\ simple.keys = s.keys
  <2>1. key.token \in Int /\ key.token <= NextToken(i)
    BY <1>2, <1>3, <1>4, <1>7
  <2> QED BY <1>4, <1>5, <1>7, <1>8, <2>1, RollFine
<1>10. Firm(Allow(Drop(simple, level), FALSE), n, m)
  <2>1. level \in 1..Len(simple.keys)
    BY <1>2, <1>9
  <2> QED BY <1>9, <2>1, DropFine, PlainFine, FineFirm
<1>11. PICK dead, b : dead = Expire(s, level) /\ b = InBlock(s)
  OBVIOUS
<1>12. ASSUME ~Alive(s, key)
       PROVE  Firm(Allow(Opened(dead, x, "block-mapping-start"), b), n, m)
  <2>1. /\ InBlock(s) => Fine(dead, n, m)
        /\ Firm(Allow(dead, FALSE), n, m)
        /\ InBlock(dead) <=> InBlock(s)
    BY <1>1, <1>11, <1>12, ExpireFirm
  <2>2. CASE InBlock(s)
    BY <1>5, <2>1, <2>2, OpenedFine, PlainFine, FineFirm
  <2>3. CASE ~InBlock(s)
    <3>1. Opened(dead, x, "block-mapping-start") = dead
      BY <2>1, <2>3 DEF Opened
    <3>2. b = FALSE
      BY <1>11, <2>3 DEF InBlock
    <3> QED BY <2>1, <3>1, <3>2
  <2> QED BY <2>2, <2>3
<1>13. PICK q : q = IF Alive(s, key) THEN Allow(Drop(simple, level), FALSE)
                    ELSE Allow(Opened(dead, x, "block-mapping-start"), b)
  OBVIOUS
<1>14. Firm(q, n, m)
  BY <1>10, <1>12, <1>13
<1>15. FetchValue(s, x) = Add(Past(q, x), ":", Empty)
  BY <1>1, <1>6, <1>8, <1>11, <1>13 DEF FetchValue
<1>16. ":" \in TokenTypes \ BlockTokens
  BY KindTypes
<1> QED BY <1>1, <1>14, <1>15, <1>16, PastRests, EmptyValue

\* A token is fetched.  The scanner stands where the lexeme ends, unless the lines
\* below a block scalar are none of the scalar.
LEMMA FetchRests ==
  ASSUME NEW s, Poised(s), NEW x \in LexemeSet, Upto(s.mark, PlaceOf(x)),
         x.kind = "literal" => x.down >= 1,
         NEW r, r = UnrollIndent(Reached(s, x), x.col), NEW q, q = FetchNextToken(s, x)
  PROVE  /\ Rests(q, q.mark) /\ q.mark \in Positions
         /\ x.kind # "end" => Upto(q.mark, EndOf(x))
         /\ x.kind = "literal" /\ ~Taken(r, x) => q.mark = Mark(x.line + 1, 0)
<1>1. Poised(r) /\ r.mark = PlaceOf(x) /\ s.started
  BY PoisedAt DEF Poised, Sound
<1>2. /\ PlaceOf(x) \in Positions /\ PastOf(x) \in Positions /\ EndOf(x) \in Positions
      /\ Upto(PlaceOf(x), PastOf(x)) /\ Upto(PastOf(x), PastOf(x))
  BY PlacesOf, UptoFacts
<1>3. \A m : Rests(q, m) => q.mark = m
  BY DEF Rests, Firm
<1>4. CASE x.kind = "end"
  <2>1. Fine([r EXCEPT !.ended = TRUE], NextToken(r) + 1, PlaceOf(x))
    BY <1>1, PoisedFine, PlainFine
  <2>2. q = FetchStreamEnd([r EXCEPT !.ended = TRUE])
    BY <1>1, <1>4 DEF FetchNextToken
  <2>3. Rests(q, Foot(PlaceOf(x))) /\ Foot(PlaceOf(x)) \in Positions
    BY <1>2, <2>1, <2>2, EndRests
  <2> QED BY <1>3, <1>4, <2>3
<1>5. CASE x.kind = "literal"
  <2>1. q = FetchBlockScalar(r, x)
    BY <1>1, <1>5 DEF FetchNextToken
  <2>2. PICK k : k = Mark(IF Taken(r, x) THEN x.line + x.down ELSE x.line + 1, 0)
    OBVIOUS
  <2>3. Rests(q, k)
    BY <1>1, <1>5, <2>1, <2>2, ScalarRests
  <2>4. k \in Positions /\ Upto(k, EndOf(x)) /\ (~Taken(r, x) => k = Mark(x.line + 1, 0))
    <3>1. x.line \in Nat /\ x.down \in Nat /\ x.line + x.down \in Nat /\ x.line + 1 \in Nat
          /\ x.down >= 1
      BY <1>5, LexemeFacts
    <3>2. \A l, c : Mark(l, c).line = l /\ Mark(l, c).col = c
      BY DEF Mark
    <3>3. EndOf(x) = Mark(x.line + x.down, 0)
      BY <1>5 DEF EndOf
    <3>4. k.col = 0 /\ EndOf(x).col = 0 /\ EndOf(x).line = x.line + x.down
          /\ k.line \in {x.line + x.down, x.line + 1}
      BY <2>2, <3>2, <3>3
    <3>5. Upto(k, EndOf(x))
      BY <3>1, <3>4 DEF Upto
    <3> QED BY <2>2, <3>1, <3>5, MarkType
  <2> QED BY <1>3, <1>5, <2>3, <2>4
<1>6. CASE x.kind \notin {"end", "literal"}
  <2>1. x.kind \in Kinds
    BY <1>6, LexemeFacts
  <2>2. EndOf(x) = PastOf(x)
    BY <1>6 DEF EndOf
  <2>3. /\ Rests(FetchFlowStart(r, x), PastOf(x)) /\ Rests(FetchFlowEnd(r, x), PastOf(x))
        /\ Rests(FetchFlowEntry(r, x), PastOf(x)) /\ Rests(FetchBlockEntry(r, x), PastOf(x))
        /\ Rests(FetchKey(r, x), PastOf(x)) /\ Rests(FetchValue(r, x), PastOf(x))
        /\ Rests(FetchQuoted(r, x), PastOf(x)) /\ Rests(FetchPlain(r, x), PastOf(x))
        /\ Rests(FetchProperty(r, x), PastOf(x)) /\ Rests(FetchDocumentIndicator(r, x), PastOf(x))
        /\ Rests(FetchDirective(r, x), PlaceOf(x)) \/ Rests(FetchDirective(r, x), PastOf(x))
    BY <1>1, <2>1, FlowRests, EntryRests, ValueRests, ScalarRests, DocumentRests
  <2>4. q \in {FetchDirective(r, x), FetchDocumentIndicator(r, x),
               FetchFlowStart(r, x), FetchFlowEnd(r, x), FetchFlowEntry(r, x), FetchBlockEntry(r, x),
               FetchKey(r, x), FetchValue(r, x), FetchQuoted(r, x), FetchPlain(r, x),
               FetchProperty(r, x)}
    BY <1>1, <1>6 DEF FetchNextToken
  <2>5. Rests(q, PlaceOf(x)) \/ Rests(q, PastOf(x))
    BY <2>3, <2>4, Zenon
  <2> QED BY <1>2, <1>3, <1>6, <2>2, <2>5
<1> QED BY <1>4, <1>5, <1>6

\* The indentation that is left: it does not depend on the place.
KeptLevel(levels, m, col) ==
  CHOOSE k \in 1..m : levels[k] <= col /\ \A l \in k + 1..m : levels[l] > col
LeftIndent(indents, indent, flow, col) ==
  IF flow > 0 THEN indent
  ELSE Append(indents, indent)[KeptLevel(Append(indents, indent), Len(indents) + 1, col)]

LEMMA IndentLeft ==
  ASSUME NEW s, Sound(s), NEW col \in Int, -1 <= col
  PROVE  UnrollIndent(s, col).indent = LeftIndent(s.indents, s.indent, FlowLevel(s), col)
<1>1. /\ DOMAIN s = ScannerFields /\ s.tokens \in Seq(TokenSet) /\ Len(s.tokens) \in Nat
      /\ s.indents \in Seq(Int) /\ s.indent \in Int /\ Len(s.indents) \in Nat
  BY SoundFacts
<1>2. PICK levels, m : levels = Append(s.indents, s.indent) /\ m = Len(s.indents) + 1
  OBVIOUS
<1>3. /\ levels \in Seq(Int) /\ Len(levels) = m /\ m \in Nat /\ m >= 1
      /\ \A i \in 1..m : levels[i] \in Int
  <2>1. levels \in Seq(Int) /\ Len(levels) = m
    BY <1>1, <1>2, AppendProperties
  <2> QED BY <1>1, <1>2, <2>1, ElementOfSeq
<1>5. PICK keep : keep = CHOOSE k \in 1..m :
                           /\ levels[k] <= col
                           /\ \A l \in k + 1..m : levels[l] > col
  OBVIOUS
<1>6. keep = KeptLevel(levels, m, col)
  BY <1>5 DEF KeptLevel
<1>7. PICK ends, r :
        /\ ends = [k \in 1..m - keep |-> Token("block-end", Empty)]
        /\ r = [s EXCEPT !.indent = levels[keep], !.indents = SubSeq(levels, 1, keep - 1),
                         !.tokens = s.tokens \o ends]
  OBVIOUS
<1>8. UnrollIndent(s, col) = IF FlowLevel(s) > 0 THEN s ELSE r
  BY <1>2, <1>3, <1>5, <1>7 DEF UnrollIndent
<1>9. r.indent = levels[keep]
  BY <1>1, <1>7 DEF ScannerFields
<1> QED BY <1>2, <1>6, <1>8, <1>9 DEF LeftIndent

LEMMA TakenThere ==
  ASSUME NEW s, Sound(s), NEW x \in LexemeSet
  PROVE  Taken(UnrollIndent(s, x.col), x) <=> Taken(UnrollIndent(Reached(s, x), x.col), x)
<1>1. PICK q, col : q = Reached(s, x) /\ col = x.col
  OBVIOUS
<1>2. q.keys = s.keys /\ q.indents = s.indents /\ q.indent = s.indent /\ Sound(q)
  BY <1>1, NumberFacts, StaysSound DEF Reached, ScannerFields
<1>3. col \in Int /\ -1 <= col
  BY <1>1, LexemeFacts
<1>4. UnrollIndent(s, col).indent = LeftIndent(s.indents, s.indent, FlowLevel(s), col)
  BY <1>3, IndentLeft
<1>5. UnrollIndent(q, col).indent = LeftIndent(q.indents, q.indent, FlowLevel(q), col)
  BY <1>2, <1>3, IndentLeft
<1>6. UnrollIndent(q, col).indent = UnrollIndent(s, col).indent
  BY <1>2, <1>4, <1>5 DEF FlowLevel
<1> QED BY <1>1, <1>6 DEF Taken, ContentIndent

-----------------------------------------------------------------------------
(* The queue begins, and is offered and taken.                             *)

LEMMA StartRests == Rests(FetchStreamStart(NewScanner), Mark(0, 0))
<1>1. PICK t, p, q :
        /\ t = Token("stream-start", Empty)
        /\ p = [NewScanner EXCEPT !.keys = <<NoKey>>, !.allowed = TRUE, !.started = TRUE]
        /\ q = Insert(p, -1, t)
  OBVIOUS
<1>2. q = FetchStreamStart(NewScanner)
  BY <1>1 DEF FetchStreamStart, Add
<1>3. /\ q.mark = Mark(0, 0) /\ q.keys = <<NoKey>> /\ q.byTok = <<>> /\ q.parsed = 0
      /\ q.tokens = Append(<<>>, t) /\ q.available = FALSE
  <2>1. /\ DOMAIN p = ScannerFields /\ p.mark = Mark(0, 0) /\ p.tokens = <<>>
        /\ p.parsed = 0 /\ p.keys = <<NoKey>> /\ p.byTok = <<>> /\ p.available = FALSE
    BY <1>1 DEF NewScanner, ScannerFields
  <2>2. /\ q.mark = p.mark /\ q.keys = p.keys /\ q.byTok = p.byTok /\ q.parsed = p.parsed
        /\ q.tokens = Append(p.tokens, t) /\ q.available = p.available
    BY <1>1, <2>1 DEF Insert, ScannerFields
  <2> QED BY <2>1, <2>2
<1>4. Sound(q)
  BY <1>2, StartBalanced DEF Balanced
<1>5. NextToken(q) = 1 /\ Floor(q) = 0
  <2>1. Len(Append(<<>>, t)) = 1
    OBVIOUS
  <2> QED BY <1>3, <2>1 DEF NextToken, Floor
<1>6. PICK key : key = NoKey
  OBVIOUS
<1>7. /\ q.keys \in Seq(KeySet) /\ Len(q.keys) = 1 /\ q.keys[1] = key
      /\ key.mark = Mark(0, 0) /\ key.token = 0 /\ key.possible = FALSE
  <2>1. Len(q.keys) = 1 /\ q.keys[1] = key
    BY <1>3, <1>6
  <2> QED BY <1>4, <1>6, <2>1, NumberFacts DEF NoKey
<1>8. DOMAIN q.byTok = {}
  BY <1>3
<1>9. Mark(0, 0) \in Positions /\ Upto(Mark(0, 0), Mark(0, 0))
  BY MarkType, UptoFacts
<1>10. Marked(q.keys, q.mark)
  BY <1>3, <1>7, <1>9 DEF Marked
<1>11. Numbered(q.keys, 1)
  BY <1>7 DEF Numbered
<1>12. Indexed(q.keys, q.byTok, q.parsed) /\ Held(q.keys, q.byTok, Floor(q), q.mark)
  BY <1>8 DEF Indexed, Held
<1>13. Spent(q.keys, q.byTok, Floor(q), q.mark, 1, q.allowed)
  BY <1>8 DEF Spent
<1>14. Settled(q, NextToken(q))
  BY <1>5, <1>10, <1>11, <1>12, <1>13 DEF Settled, Steady
<1> QED BY <1>2, <1>3, <1>4, <1>14 DEF Rests, Firm

\* The head of the queue may be given away when no key that is alive begins there.
LEMMA HeadFree ==
  ASSUME NEW s, Sound(s), Settled(s, NextToken(s)), ~s.available, ~MustFetch(s)
  PROVE  /\ Held(s.keys, s.byTok, s.parsed + 1, s.mark)
         /\ Spent(s.keys, s.byTok, s.parsed + 1, s.mark, NextToken(s), s.allowed)
         /\ HeadKey(s) # 0 => /\ HeadKey(s) \in 1..Len(s.keys) /\ s.parsed \in DOMAIN s.byTok
                              /\ HeadKey(s) >= 2 => s.keys[HeadKey(s)].token = s.parsed
<1>1. /\ s.parsed \in Nat /\ s.keys \in Seq(KeySet) /\ Len(s.keys) \in Nat \ {0}
      /\ Floor(s) = s.parsed
  BY NumberFacts DEF Floor
<1>2. /\ Indexed(s.keys, s.byTok, s.parsed) /\ Held(s.keys, s.byTok, s.parsed, s.mark)
      /\ Spent(s.keys, s.byTok, s.parsed, s.mark, NextToken(s), s.allowed)
  BY <1>1 DEF Settled, Steady
<1>3. PICK h : h = HeadKey(s)
  OBVIOUS
<1>4. h # 0 => /\ h \in 1..Len(s.keys) /\ s.parsed \in DOMAIN s.byTok /\ h = s.byTok[s.parsed]
               /\ h >= 2 => s.keys[h].token = s.parsed
  <2> SUFFICES ASSUME h # 0
               PROVE  /\ h \in 1..Len(s.keys) /\ s.parsed \in DOMAIN s.byTok /\ h = s.byTok[s.parsed]
                      /\ h >= 2 => s.keys[h].token = s.parsed
    OBVIOUS
  <2>1. s.parsed \in DOMAIN s.byTok /\ h = s.byTok[s.parsed]
    BY <1>3 DEF HeadKey
  <2>2. h \in Nat \ {0} /\ (h >= 2 => h <= Len(s.keys) /\ s.keys[h].token = s.parsed)
    BY <1>1, <1>2, <2>1 DEF Indexed
  <2> QED BY <1>1, <2>1, <2>2
<1>5. ASSUME NEW l \in 1..Len(s.keys), s.keys[l].possible, InReach(s.mark, s.keys[l]),
             s.keys[l].token \in DOMAIN s.byTok
      PROVE  s.keys[l].token >= s.parsed + 1
  <2>1. s.keys[l].token >= s.parsed /\ s.keys[l].token \in Nat
    BY <1>2, <1>5 DEF Held, Indexed
  <2>2. ASSUME s.keys[l].token = s.parsed PROVE FALSE
    <3>1. s.parsed \in DOMAIN s.byTok /\ s.byTok[s.parsed] = l
      BY <1>2, <1>5, <2>2 DEF Indexed
    <3>2. h = l
      BY <1>3, <3>1 DEF HeadKey
    <3>3. Alive(s, s.keys[l])
      BY <1>5 DEF Alive, InReach
    <3>4. h # 0
      BY <3>2
    <3> QED BY <1>3, <3>2, <3>3, <3>4 DEF MustFetch
  <2> QED BY <1>1, <2>1, <2>2
<1>6. Held(s.keys, s.byTok, s.parsed + 1, s.mark)
  BY <1>5 DEF Held
<1>7. ASSUME NEW t \in DOMAIN s.byTok, Outlived(s.keys, s.byTok, s.parsed + 1, s.mark, t)
      PROVE  Outlived(s.keys, s.byTok, s.parsed, s.mark, t)
  <2>1. t \in Nat
    BY <1>2 DEF Indexed
  <2> QED BY <1>1, <1>7, <2>1 DEF Outlived
<1>8. Spent(s.keys, s.byTok, s.parsed + 1, s.mark, NextToken(s), s.allowed)
  BY <1>2, <1>7 DEF Spent
<1> QED BY <1>3, <1>4, <1>6, <1>8

LEMMA OfferRests ==
  ASSUME NEW s, Sound(s), s.error = "none", Settled(s, NextToken(s)), ~s.available, ~MustFetch(s)
  PROVE  Rests(Offer(s), s.mark)
<1>1. /\ s.parsed \in Nat /\ s.keys \in Seq(KeySet) /\ Len(s.keys) \in Nat \ {0}
      /\ DOMAIN s = ScannerFields /\ NextToken(s) \in Nat
  BY NumberFacts
<1>2. PICK h, n, r, q :
        /\ h = HeadKey(s) /\ n = NextToken(s) /\ r = IF h = 0 THEN s ELSE Expire(s, h)
        /\ q = [r EXCEPT !.available = TRUE]
  OBVIOUS
<1>3. q = Offer(s)
  BY <1>2 DEF Offer
<1>4. /\ Held(s.keys, s.byTok, s.parsed + 1, s.mark) /\ Steady(s, n)
      /\ Spent(s.keys, s.byTok, s.parsed + 1, s.mark, n, s.allowed)
      /\ h # 0 => /\ h \in 1..Len(s.keys) /\ s.parsed \in DOMAIN s.byTok
                  /\ h >= 2 => s.keys[h].token = s.parsed
  BY <1>2, HeadFree DEF Settled
<1>5. Sound(q)
  <2>1. PICK k : Balanced(s, k)
    BY SoundBalanced
  <2> QED BY <1>3, <2>1, OfferBalanced DEF Balanced
<1>6. ASSUME r.keys = s.keys, r.byTok = s.byTok, r.mark = s.mark, r.parsed = s.parsed,
             r.tokens = s.tokens, r.allowed = s.allowed, DOMAIN r = ScannerFields
      PROVE  Firm(q, n, s.mark) /\ NextToken(q) = n
  <2>1. /\ q.keys = s.keys /\ q.byTok = s.byTok /\ q.mark = s.mark /\ q.parsed = s.parsed
        /\ q.tokens = s.tokens /\ q.allowed = s.allowed /\ q.available = TRUE
    BY <1>2, <1>6 DEF ScannerFields
  <2>2. Floor(q) = s.parsed + 1 /\ NextToken(q) = n
    BY <1>2, <2>1 DEF Floor, NextToken
  <2>3. Steady(q, n)
    BY <1>2, <1>4, <2>1, <2>2 DEF Steady
  <2>4. Settled(q, n)
    BY <1>4, <2>1, <2>2, <2>3 DEF Settled
  <2> QED BY <1>5, <2>1, <2>2, <2>4 DEF Firm
<1>7. CASE r = s
  BY <1>1, <1>2, <1>3, <1>6, <1>7 DEF Rests
<1>8. CASE r # s /\ s.keys[h].required
  <2>1. PICK why : r = Fail(s, why)
    BY <1>2, <1>8 DEF Expire
  <2>2. /\ r.keys = s.keys /\ r.byTok = s.byTok /\ r.mark = s.mark /\ r.parsed = s.parsed
        /\ r.tokens = s.tokens /\ r.allowed = s.allowed /\ DOMAIN r = ScannerFields
    BY <1>1, <2>1 DEF Fail, ScannerFields
  <2> QED BY <1>2, <1>3, <1>6, <2>2 DEF Rests
<1>9. CASE r # s /\ ~s.keys[h].required
  <2>1. r = Expired(s, h) /\ h # 0
    BY <1>2, <1>9 DEF Expire, Expired
  <2>2. h \in 1..Len(s.keys) /\ (h >= 2 => s.keys[h].token = s.parsed)
    BY <1>4, <2>1
  <2>3. /\ Steady(r, n) /\ r.keys = NoneAt(s.keys, h) /\ r.byTok = s.byTok
        /\ r.mark = s.mark /\ r.parsed = s.parsed
        /\ r.tokens = s.tokens /\ r.error = s.error /\ r.allowed = s.allowed
    BY <1>4, <2>1, <2>2, NoneSteady
  <2>4. DOMAIN r = ScannerFields
    BY <1>1, <2>1 DEF Expired, ScannerFields
  <2>5. /\ q.keys = r.keys /\ q.byTok = s.byTok /\ q.mark = s.mark /\ q.parsed = s.parsed
        /\ q.tokens = s.tokens /\ q.allowed = s.allowed /\ q.available = TRUE
    BY <1>2, <2>3, <2>4 DEF ScannerFields
  <2>6. Floor(q) = s.parsed + 1 /\ NextToken(q) = n /\ NextToken(r) = n
    BY <1>2, <2>3, <2>5 DEF Floor, NextToken
  <2>7. Held(q.keys, q.byTok, Floor(q), q.mark)
    <3>1. PICK keys : keys = q.keys
      OBVIOUS
    <3>2. /\ keys \in Seq(KeySet) /\ Len(keys) = Len(s.keys)
          /\ \A i \in 1..Len(keys) :
               /\ keys[i].mark = s.keys[i].mark /\ keys[i].token = s.keys[i].token
               /\ keys[i].possible => s.keys[i].possible
      BY <1>1, <2>2, <2>3, <2>5, <3>1, NoneFacts
    <3>3. PICK floor, byTok : floor = s.parsed + 1 /\ byTok = s.byTok
      OBVIOUS
    <3>4. /\ Marked(s.keys, s.mark) => Marked(keys, s.mark)
          /\ Numbered(s.keys, n) => Numbered(keys, n)
          /\ Indexed(s.keys, byTok, s.parsed) => Indexed(keys, byTok, s.parsed)
          /\ Held(s.keys, byTok, floor, s.mark) => Held(keys, byTok, floor, s.mark)
      BY <3>2, Fewer
    <3> QED BY <1>4, <2>5, <2>6, <3>1, <3>3, <3>4
  <2>8. ASSUME NEW t \in DOMAIN s.byTok, Outlived(q.keys, s.byTok, s.parsed + 1, s.mark, t)
        PROVE  /\ ~InReach(s.mark, q.keys[s.byTok[t]])
               /\ n >= t + 3 \/ (n >= t + 2 /\ s.byTok[t] = Len(s.keys) /\ ~s.allowed)
    <3>1. s.parsed + 1 \in Nat /\ s.parsed <= s.parsed + 1
          /\ Outlived(NoneAt(s.keys, h), s.byTok, s.parsed + 1, s.mark, t)
      BY <1>1, <2>3, <2>5, <2>8
    <3>2. /\ t \in Nat /\ t >= s.parsed + 1 /\ s.byTok[t] \in 1..Len(s.keys) /\ s.byTok[t] >= 2
          /\ s.keys[s.byTok[t]].token = t
          /\ Outlived(s.keys, s.byTok, s.parsed + 1, s.mark, t) \/ s.byTok[t] = h
          /\ InReach(s.mark, NoneAt(s.keys, h)[s.byTok[t]]) => InReach(s.mark, s.keys[s.byTok[t]])
      BY <1>4, <2>2, <3>1, NoneOutlived
    <3>3. s.byTok[t] # h
      <4>1. s.byTok[t] = h => t = s.parsed
        BY <2>2, <3>2
      <4> QED BY <1>1, <3>2, <4>1
    <3> QED BY <1>4, <2>3, <2>5, <3>2, <3>3 DEF Spent
  <2>9. Len(q.keys) = Len(s.keys)
    BY <1>1, <2>2, <2>3, <2>5, NoneFacts
  <2>10. Spent(q.keys, q.byTok, Floor(q), q.mark, n, q.allowed)
    BY <2>5, <2>6, <2>8, <2>9 DEF Spent
  <2>11. Steady(q, n)
    BY <2>3, <2>5, <2>6, <2>7 DEF Steady
  <2> QED BY <1>3, <1>5, <2>5, <2>6, <2>10, <2>11 DEF Rests, Firm, Settled
<1> QED BY <1>7, <1>8, <1>9

LEMMA TakeRests ==
  ASSUME NEW s, Rests(s, s.mark), s.available, s.tokens # <<>>
  PROVE  Rests(Take(s), s.mark)
<1>1. /\ Sound(s) /\ DOMAIN s = ScannerFields /\ s.parsed \in Nat
      /\ s.tokens \in Seq(TokenSet) /\ Len(s.tokens) \in Nat
  BY SoundFacts DEF Rests, Firm
<1>2. PICK q : q = Take(s)
  OBVIOUS
<1>3. /\ q.keys = s.keys /\ q.byTok = s.byTok /\ q.mark = s.mark /\ q.parsed = s.parsed + 1
      /\ q.tokens = Tail(s.tokens) /\ q.allowed = s.allowed /\ q.available = FALSE
      /\ q.error = s.error
  BY <1>1, <1>2 DEF Take, ScannerFields
<1>4. Len(q.tokens) = Len(s.tokens) - 1
  BY <1>1, <1>3, HeadTailProperties
<1>5. Floor(q) = Floor(s) /\ NextToken(q) = NextToken(s)
  BY <1>1, <1>3, <1>4 DEF Floor, NextToken
<1>6. Sound(q)
  <2>1. PICK k : Balanced(s, k)
    BY <1>1, SoundBalanced
  <2> QED BY <1>2, <2>1, TakeBalanced DEF Balanced
<1>7. ASSUME q.error = "none" PROVE Settled(q, NextToken(q))
  <2>1. Settled(s, NextToken(s))
    BY <1>3, <1>7 DEF Rests, Firm
  <2>2. Indexed(s.keys, s.byTok, s.parsed + 1)
    <3>1. Indexed(s.keys, s.byTok, s.parsed)
      BY <2>1 DEF Settled, Steady
    <3>2. \A t \in DOMAIN s.byTok : t \in Nat /\ (t >= s.parsed + 1 => t >= s.parsed)
      BY <1>1, <3>1 DEF Indexed
    <3> QED BY <3>1, <3>2 DEF Indexed
  <2> QED BY <1>3, <1>5, <2>1, <2>2 DEF Settled, Steady
<1> QED BY <1>2, <1>3, <1>6, <1>7 DEF Rests, Firm

-----------------------------------------------------------------------------
(* The text lies in front of the scanner, one lexeme behind the other.     *)

LexemeFields == {"kind", "value", "line", "col", "width", "down", "inner", "hint", "chomp", "trail"}

\* A lexeme of a text at the place p: a block scalar has lines below its header.
Lies(x, p) == x.kind # "end" /\ PlaceOf(x) = p /\ (x.kind = "literal" => x.down >= 2)
Follow(s, m) ==
  /\ \A i \in 1..Len(s) : Lies(s[i], PlaceOf(s[i])) /\ Upto(m, PlaceOf(s[i]))
  /\ \A i, j \in 1..Len(s) : i < j => Upto(EndOf(s[i]), PlaceOf(s[j]))

LEMMA AtFacts ==
  ASSUME NEW kind, NEW value, NEW p \in Positions, NEW width
  PROVE  LET x == At(kind, value, p, width)
         IN /\ DOMAIN x = LexemeFields /\ x.kind = kind /\ PlaceOf(x) = p
            /\ x.line = p.line /\ x.col = p.col
<1>1. PICK x : x = At(kind, value, p, width)
  OBVIOUS
<1>2. DOMAIN x = LexemeFields /\ x.kind = kind /\ x.line = p.line /\ x.col = p.col
  BY <1>1 DEF At, Lexeme, LexemeFields
<1>3. PlaceOf(x) = p
  BY <1>2 DEF PlaceOf, Positions, Mark
<1> QED BY <1>1, <1>2, <1>3

LEMMA GivenLies ==
  ASSUME NEW p \in Positions, NEW x \in LexemesAt(p)
  PROVE  Lies(x, p)
<1>1. \A kind : kind # "literal" => \A value, width : Lies(At(kind, value, p, width), p) \/ kind = "end"
  BY AtFacts DEF Lies
<1>2. \A y, b, line, col : DOMAIN y = LexemeFields /\ y.kind # "literal" /\ Lies(y, p) =>
        Lies([y EXCEPT !.trail = b], p) /\ Lies([y EXCEPT !.down = 1], p)
  BY DEF Lies, PlaceOf, LexemeFields
<1>3. ASSUME NEW kind \in {"plain", "quoted", "anchor", "alias", "tag", "directive"}, NEW value, NEW width,
             NEW y, y = At(kind, value, p, width)
      PROVE  /\ Lies(y, p) /\ Lies([y EXCEPT !.down = 1], p)
             /\ \A b : Lies([y EXCEPT !.trail = b], p)
  <2>1. y = At(kind, value, p, width)
    BY <1>3
  <2>2. DOMAIN y = LexemeFields /\ y.kind = kind /\ kind # "literal" /\ kind # "end"
    BY <2>1, AtFacts
  <2>3. Lies(y, p)
    BY <1>1, <2>1, <2>2
  <2> QED BY <1>2, <2>1, <2>2, <2>3
<1>4. CASE x \in Marks(p) \/ x \in Boundaries(p)
  <2>1. PICK kind \in Indicators \cup {"---", "..."} : \E width : x = At(kind, Empty, p, width)
    BY <1>4 DEF Marks, Boundaries
  <2>2. kind # "literal" /\ kind # "end"
    BY DEF Indicators
  <2> QED BY <1>1, <2>1, <2>2
<1>5. CASE x \in Quoted(p)
  <2>1. PICK kind, y : /\ kind \in {"plain", "quoted", "anchor", "alias", "tag", "directive"}
                       /\ kind = "quoted" /\ y = At(kind, Short, p, 3)
    OBVIOUS
  <2>2. x = y \/ x = [y EXCEPT !.down = 1]
    BY <1>5, <2>1 DEF Quoted
  <2>3. Lies(y, p) /\ Lies([y EXCEPT !.down = 1], p)
    BY <1>3, <2>1
  <2> QED BY <2>2, <2>3
<1>6. CASE x \in Plains(p)
  <2>1. PICK kind, y : /\ kind \in {"plain", "quoted", "anchor", "alias", "tag", "directive"}
                       /\ kind = "plain" /\ y = At(kind, Short, p, 2)
    OBVIOUS
  <2>2. \E b \in BOOLEAN : x = [y EXCEPT !.trail = b]
    BY <1>6, <2>1 DEF Plains
  <2>3. \A b : Lies([y EXCEPT !.trail = b], p)
    BY <1>3, <2>1
  <2> QED BY <2>2, <2>3
<1>7. CASE x \in Anchors(p)
  <2>1. PICK kind \in {"anchor", "alias", "tag", "directive"} :
          \E value, width : x = At(kind, value, p, width)
    BY <1>7 DEF Anchors
  <2> QED BY <1>3, <2>1
<1>8. CASE x \in Tags(p)
  <2>1. PICK kind \in {"anchor", "alias", "tag", "directive"} :
          \E value, width : x = At(kind, value, p, width)
    BY <1>8 DEF Tags
  <2> QED BY <1>3, <2>1
<1>9. CASE x \in Directed(p)
  <2>1. PICK kind \in {"anchor", "alias", "tag", "directive"} :
          \E value, width : x = At(kind, value, p, width)
    BY <1>9 DEF Directed
  <2> QED BY <1>3, <2>1
<1>10. CASE x \in Literals(p)
  <2>1. PICK t \in BOOLEAN, c \in Columns, h \in {0, 2} :
          x = Headed(At("literal", [Short EXCEPT !.tab = t], p, 1), c, h)
    BY <1>10, LiteralHeaded
  <2>3. PICK y : y = At("literal", [Short EXCEPT !.tab = t], p, 1)
    OBVIOUS
  <2>2. x = Headed(y, c, h)
    BY <2>1, <2>3
  <2>4. DOMAIN y = LexemeFields /\ y.line = p.line /\ y.col = p.col /\ PlaceOf(y) = p
        /\ y.kind = "literal"
    BY <2>3, AtFacts
  <2>5. x.down = 2 /\ x.line = y.line /\ x.col = y.col /\ x.kind = y.kind
    BY <2>2, <2>3, <2>4 DEF Headed, LexemeFields
  <2>6. PlaceOf(x) = p
    BY <2>4, <2>5 DEF PlaceOf
  <2> QED BY <2>4, <2>5, <2>6 DEF Lies
<1> QED BY <1>4, <1>5, <1>6, <1>7, <1>8, <1>9, <1>10, Zenon DEF LexemesAt

LEMMA UpcomingLies ==
  ASSUME text \in Seq(LexemeSet), scanner.mark \in Positions, Follow(text, scanner.mark),
         NEW x \in Upcoming
  PROVE  Upto(scanner.mark, PlaceOf(x)) /\ (x.kind = "literal" => x.down >= 2)
         /\ (text # <<>> => x = Head(text))
<1>1. /\ scanner.mark.line \in Nat /\ scanner.mark.col \in Nat
      /\ scanner.mark = Mark(scanner.mark.line, scanner.mark.col)
  BY DEF Positions, Mark
<1>2. Upto(scanner.mark, scanner.mark)
  BY UptoFacts
<1>3. CASE text # <<>>
  <2>1. 1 \in 1..Len(text) /\ x = text[1] /\ x = Head(text)
    <3>1. x = Head(text)
      BY <1>3 DEF Upcoming
    <3>2. Len(text) \in Nat /\ Len(text) # 0
      BY <1>3, LenProperties, EmptySeq
    <3> QED BY <1>3, <3>1, <3>2
  <2> QED BY <2>1 DEF Follow, Lies
<1>4. CASE text = <<>> /\ x \in Continuations
  <2>1. PICK p \in Places(scanner.mark) : x \in LexemesAt(p) /\ x.kind \in given
    BY <1>4 DEF Continuations
  <2>2. p \in Positions
    BY <2>1, PlacesType
  <2>3. Lies(x, p)
    BY <2>1, <2>2, GivenLies
  <2>4. Upto(scanner.mark, p)
    <3>1. \A c \in Columns : c \in Nat
      BY YamlAssumption
    <3>2. \A l, c : Mark(l, c).line = l /\ Mark(l, c).col = c
      BY DEF Mark
    <3> QED BY <1>1, <2>1, <3>1, <3>2 DEF Places, Upto
  <2> QED BY <1>4, <2>3, <2>4 DEF Lies
<1>5. CASE text = <<>> /\ x = Lexeme("end", Empty, scanner.mark.line, scanner.mark.col, 0, 0)
  <2>1. x.kind = "end" /\ x.line = scanner.mark.line /\ x.col = scanner.mark.col
    BY <1>5 DEF Lexeme
  <2>2. PlaceOf(x) = scanner.mark
    BY <1>1, <2>1 DEF PlaceOf
  <2> QED BY <1>2, <1>5, <2>1, <2>2
<1> QED BY <1>3, <1>4, <1>5 DEF Upcoming

LEMMA FollowLater ==
  ASSUME NEW s \in Seq(LexemeSet), NEW m \in Positions, NEW k \in Positions, Upto(k, m), Follow(s, m)
  PROVE  Follow(s, k)
<1>1. \A i \in 1..Len(s) : PlaceOf(s[i]) \in Positions
  BY ElementOfSeq, PlacesOf
<1>2. \A i \in 1..Len(s) : Upto(k, PlaceOf(s[i]))
  BY <1>1, UptoFacts DEF Follow
<1> QED BY <1>2 DEF Follow

LEMMA LiesWithin ==
  ASSUME NEW x \in LexemeSet, Lies(x, PlaceOf(x))
  PROVE  Upto(PlaceOf(x), EndOf(x))
<1>1. CASE x.kind # "literal"
  BY <1>1, PlacesOf DEF EndOf
<1>2. CASE x.kind = "literal"
  <2>1. x.line \in Nat /\ x.down \in Nat /\ x.down >= 2
    BY <1>2, LexemeFacts DEF Lies
  <2>2. PlaceOf(x).line = x.line /\ EndOf(x).line = x.line + x.down
    BY <1>2 DEF PlaceOf, EndOf, Mark
  <2> QED BY <2>1, <2>2 DEF Upto
<1> QED BY <1>1, <1>2

LEMMA FollowTail ==
  ASSUME NEW s \in Seq(LexemeSet), NEW m, s # <<>>, Follow(s, m)
  PROVE  Follow(Tail(s), EndOf(Head(s))) /\ Tail(s) \in Seq(LexemeSet) /\ Head(s) \in LexemeSet
<1>1. PICK t, n : t = Tail(s) /\ n = Len(s)
  OBVIOUS
<1>2. /\ t \in Seq(LexemeSet) /\ n \in Nat \ {0} /\ Len(t) = n - 1 /\ Head(s) = s[1]
      /\ \A i \in 1..Len(t) : t[i] = s[i + 1]
      /\ Head(s) \in LexemeSet
  BY <1>1, HeadTailProperties, LenProperties, EmptySeq
<1>3. \A i \in 1..Len(t) : i + 1 \in 1..n /\ 1 \in 1..n /\ 1 < i + 1
  BY <1>2
<1>4. \A i \in 1..Len(t) : Lies(t[i], PlaceOf(t[i])) /\ Upto(EndOf(s[1]), PlaceOf(t[i]))
  BY <1>1, <1>2, <1>3 DEF Follow
<1>5. \A i, j \in 1..Len(t) : i < j => Upto(EndOf(t[i]), PlaceOf(t[j]))
  <2> TAKE i, j \in 1..Len(t)
  <2> HAVE i < j
  <2>1. i + 1 \in 1..n /\ j + 1 \in 1..n /\ i + 1 < j + 1
    BY <1>2, <1>3
  <2>2. Upto(EndOf(s[i + 1]), PlaceOf(s[j + 1]))
    BY <1>1, <2>1 DEF Follow
  <2> QED BY <1>2, <2>2
<1> QED BY <1>1, <1>2, <1>4, <1>5 DEF Follow

LEMMA FollowFirst ==
  ASSUME NEW s \in Seq(LexemeSet), NEW m \in Positions, NEW x \in LexemeSet,
         Lies(x, PlaceOf(x)), Upto(m, PlaceOf(x)), Follow(s, EndOf(x))
  PROVE  Follow(<<x>> \o s, m)
<1>1. PICK t, n : t = <<x>> \o s /\ n = Len(s)
  OBVIOUS
<1>2. /\ n \in Nat /\ Len(t) = n + 1 /\ t[1] = x
      /\ \A i \in 1..n + 1 : i # 1 => i - 1 \in 1..n /\ t[i] = s[i - 1]
  <2>1. <<x>> \in Seq(LexemeSet) /\ Len(<<x>>) = 1 /\ <<x>>[1] = x
    OBVIOUS
  <2>2. Len(t) = 1 + n /\ n \in Nat
    BY <1>1, <2>1, ConcatProperties, LenProperties
  <2>3. \A i \in 1..1 + n : t[i] = IF i <= 1 THEN <<x>>[i] ELSE s[i - 1]
    BY <1>1, <2>1, ConcatProperties
  <2> QED BY <2>1, <2>2, <2>3
<1>3. /\ PlaceOf(x) \in Positions /\ EndOf(x) \in Positions
      /\ \A i \in 1..n : s[i] \in LexemeSet /\ PlaceOf(s[i]) \in Positions
  BY <1>1, ElementOfSeq, PlacesOf
<1>4. Upto(PlaceOf(x), EndOf(x))
  BY LiesWithin
<1>5. \A i \in 1..n : Upto(m, PlaceOf(s[i])) /\ Upto(EndOf(x), PlaceOf(s[i])) /\ Lies(s[i], PlaceOf(s[i]))
  BY <1>1, <1>3, <1>4, UptoFacts DEF Follow
<1>6. \A i \in 1..Len(t) : Lies(t[i], PlaceOf(t[i])) /\ Upto(m, PlaceOf(t[i]))
  BY <1>2, <1>5
<1>7. \A i, j \in 1..Len(t) : i < j => Upto(EndOf(t[i]), PlaceOf(t[j]))
  <2> TAKE i, j \in 1..Len(t)
  <2> HAVE i < j
  <2>1. j \in 1..n + 1 /\ j # 1 /\ i \in 1..n + 1 /\ i \in Int /\ j \in Int
    BY <1>2
  <2>2. j - 1 \in 1..n /\ t[j] = s[j - 1]
    BY <1>2, <2>1
  <2>3. CASE i = 1
    BY <1>2, <1>5, <2>2, <2>3
  <2>4. CASE i # 1
    <3>1. i - 1 \in 1..n /\ t[i] = s[i - 1] /\ i - 1 < j - 1
      BY <1>2, <2>1, <2>4
    <3> QED BY <1>1, <2>2, <3>1 DEF Follow
  <2> QED BY <2>3, <2>4
<1> QED BY <1>1, <1>6, <1>7 DEF Follow

\* The keys are in order, and the text lies in front of the scanner.
KeysInv == /\ scanner = NewScanner \/ Rests(scanner, scanner.mark)
           /\ Follow(text, scanner.mark)

\* What is left of the text lies behind the place the scanner has come to.
LEMMA FollowFetched ==
  ASSUME scanner.mark \in Positions, Sound(scanner), TextInv, Follow(text, scanner.mark),
         NEW x \in LexemeSet, text # <<>> => x = Head(text), x.kind = "literal" => x.down >= 2,
         NEW m \in Positions, x.kind # "end" => Upto(m, EndOf(x)),
         x.kind = "literal" /\ ~Taken(UnrollIndent(Reached(scanner, x), x.col), x) =>
           m = Mark(x.line + 1, 0)
  PROVE  Follow(Behind(x) \o (IF text = <<>> THEN <<>> ELSE Tail(text)), m)
<1>1. PICK rest : rest = IF text = <<>> THEN <<>> ELSE Tail(text)
  OBVIOUS
<1>2. EndOf(x) \in Positions /\ text \in Seq(LexemeSet)
  BY PlacesOf DEF TextInv
<1>3. rest \in Seq(LexemeSet) /\ Follow(rest, EndOf(x)) /\ (x.kind = "end" => rest = <<>>)
  <2>1. CASE text = <<>>
    <3>1. rest = <<>> /\ <<>> \in Seq(LexemeSet) /\ Len(<<>>) = 0
      BY <1>1, <2>1
    <3>2. Follow(<<>>, EndOf(x))
      BY <3>1 DEF Follow
    <3> QED BY <3>1, <3>2
  <2>2. CASE text # <<>>
    <3>1. rest = Tail(text) /\ x = Head(text)
      BY <1>1, <2>2
    <3>2. rest \in Seq(LexemeSet) /\ Follow(rest, EndOf(x))
      BY <1>2, <2>2, <3>1, FollowTail
    <3>3. x.kind # "end"
      <4>1. 1 \in 1..Len(text) /\ x = text[1]
        <5>1. Len(text) \in Nat /\ Len(text) # 0
          BY <1>2, <2>2, LenProperties, EmptySeq
        <5> QED BY <2>2, <3>1, <5>1
      <4> QED BY <4>1 DEF Follow, Lies
    <3> QED BY <3>2, <3>3
  <2> QED BY <2>1, <2>2
<1>4. Follow(rest, m)
  <2>1. CASE x.kind = "end"
    <3>1. rest = <<>> /\ Len(<<>>) = 0
      BY <1>3, <2>1
    <3> QED BY <3>1 DEF Follow
  <2>2. CASE x.kind # "end"
    BY <1>2, <1>3, <2>2, FollowLater
  <2> QED BY <2>1, <2>2
<1>5. CASE Behind(x) = <<>>
  BY <1>1, <1>3, <1>4, <1>5, ConcatEmptySeq
<1>6. CASE Behind(x) # <<>>
  <2>1. PICK b : b = Below(x, x.line + 1)
    OBVIOUS
  <2>2. /\ Behind(x) = <<b>> /\ x.kind = "literal"
        /\ ~Taken(UnrollIndent(scanner, x.col), x)
    BY <1>6, <2>1 DEF Behind
  <2>3. ~Taken(UnrollIndent(Reached(scanner, x), x.col), x)
    BY <2>2, TakenThere
  <2>4. m = Mark(x.line + 1, 0) /\ x.down >= 2
    BY <2>2, <2>3
  <2>5. x.line \in Nat /\ x.down \in Nat /\ x.inner + x.value.lead \in Nat
    BY LexemeFacts
  <2>6. \A l, c : Mark(l, c).line = l /\ Mark(l, c).col = c
    BY DEF Mark
  <2>7. b \in LexemeSet
    <3>1. Behind(x) \in Seq(LexemeSet)
      BY BehindType
    <3>2. Len(<<b>>) = 1 /\ <<b>>[1] = b /\ 1 \in 1..1
      OBVIOUS
    <3> QED BY <2>2, <3>1, <3>2, ElementOfSeq
  <2>8. /\ b.kind = "plain" /\ b.line = x.line + 1 /\ b.col = x.inner + x.value.lead
        /\ b.trail = TRUE /\ b.down = 0
    <3>1. PICK p, y : p = Mark(x.line + 1, x.inner + x.value.lead) /\ y = At("plain", Short, p, 2)
      OBVIOUS
    <3>2. b = [y EXCEPT !.trail = TRUE]
      BY <2>1, <3>1 DEF Below
    <3>3. /\ DOMAIN y = LexemeFields /\ y.kind = "plain" /\ y.down = 0
          /\ y.line = p.line /\ y.col = p.col
      BY <3>1 DEF At, Lexeme, LexemeFields
    <3> QED BY <2>6, <3>1, <3>2, <3>3 DEF LexemeFields
  <2>9. Lies(b, PlaceOf(b)) /\ Upto(m, PlaceOf(b))
    <3>1. b.kind # "end" /\ b.kind # "literal"
      BY <2>8
    <3>2. /\ PlaceOf(b).line = x.line + 1 /\ PlaceOf(b).col = x.inner + x.value.lead
          /\ m.line = x.line + 1 /\ m.col = 0
      BY <2>4, <2>6, <2>8 DEF PlaceOf
    <3> QED BY <2>5, <3>1, <3>2 DEF Lies, Upto
  <2>10. EndOf(b) = Mark(x.line + 2, 0)
    <3>1. b.kind # "literal"
      BY <2>8
    <3>2. EndOf(b) = PastOf(b)
      BY <3>1 DEF EndOf
    <3>3. PastOf(b) = Mark(b.line + b.down + 1, 0)
      BY <2>8 DEF PastOf
    <3>4. b.line + b.down + 1 = x.line + 2
      BY <2>5, <2>8
    <3> QED BY <3>2, <3>3, <3>4
  <2>11. Upto(EndOf(b), EndOf(x)) /\ EndOf(b) \in Positions
    <3>1. EndOf(x) = Mark(x.line + x.down, 0)
      BY <2>2 DEF EndOf
    <3>2. /\ EndOf(x).line = x.line + x.down /\ EndOf(x).col = 0
          /\ EndOf(b).line = x.line + 2 /\ EndOf(b).col = 0
      BY <2>6, <2>10, <3>1
    <3>3. EndOf(b) \in Positions
      BY <2>7, PlacesOf
    <3> QED BY <2>4, <2>5, <3>2, <3>3 DEF Upto
  <2>12. Follow(rest, EndOf(b))
    BY <1>2, <1>3, <2>11, FollowLater
  <2>13. Follow(<<b>> \o rest, m)
    BY <1>3, <2>7, <2>9, <2>12, FollowFirst
  <2> QED BY <1>1, <2>2, <2>13
<1> QED BY <1>5, <1>6

LEMMA FetchKeys ==
  ASSUME MatchedInv, TextInv, KeysInv, Fetch
  PROVE  KeysInv'
<1>1. ~scanner.available /\ scanner.error = "none" /\ MustFetch(scanner)
  BY Zenon DEF Fetch, Reading
<1>2. PICK x \in Upcoming :
        /\ scanner' = FetchNextToken(scanner, x)
        /\ IF ~scanner.started THEN UNCHANGED <<text, plain, length>>
           ELSE text' = Behind(x) \o (IF text = <<>> THEN <<>> ELSE Tail(text))
  BY Zenon DEF Fetch
<1>3. CASE scanner = NewScanner
  <2>1. ~scanner.started
    BY <1>3, NewScannerFacts
  <2>2. scanner' = FetchStreamStart(NewScanner) /\ text' = text
    BY <1>2, <1>3, <2>1 DEF FetchNextToken
  <2>3. Rests(scanner', Mark(0, 0)) /\ scanner.mark = Mark(0, 0)
    BY <1>3, <2>2, StartRests, NewScannerFacts
  <2>4. scanner'.mark = Mark(0, 0)
    BY <2>3 DEF Rests, Firm
  <2> QED BY <2>2, <2>3, <2>4 DEF KeysInv
<1>4. CASE scanner # NewScanner
  <2>1. /\ Rests(scanner, scanner.mark) /\ Follow(text, scanner.mark) /\ Sound(scanner)
        /\ scanner.mark \in Positions /\ scanner.started /\ text \in Seq(LexemeSet)
    BY <1>4 DEF KeysInv, Rests, Firm, Sound, TextInv
  <2>2. Poised(scanner)
    BY <1>1, <2>1, PoisedToFetch DEF Rests, Firm
  <2>3. /\ x \in LexemeSet /\ Upto(scanner.mark, PlaceOf(x))
        /\ x.kind = "literal" => x.down >= 2
        /\ text # <<>> => x = Head(text)
    BY <1>2, <2>1, UpcomingType, UpcomingLies
  <2>4. x.kind = "literal" => x.down >= 1
    BY <2>3, LexemeFacts
  <2>5. PICK r, q : r = UnrollIndent(Reached(scanner, x), x.col) /\ q = FetchNextToken(scanner, x)
    OBVIOUS
  <2>6. /\ Rests(q, q.mark) /\ q.mark \in Positions
        /\ x.kind # "end" => Upto(q.mark, EndOf(x))
        /\ x.kind = "literal" /\ ~Taken(r, x) => q.mark = Mark(x.line + 1, 0)
    BY <2>2, <2>3, <2>4, <2>5, FetchRests
  <2>7. PICK m : m = q.mark
    OBVIOUS
  <2>8. Follow(Behind(x) \o (IF text = <<>> THEN <<>> ELSE Tail(text)), m)
    BY <2>1, <2>3, <2>5, <2>6, <2>7, FollowFetched
  <2>9. scanner' = q /\ text' = Behind(x) \o (IF text = <<>> THEN <<>> ELSE Tail(text))
    BY <1>2, <2>1, <2>5
  <2> QED BY <2>6, <2>7, <2>8, <2>9 DEF KeysInv
<1> QED BY <1>3, <1>4

LEMMA ReadyKeys ==
  ASSUME KeysInv, Ready
  PROVE  KeysInv'
<1>1. /\ ~MustFetch(scanner) /\ scanner' = Offer(scanner) /\ text' = text
      /\ scanner.error = "none" /\ ~scanner.available
  BY DEF Ready, Reading
<1>2. Rests(scanner, scanner.mark) /\ Follow(text, scanner.mark)
  BY <1>1, NewScannerFacts DEF KeysInv
<1>3. Rests(scanner', scanner.mark)
  BY <1>1, <1>2, OfferRests DEF Rests, Firm
<1>4. scanner'.mark = scanner.mark
  BY <1>3 DEF Rests, Firm
<1> QED BY <1>1, <1>2, <1>3, <1>4 DEF KeysInv

LEMMA ParseKeys ==
  ASSUME MatchedInv, KeysInv, Parse
  PROVE  KeysInv'
<1>1. PICK r : scanner' = IF r.skipped THEN Take(scanner) ELSE scanner
  BY Zenon DEF Parse
<1>2. scanner.available /\ text' = text
  BY DEF Parse
<1>3. Rests(scanner, scanner.mark) /\ Follow(text, scanner.mark) /\ scanner.tokens # <<>>
  BY <1>2, NewScannerFacts DEF KeysInv, MatchedInv
<1>4. Rests(scanner', scanner.mark)
  BY <1>1, <1>2, <1>3, TakeRests
<1>5. scanner'.mark = scanner.mark
  BY <1>4 DEF Rests, Firm
<1> QED BY <1>2, <1>3, <1>4, <1>5 DEF KeysInv

\* Where the keys are in order the index leads to keys that are there, and those that
\* may still be keys have not been given away.
LEMMA KeysSound ==
  ASSUME KeysInv, scanner.error = "none"
  PROVE  /\ HeadKey(scanner) <= Len(scanner.keys)
         /\ \A level \in DOMAIN scanner.keys :
              LET key == scanner.keys[level]
              IN Alive(scanner, key) /\ key.token \in DOMAIN scanner.byTok
                   => key.token >= scanner.parsed
<1>1. CASE scanner = NewScanner
  <2>1. scanner.keys = <<>> /\ scanner.byTok = <<>> /\ scanner.parsed = 0
    BY <1>1 DEF NewScanner
  <2>2. HeadKey(scanner) = 0 /\ Len(scanner.keys) = 0 /\ DOMAIN scanner.keys = {}
    BY <2>1 DEF HeadKey
  <2> QED BY <2>2
<1>2. CASE Rests(scanner, scanner.mark)
  <2>1. /\ Indexed(scanner.keys, scanner.byTok, scanner.parsed)
        /\ Held(scanner.keys, scanner.byTok, Floor(scanner), scanner.mark) /\ Sound(scanner)
    BY <1>2 DEF Rests, Firm, Settled, Steady
  <2>2. /\ scanner.parsed \in Nat /\ Floor(scanner) \in Nat /\ scanner.parsed <= Floor(scanner)
        /\ Len(scanner.keys) \in Nat \ {0} /\ scanner.keys \in Seq(KeySet)
    BY <2>1, NumberFacts
  <2>3. HeadKey(scanner) <= Len(scanner.keys)
    <3>1. CASE scanner.parsed \notin DOMAIN scanner.byTok
      BY <2>2, <3>1 DEF HeadKey
    <3>2. CASE scanner.parsed \in DOMAIN scanner.byTok
      <4>1. PICK h : h = scanner.byTok[scanner.parsed]
        OBVIOUS
      <4>2. h \in Nat \ {0} /\ (h >= 2 => h <= Len(scanner.keys)) /\ HeadKey(scanner) = h
        BY <2>1, <2>2, <3>2, <4>1 DEF Indexed, HeadKey
      <4> QED BY <2>2, <4>2
    <3> QED BY <3>1, <3>2
  <2>4. ASSUME NEW level \in DOMAIN scanner.keys, NEW key, key = scanner.keys[level],
               Alive(scanner, key), key.token \in DOMAIN scanner.byTok
        PROVE  key.token >= scanner.parsed
    <3>1. level \in 1..Len(scanner.keys)
      BY <2>2, LenProperties
    <3>2. key.token >= Floor(scanner) /\ key.token \in Nat
      BY <2>1, <2>4, <3>1 DEF Held, Indexed, Alive, InReach
    <3> QED BY <2>2, <3>2
  <2> QED BY <2>3, <2>4
<1> QED BY <1>1, <1>2 DEF KeysInv

-----------------------------------------------------------------------------
(* The emitter writes one lexeme behind the other.                         *)

\* A text that is written: nothing is broken behind a lexeme, and only a block scalar
\* goes below its line.
Laid(t) ==
  /\ t \in Seq(LexemeSet)
  /\ \A i \in 1..Len(t) : /\ Lies(t[i], PlaceOf(t[i])) /\ ~t[i].trail
                          /\ t[i].kind # "literal" => t[i].down = 0
  /\ \A i, j \in 1..Len(t) : i < j => Upto(EndOf(t[i]), PlaceOf(t[j]))

\* Where the emitter stands behind all of it, or will when it breaks the line, which it
\* does before it writes on: it left a block scalar with no break at the end.
Passed(t, m) == \A i \in 1..Len(t) : Upto(EndOf(t[i]), m)
Clear(e) == Passed(e.text, Mark(e.line, e.col))
Hung(e)  == ~e.indention /\ Passed(e.text, Mark(e.line + 1, 0))
Paper(e) == DOMAIN e = EmitterFields /\ e.line \in Nat /\ e.col \in Nat /\ Laid(e.text)
Neat(e)  == Paper(e) /\ Clear(e)
Draft(e) == Paper(e) /\ (Clear(e) \/ Hung(e))

\* The same queue, state and levels.
Keeping(e, r) == /\ r.events = e.events /\ r.state = e.state /\ r.states = e.states
                 /\ r.flow = e.flow /\ r.indent = e.indent /\ r.indents = e.indents

LEMMA LaidLater ==
  ASSUME NEW t, Laid(t), NEW m \in Positions, NEW k \in Positions, Upto(m, k), Passed(t, m)
  PROVE  Passed(t, k)
<1>1. \A i \in 1..Len(t) : EndOf(t[i]) \in Positions
  BY ElementOfSeq, PlacesOf DEF Laid
<1> QED BY <1>1, UptoFacts DEF Passed

LEMMA LaidOn ==
  ASSUME NEW t, Laid(t), NEW x \in LexemeSet, Lies(x, PlaceOf(x)), ~x.trail,
         x.kind # "literal" => x.down = 0, Passed(t, PlaceOf(x)),
         NEW m \in Positions, Upto(EndOf(x), m)
  PROVE  Laid(Append(t, x)) /\ Passed(Append(t, x), m)
<1>1. PICK u, n : u = Append(t, x) /\ n = Len(t)
  OBVIOUS
<1>2. /\ u \in Seq(LexemeSet) /\ n \in Nat /\ Len(u) = n + 1 /\ u[n + 1] = x
      /\ \A i \in 1..n : u[i] = t[i]
  BY <1>1, AppendProperties, LenProperties DEF Laid
<1>3. \A i \in 1..n + 1 : i \in 1..n \/ i = n + 1
  BY <1>2
<1>4. \A i \in 1..n : Upto(EndOf(t[i]), PlaceOf(x))
  BY <1>1 DEF Passed
<1>5. PlaceOf(x) \in Positions /\ EndOf(x) \in Positions /\ Upto(PlaceOf(x), EndOf(x))
  BY PlacesOf, LiesWithin
<1>6. Upto(PlaceOf(x), m)
  BY <1>5, UptoFacts
<1>7. Passed(t, m)
  BY <1>5, <1>6, LaidLater
<1>8. \A i \in 1..n + 1 : Upto(EndOf(u[i]), m)
  BY <1>1, <1>2, <1>3, <1>7 DEF Passed
<1>9. \A i \in 1..n + 1 : /\ Lies(u[i], PlaceOf(u[i])) /\ ~u[i].trail
                          /\ u[i].kind # "literal" => u[i].down = 0
  BY <1>1, <1>2, <1>3 DEF Laid
<1>10. ASSUME NEW i \in 1..n + 1, NEW j \in 1..n + 1, i < j
       PROVE  Upto(EndOf(u[i]), PlaceOf(u[j]))
  <2>1. i \in 1..n
    BY <1>2, <1>10
  <2>2. CASE j \in 1..n
    BY <1>1, <1>2, <1>10, <2>1, <2>2 DEF Laid
  <2>3. CASE j = n + 1
    BY <1>2, <1>4, <2>1, <2>3
  <2> QED BY <1>3, <2>2, <2>3
<1> QED BY <1>1, <1>2, <1>8, <1>9, <1>10 DEF Laid, Passed

\* A lexeme is written where the emitter stands, or past a space.
LEMMA WriteNeat ==
  ASSUME NEW e, Neat(e), NEW x \in LexemeSet, x.kind # "end", ~x.trail,
         x.kind # "literal" => x.down = 0, x.kind = "literal" => x.down >= 2,
         NEW a, NEW b, NEW c, NEW r, r = Write(e, x, a, b, c)
  PROVE  /\ DOMAIN r = EmitterFields /\ r.line = e.line /\ r.col \in Nat /\ Laid(r.text)
         /\ Passed(r.text, IF x.kind = "literal" THEN Mark(e.line + x.down, 0)
                            ELSE Mark(r.line, r.col))
         /\ Keeping(e, r)
<1>1. PICK col : col = IF a /\ ~e.whitespace THEN e.col + 1 ELSE e.col
  OBVIOUS
<1>2. e.line \in Nat /\ e.col \in Nat /\ Laid(e.text) /\ DOMAIN e = EmitterFields
      /\ Passed(e.text, Mark(e.line, e.col))
  BY DEF Neat, Paper, Clear
<1>3. col \in Nat /\ e.col <= col /\ x.width \in Nat /\ x.down \in Nat
  BY <1>1, <1>2, LexemeFacts
<1>4. PICK y : y = [x EXCEPT !.line = e.line, !.col = col]
  OBVIOUS
<1>5. y \in LexemeSet
  BY <1>2, <1>3, <1>4, LexemeChanges
<1>6. /\ y.line = e.line /\ y.col = col /\ y.kind = x.kind /\ y.down = x.down
      /\ y.width = x.width /\ (y.trail <=> x.trail)
  <2>1. DOMAIN x = LexemeFields
    BY DEF LexemeSet, LexemeFields
  <2> QED BY <1>4, <2>1 DEF LexemeFields
<1>7. r = [e EXCEPT !.text = Append(@, y), !.col = col + x.width, !.whitespace = b,
                    !.indention = @ /\ c]
  BY <1>1, <1>4 DEF Write
<1>8. /\ DOMAIN r = EmitterFields /\ r.line = e.line /\ r.col = col + x.width
      /\ r.text = Append(e.text, y) /\ Keeping(e, r)
  BY <1>2, <1>7 DEF EmitterFields, Keeping
<1>9. r.col \in Nat
  BY <1>3, <1>8
<1>10. Lies(y, PlaceOf(y)) /\ ~y.trail /\ (y.kind # "literal" => y.down = 0)
  BY <1>6 DEF Lies
<1>11. \A l, k : Mark(l, k).line = l /\ Mark(l, k).col = k
  BY DEF Mark
<1>12. Passed(e.text, PlaceOf(y))
  <2>1. PlaceOf(y) = Mark(e.line, col)
    BY <1>6 DEF PlaceOf
  <2>2. Mark(e.line, e.col) \in Positions /\ Mark(e.line, col) \in Positions
    BY <1>2, <1>3, MarkType
  <2>3. Upto(Mark(e.line, e.col), Mark(e.line, col))
    BY <1>2, <1>3, <1>11 DEF Upto
  <2> QED BY <1>2, <2>1, <2>2, <2>3, LaidLater
<1>13. EndOf(y) = IF x.kind = "literal" THEN Mark(e.line + x.down, 0) ELSE Mark(r.line, r.col)
  <2>1. CASE x.kind = "literal"
    BY <1>6, <2>1 DEF EndOf
  <2>2. CASE x.kind # "literal"
    <3>1. EndOf(y) = PastOf(y)
      BY <1>6, <2>2 DEF EndOf
    <3>2. PastOf(y) = Mark(y.line, y.col + y.width)
      BY <1>6, <2>2 DEF PastOf
    <3> QED BY <1>6, <1>8, <2>2, <3>1, <3>2
  <2> QED BY <2>1, <2>2
<1>14. EndOf(y) \in Positions /\ Upto(EndOf(y), EndOf(y))
  BY <1>5, PlacesOf, UptoFacts
<1>15. Laid(Append(e.text, y)) /\ Passed(Append(e.text, y), EndOf(y))
  BY <1>2, <1>5, <1>10, <1>12, <1>14, LaidOn
<1> QED BY <1>8, <1>9, <1>13, <1>15

\* An emitter with the fields it has, and one that stands at the same place of the same
\* text.
Shaped(e)   == Emits(e, e.events, e.state, e.states, e.indent, e.indents)
Still(e, r) == r.text = e.text /\ r.line = e.line /\ r.col = e.col /\ r.indention = e.indention

LEMMA ShapedEmits ==
  ASSUME NEW e, NEW ev, NEW st, NEW sts, NEW ind, NEW inds, Emits(e, ev, st, sts, ind, inds)
  PROVE  /\ Shaped(e) /\ DOMAIN e = EmitterFields
         /\ e.events = ev /\ e.state = st /\ e.states = sts /\ e.indent = ind /\ e.indents = inds
<1>1. e.events = ev /\ e.state = st /\ e.states = sts /\ e.indent = ind /\ e.indents = inds
  BY DEF Emits
<1>2. DOMAIN e = EmitterFields
  BY DEF Emits
<1>3. Shaped(e)
  BY <1>1 DEF Shaped
<1> QED BY <1>1, <1>2, <1>3

LEMMA StillDraft ==
  ASSUME NEW e, Paper(e), NEW r, DOMAIN r = EmitterFields, Still(e, r)
  PROVE  Paper(r) /\ (Clear(e) => Clear(r)) /\ (Hung(e) => Hung(r))
BY DEF Paper, Still, Clear, Hung

\* The state machine alone writes nothing.
LEMMA StateStill ==
  ASSUME NEW e, DOMAIN e = EmitterFields
  PROVE  /\ \A s : Still(e, Become(e, s)) /\ Become(e, s).flow = e.flow
         /\ \A s : Still(e, Later(e, s)) /\ Later(e, s).flow = e.flow
         /\ Still(e, Resume(e)) /\ Resume(e).flow = e.flow
         /\ Still(e, DecreaseIndent(e)) /\ DecreaseIndent(e).flow = e.flow
         /\ \A flow : Still(e, IncreaseIndent(e, flow)) /\ IncreaseIndent(e, flow).flow = e.flow
         /\ \A n : Still(e, [e EXCEPT !.flow = n]) /\ [e EXCEPT !.flow = n].flow = n
<1>1. ASSUME NEW s
      PROVE  Still(e, Become(e, s)) /\ Become(e, s).flow = e.flow
  BY DEF Become, Still, EmitterFields
<1>2. ASSUME NEW s
      PROVE  Still(e, Later(e, s)) /\ Later(e, s).flow = e.flow
  BY DEF Later, Still, EmitterFields
<1>4. Still(e, Resume(e)) /\ Resume(e).flow = e.flow
  <2>1. PICK a, b : a = Last(e.states) /\ b = Front(e.states)
    OBVIOUS
  <2>2. Resume(e) = [e EXCEPT !.state = a, !.states = b]
    BY <2>1 DEF Resume
  <2> QED BY <2>2 DEF Still, EmitterFields
<1>5. Still(e, DecreaseIndent(e)) /\ DecreaseIndent(e).flow = e.flow
  <2>1. PICK a, b : a = Last(e.indents) /\ b = Front(e.indents)
    OBVIOUS
  <2>2. DecreaseIndent(e) = [e EXCEPT !.indent = a, !.indents = b]
    BY <2>1 DEF DecreaseIndent
  <2> QED BY <2>2 DEF Still, EmitterFields
<1>6. ASSUME NEW flow
      PROVE  Still(e, IncreaseIndent(e, flow)) /\ IncreaseIndent(e, flow).flow = e.flow
  <2>1. PICK a : a = IF e.indent < 0 THEN (IF flow THEN BestIndent ELSE 0)
                     ELSE IF Last(e.states) = "block sequence item" THEN e.indent + 2
                     ELSE BestIndent * ((e.indent + BestIndent) \div BestIndent)
    OBVIOUS
  <2>2. PICK b : b = Append(e.indents, e.indent)
    OBVIOUS
  <2>3. IncreaseIndent(e, flow) = [e EXCEPT !.indents = b, !.indent = a]
    BY <2>1, <2>2 DEF IncreaseIndent
  <2> QED BY <2>3 DEF Still, EmitterFields
<1>7. ASSUME NEW n
      PROVE  Still(e, [e EXCEPT !.flow = n]) /\ [e EXCEPT !.flow = n].flow = n
  BY DEF Still, EmitterFields
<1> QED BY <1>1, <1>2, <1>4, <1>5, <1>6, <1>7

\* What is written.
Written(e, r) == Shaped(r) /\ Keeping(e, r)

LEMMA IndicatorNeat ==
  ASSUME NEW e, Shaped(e), Neat(e), NEW kind \in Indicators \cup {"---"},
         NEW a, NEW b, NEW c, NEW r, r = Indicator(e, kind, a, b, c)
  PROVE  Neat(r) /\ Written(e, r)
<1>1. PICK w : w = IF kind = "---" THEN 3 ELSE 1
  OBVIOUS
<1>2. w \in Nat /\ 0 \in Nat /\ kind \in Kinds \cup {"end"}
  BY <1>1, GivenKinds
<1>3. PICK x : x = Lexeme(kind, Empty, 0, 0, w, 0)
  OBVIOUS
<1>4. x \in LexemeSet
  BY <1>2, <1>3, LexemeType, EmptyValue
<1>5. x.kind = kind /\ ~x.trail /\ x.down = 0
  BY <1>3 DEF Lexeme
<1>6. x.kind # "end" /\ x.kind # "literal"
  BY <1>5 DEF Indicators
<1>7. r = Write(e, x, a, b, c)
  BY <1>1, <1>3 DEF Indicator
<1>8. /\ DOMAIN r = EmitterFields /\ r.line = e.line /\ r.col \in Nat /\ Laid(r.text)
      /\ Passed(r.text, IF x.kind = "literal" THEN Mark(e.line + x.down, 0)
                         ELSE Mark(r.line, r.col))
      /\ Keeping(e, r)
  BY <1>4, <1>5, <1>6, <1>7, WriteNeat
<1>9. Emits(r, e.events, e.state, e.states, e.indent, e.indents)
  BY IndicatorEmits DEF Shaped
<1>10. Shaped(r)
  BY <1>9, ShapedEmits
<1>11. e.line \in Nat
  BY DEF Neat, Paper
<1> QED BY <1>6, <1>8, <1>10, <1>11 DEF Neat, Paper, Clear, Written

LEMMA IndentNeat ==
  ASSUME NEW e, Shaped(e), Draft(e), NEW r, r = WriteIndent(e)
  PROVE  Neat(r) /\ Written(e, r)
<1>1. /\ DOMAIN e = EmitterFields /\ e.line \in Nat /\ e.col \in Nat /\ Laid(e.text)
      /\ Clear(e) \/ Hung(e)
  BY DEF Draft, Paper
<1>2. PICK indent : indent = IF e.indent < 0 THEN 0 ELSE e.indent
  OBVIOUS
<1>3. indent \in Nat
  BY <1>2 DEF Shaped, Emits, Levels
<1>4. PICK f : f = IF ~e.indention \/ e.col > indent \/ (e.col = indent /\ ~e.whitespace)
                   THEN Break(e) ELSE e
  OBVIOUS
<1>5. /\ DOMAIN f = EmitterFields /\ f.line \in Nat /\ f.col \in Nat /\ f.text = e.text
      /\ Keeping(e, f)
  <2>1. /\ DOMAIN Break(e) = EmitterFields /\ Break(e).line = e.line + 1 /\ Break(e).col = 0
        /\ Break(e).text = e.text /\ Keeping(e, Break(e))
    BY <1>1 DEF Break, EmitterFields, Keeping
  <2>2. Keeping(e, e)
    BY DEF Keeping
  <2> QED BY <1>1, <1>4, <2>1, <2>2
<1>6. Passed(f.text, Mark(f.line, f.col))
  <2>1. CASE f = e /\ e.indention
    BY <1>1, <2>1 DEF Clear, Hung
  <2>2. CASE f = Break(e)
    <3>1. f.line = e.line + 1 /\ f.col = 0 /\ f.text = e.text
      BY <1>1, <2>2 DEF Break, EmitterFields
    <3>2. CASE Hung(e)
      BY <3>1, <3>2 DEF Hung
    <3>3. CASE Clear(e)
      <4>1. Mark(e.line, e.col) \in Positions /\ Mark(e.line + 1, 0) \in Positions
        BY <1>1, MarkType
      <4>2. Upto(Mark(e.line, e.col), Mark(e.line + 1, 0))
        BY <1>1 DEF Upto, Mark
      <4>3. Passed(e.text, Mark(e.line + 1, 0))
        BY <1>1, <3>3, <4>1, <4>2, LaidLater DEF Clear
      <4> QED BY <3>1, <4>3
    <3> QED BY <1>1, <3>2, <3>3
  <2> QED BY <1>4, <2>1, <2>2
<1>7. PICK col : col = IF f.col < indent THEN indent ELSE f.col
  OBVIOUS
<1>8. col \in Nat /\ f.col <= col
  BY <1>3, <1>5, <1>7
<1>9. r = [f EXCEPT !.col = col, !.whitespace = TRUE]
  BY <1>2, <1>4, <1>7 DEF WriteIndent
<1>10. /\ DOMAIN r = EmitterFields /\ r.line = f.line /\ r.col = col /\ r.text = e.text
       /\ Keeping(f, r)
  BY <1>5, <1>9 DEF EmitterFields, Keeping
<1>11. Passed(r.text, Mark(r.line, r.col))
  <2>1. Mark(f.line, f.col) \in Positions /\ Mark(f.line, col) \in Positions
    BY <1>5, <1>8, MarkType
  <2>2. Upto(Mark(f.line, f.col), Mark(f.line, col))
    BY <1>5, <1>8 DEF Upto, Mark
  <2> QED BY <1>1, <1>5, <1>6, <1>10, <2>1, <2>2, LaidLater
<1>12. Emits(r, e.events, e.state, e.states, e.indent, e.indents)
  BY IndentEmits DEF Shaped
<1>13. Shaped(r)
  BY <1>12, ShapedEmits
<1> QED BY <1>1, <1>5, <1>8, <1>10, <1>11, <1>13 DEF Neat, Paper, Clear, Written, Keeping

LEMMA ScalarNeat ==
  ASSUME NEW e, Shaped(e), Neat(e), NEW v \in ScalarSet, NEW r,
         r = WritePlain(e, v) \/ r = WriteQuoted(e, v)
  PROVE  Neat(r) /\ Keeping(e, r)
<1>1. Length(v) \in Nat /\ 0 \in Nat
  BY EmitterAssumption DEF Length
<1>2. PICK kind \in {"plain", "quoted"} :
        \E a, b, c : r = Write(e, Lexeme(kind, v, 0, 0, Length(v), 0), a, b, c)
  BY DEF WritePlain, WriteQuoted
<1>3. kind \in Kinds \cup {"end"} /\ kind # "end" /\ kind # "literal"
  BY DEF Kinds
<1>4. PICK x : x = Lexeme(kind, v, 0, 0, Length(v), 0)
  OBVIOUS
<1>5. x \in LexemeSet
  BY <1>1, <1>3, <1>4, LexemeType
<1>6. x.kind = kind /\ ~x.trail /\ x.down = 0
  BY <1>4 DEF Lexeme
<1>9. x.kind # "end" /\ x.kind # "literal" /\ \E a, b, c : r = Write(e, x, a, b, c)
  BY <1>2, <1>3, <1>4, <1>6
<1>7. /\ DOMAIN r = EmitterFields /\ r.line = e.line /\ r.col \in Nat /\ Laid(r.text)
      /\ Passed(r.text, IF x.kind = "literal" THEN Mark(e.line + x.down, 0)
                         ELSE Mark(r.line, r.col))
      /\ Keeping(e, r)
  BY <1>5, <1>6, <1>9, WriteNeat
<1>8. e.line \in Nat
  BY DEF Neat, Paper
<1> QED BY <1>3, <1>6, <1>7, <1>8 DEF Neat, Paper, Clear

\* A block scalar that ends with a break is passed, and the other one once the line is
\* broken.
LEMMA LiteralDraft ==
  ASSUME NEW e, Shaped(e), Neat(e), e.indent \in Nat, NEW v \in ScalarSet,
         NEW r, r = WriteLiteral(e, v)
  PROVE  Draft(r) /\ Keeping(e, r)
<1>1. /\ v.lead \in Nat /\ v.final \in Nat /\ e.line \in Nat /\ e.col \in Nat
      /\ WithoutBreak(v) \in ScalarSet /\ WithoutBreak(v).breaks \in Nat
  BY WithoutBreakType DEF ScalarSet, Neat, Paper
<1>2. PICK down : down = 3 + WithoutBreak(v).breaks + (IF v.final > 1 THEN v.final - 1 ELSE 0)
  OBVIOUS
<1>3. down \in Nat /\ down >= 3
  BY <1>1, <1>2
<1>4. PICK y : y = Lexeme("literal", WithoutBreak(v), 0, 0, 1, down)
  OBVIOUS
<1>5. y \in LexemeSet
  <2>1. 0 \in Nat /\ 1 \in Nat /\ "literal" \in Kinds \cup {"end"}
    BY DEF Kinds
  <2> QED BY <1>1, <1>3, <1>4, <2>1, LexemeType
<1>6. PICK hint, chomp : hint = Hints(v) /\ chomp = Chomping(v)
  OBVIOUS
<1>7. hint \in Nat /\ chomp \in Int
  <2>1. BestIndent \in Nat
    BY EmitterAssumption
  <2>2. CASE v.final = 0
    BY <1>6, <2>1, <2>2 DEF Hints, Chomping
  <2>3. CASE v.final = 1
    BY <1>6, <2>1, <2>3 DEF Hints, Chomping
  <2>4. CASE v.final # 0 /\ v.final # 1
    BY <1>6, <2>1, <2>4 DEF Hints, Chomping
  <2> QED BY <2>2, <2>3, <2>4
<1>8. PICK x : x = [y EXCEPT !.inner = e.indent, !.hint = hint, !.chomp = chomp]
  OBVIOUS
<1>9. x \in LexemeSet
  BY <1>5, <1>7, <1>8, LexemeChanges
<1>10. x.kind = "literal" /\ ~x.trail /\ x.down = down
  <2>1. y.kind = "literal" /\ ~y.trail /\ y.down = down
    BY <1>4 DEF Lexeme
  <2>2. DOMAIN y = LexemeFields
    BY <1>5 DEF LexemeSet, LexemeFields
  <2> QED BY <1>8, <2>1, <2>2 DEF LexemeFields
<1>11. PICK w : w = Write(e, x, TRUE, TRUE, FALSE)
  OBVIOUS
<1>12. x.kind # "end" /\ x.down >= 2
  BY <1>3, <1>10
<1>18. PICK a, b, c : w = Write(e, x, a, b, c)
  BY <1>11
<1>13. /\ DOMAIN w = EmitterFields /\ w.line = e.line /\ w.col \in Nat /\ Laid(w.text)
       /\ Passed(w.text, IF x.kind = "literal" THEN Mark(e.line + x.down, 0)
                          ELSE Mark(w.line, w.col))
       /\ Keeping(e, w)
  BY <1>9, <1>10, <1>12, <1>18, WriteNeat
<1>14. Passed(w.text, Mark(e.line + down, 0))
  BY <1>10, <1>13
<1>15. r = IF v.final = 0
           THEN [w EXCEPT !.line = @ + down - 1, !.col = e.indent + 1, !.indention = FALSE]
           ELSE [w EXCEPT !.line = @ + down, !.col = 0, !.indention = TRUE]
  BY <1>2, <1>4, <1>6, <1>8, <1>11 DEF WriteLiteral
<1>16. CASE v.final = 0
  <2>1. /\ DOMAIN r = EmitterFields /\ r.line = e.line + down - 1 /\ r.col = e.indent + 1
        /\ ~r.indention /\ r.text = w.text /\ Keeping(w, r)
    BY <1>13, <1>15, <1>16 DEF EmitterFields, Keeping
  <2>2. r.line + 1 = e.line + down
    BY <1>1, <1>3, <1>16, <2>1
  <2>3. Hung(r)
    BY <1>14, <2>1, <2>2 DEF Hung
  <2>4. r.line \in Nat /\ r.col \in Nat
    BY <1>1, <1>3, <2>1
  <2> QED BY <1>13, <2>1, <2>3, <2>4 DEF Draft, Paper, Keeping
<1>17. CASE v.final # 0
  <2>1. /\ DOMAIN r = EmitterFields /\ r.line = e.line + down /\ r.col = 0
        /\ r.text = w.text /\ Keeping(w, r)
    BY <1>13, <1>15, <1>17 DEF EmitterFields, Keeping
  <2>2. Clear(r)
    BY <1>14, <2>1 DEF Clear
  <2>3. r.line \in Nat /\ r.col \in Nat
    BY <1>1, <1>3, <2>1
  <2> QED BY <1>13, <2>1, <2>2, <2>3 DEF Draft, Paper, Keeping
<1> QED BY <1>16, <1>17

-----------------------------------------------------------------------------
(* The states around an emitter: flow collections, flow_level of them, are *)
(* inside of a simple key at most, which is inside of block collections.   *)

Quiet  == {"document end", "block sequence item", "block mapping key", "block mapping value"}
Simple == "block mapping simple value"
Loud   == {"flow sequence item", "flow mapping key", "flow mapping simple value",
           "flow mapping value"}
FlowFirsts == {"flow sequence first", "flow mapping first"}
Calm   == Quiet \cup {Simple} \cup (EmitFirsts \ FlowFirsts) \cup EmitOuter

Blocky(states) == states \in Seq(EmitStates) /\ \A i \in 1..Len(states) : states[i] \in Quiet
Layers(states, depth) ==
  /\ states \in Seq(EmitStates) /\ depth \in 0..Len(states)
  /\ \A i \in 1..Len(states) : /\ i < Len(states) - depth => states[i] \in Quiet
                               /\ i = Len(states) - depth => states[i] \in Quiet \cup {Simple}
                               /\ i > Len(states) - depth => states[i] \in Loud
Layered(state, states, flow) ==
  \/ state \in Loud /\ flow \in Nat \ {0} /\ Layers(states, flow - 1)
  \/ state \in FlowFirsts /\ flow \in Nat /\ Layers(states, flow)
  \/ state \in Calm /\ flow = 0 /\ Blocky(states)

LEMMA Voices ==
  /\ Quiet \cap Loud = {} /\ Simple \notin Quiet \cup Loud /\ EmitStates = Quiet \cup Loud \cup {Simple}
  /\ Calm \cap (Loud \cup FlowFirsts) = {} /\ Loud \cap FlowFirsts = {}
  /\ Quiet \cup {Simple} \subseteq Calm /\ EmitFirsts \ FlowFirsts \subseteq Calm
  /\ EmitOuter \subseteq Calm
<1>1. Quiet \cap Loud = {} /\ Simple \notin Quiet \cup Loud /\ Loud \cap FlowFirsts = {}
  BY DEF Quiet, Loud, Simple, FlowFirsts
<1>2. EmitStates = Quiet \cup Loud \cup {Simple}
  BY DEF EmitStates, EmitOpened, Quiet, Loud, Simple
<1>3. Calm \cap Loud = {}
  BY DEF Calm, Quiet, Simple, EmitFirsts, FlowFirsts, EmitOuter, Loud
<1>4. Calm \cap FlowFirsts = {}
  BY DEF Calm, Quiet, Simple, EmitFirsts, FlowFirsts, EmitOuter
<1> QED BY <1>1, <1>2, <1>3, <1>4 DEF Calm

LEMMA BlockyLayers ==
  ASSUME NEW states, Blocky(states)
  PROVE  Layers(states, 0)
<1>1. states \in Seq(EmitStates) /\ Len(states) \in Nat
  BY LenProperties DEF Blocky
<1>2. 0 \in 0..Len(states)
  BY <1>1
<1>3. \A i \in 1..Len(states) : ~(i > Len(states) - 0)
  BY <1>1
<1> QED BY <1>1, <1>2, <1>3 DEF Blocky, Layers

\* A node of a collection that begins has the collection around it.
LEMMA PushLayers ==
  ASSUME NEW states, NEW back \in EmitStates, NEW flow, Layered(back, states, flow)
  PROVE  /\ \A first \in FlowFirsts : Layered(first, Append(states, back), flow)
         /\ flow = 0 /\ back # Simple =>
              \A first \in EmitFirsts \ FlowFirsts : Layered(first, Append(states, back), flow)
<1>1. PICK t, n : t = Append(states, back) /\ n = Len(states)
  OBVIOUS
<1>2. states \in Seq(EmitStates)
  BY DEF Layered, Layers, Blocky
<1>3. /\ t \in Seq(EmitStates) /\ n \in Nat /\ Len(t) = n + 1 /\ t[n + 1] = back
      /\ \A i \in 1..n : t[i] = states[i]
  BY <1>1, <1>2, AppendProperties, LenProperties
<1>4. \A i \in 1..n + 1 : i \in 1..n \/ i = n + 1
  BY <1>3
<1>5. back \notin FlowFirsts
  BY Voices
<1>6. CASE back \in Loud
  <2>1. flow \in Nat \ {0} /\ Layers(states, flow - 1)
    BY <1>6, Voices DEF Layered
  <2>2. flow \in 0..n + 1 /\ flow >= 1 /\ n - (flow - 1) = n + 1 - flow
    BY <1>1, <1>3, <2>1 DEF Layers
  <2>3. PICK k : k = n + 1 - flow
    OBVIOUS
  <2>4. k \in Int /\ k < n + 1
    BY <1>3, <2>2, <2>3
  <2>5. \A i \in 1..n : /\ i < k => states[i] \in Quiet
                        /\ i = k => states[i] \in Quiet \cup {Simple}
                        /\ i > k => states[i] \in Loud
    BY <1>1, <2>1, <2>2, <2>3 DEF Layers
  <2>6. \A i \in 1..n + 1 : /\ i < k => t[i] \in Quiet
                            /\ i = k => t[i] \in Quiet \cup {Simple}
                            /\ i > k => t[i] \in Loud
    BY <1>3, <1>4, <1>6, <2>4, <2>5
  <2>7. Layers(t, flow)
    BY <1>3, <2>2, <2>3, <2>6 DEF Layers
  <2> QED BY <1>1, <2>1, <2>7 DEF Layered
<1>7. CASE back \notin Loud
  <2>1. back \in Calm /\ back \in Quiet \cup {Simple}
    BY <1>7, Voices
  <2>2. flow = 0 /\ Blocky(states)
    BY <1>5, <1>7 DEF Layered
  <2>3. \A i \in 1..n : states[i] \in Quiet
    BY <1>1, <2>2 DEF Blocky
  <2>4. \A i \in 1..n + 1 : /\ i < n + 1 => t[i] \in Quiet
                            /\ i = n + 1 => t[i] \in Quiet \cup {Simple}
                            /\ ~(i > n + 1)
    BY <1>3, <1>4, <2>1, <2>3
  <2>5. Layers(t, 0)
    <3>1. n + 1 - 0 = n + 1 /\ 0 \in 0..n + 1
      BY <1>3
    <3> QED BY <1>3, <2>4, <3>1 DEF Layers
  <2>6. ASSUME back # Simple
        PROVE  Blocky(t)
    <3>1. \A i \in 1..n + 1 : t[i] \in Quiet
      BY <1>3, <1>4, <2>1, <2>3, <2>6
    <3> QED BY <1>3, <3>1 DEF Blocky
  <2>7. 0 \in Nat
    OBVIOUS
  <2> QED BY <1>1, <2>2, <2>5, <2>6, <2>7, Voices DEF Layered
<1> QED BY <1>6, <1>7

\* A collection that is complete is a node of the one around it.
LEMMA PopLayers ==
  ASSUME NEW states, states # <<>>, NEW flow, Layers(states, flow)
  PROVE  /\ Layered(Last(states), Front(states), flow)
         /\ Blocky(states) => Last(states) \in Quiet
<1>1. PICK b, f, n : b = Last(states) /\ f = Front(states) /\ n = Len(states)
  OBVIOUS
<1>2. states \in Seq(EmitStates) /\ flow \in 0..n
  BY <1>1 DEF Layers
<1>3. /\ n \in Nat \ {0} /\ b = states[n] /\ f \in Seq(EmitStates) /\ Len(f) = n - 1
      /\ \A i \in 1..n - 1 : f[i] = states[i]
  BY <1>1, <1>2, FrontLast
<1>4. flow \in Nat /\ n \in 1..n /\ \A i \in 1..n - 1 : i \in 1..n /\ i < n
  BY <1>2, <1>3
<1>5. \A i \in 1..n : /\ i < n - flow => states[i] \in Quiet
                      /\ i = n - flow => states[i] \in Quiet \cup {Simple}
                      /\ i > n - flow => states[i] \in Loud
  BY <1>1 DEF Layers
<1>6. Blocky(states) => b \in Quiet
  BY <1>1, <1>3, <1>4 DEF Blocky
<1>7. CASE flow = 0
  <2>1. b \in Quiet \cup {Simple}
    BY <1>3, <1>4, <1>5, <1>7
  <2>2. \A i \in 1..n - 1 : f[i] \in Quiet
    BY <1>3, <1>4, <1>5, <1>7
  <2>3. Blocky(f)
    BY <1>3, <2>2 DEF Blocky
  <2> QED BY <1>1, <1>6, <1>7, <2>1, <2>3, Voices DEF Layered
<1>8. CASE flow # 0
  <2>1. b \in Loud
    BY <1>3, <1>4, <1>5, <1>8
  <2>2. flow - 1 \in 0..n - 1 /\ n - 1 - (flow - 1) = n - flow
    BY <1>2, <1>3, <1>8
  <2>3. \A i \in 1..n - 1 : /\ i < n - flow => f[i] \in Quiet
                            /\ i = n - flow => f[i] \in Quiet \cup {Simple}
                            /\ i > n - flow => f[i] \in Loud
    BY <1>3, <1>4, <1>5
  <2>4. Layers(f, flow - 1)
    BY <1>3, <2>2, <2>3 DEF Layers
  <2> QED BY <1>1, <1>4, <1>6, <1>8, <2>1, <2>4 DEF Layered
<1> QED BY <1>7, <1>8

\* An emitter whose text is laid out, behind which it stands: before a line of its own
\* only where its state begins with one.
Placed(e) ==
  \/ e.state = "error"
  \/ /\ Layered(e.state, e.states, e.flow) /\ Paper(e)
     /\ Clear(e) \/ (Hung(e) /\ e.state \in Quiet)

\* A simple key is no text of two lines, nor a collection of more than one line.
OneLine(e, event) == /\ event.type = "scalar" => ~Multiline(event.value)
                     /\ event.type # "scalar" => EmptyCollection(e)

LEMMA ScalarPlaced ==
  ASSUME NEW e, Shaped(e), Neat(e), NEW sts, NEW back \in EmitStates,
         e.states = Append(sts, back), Layered(back, sts, e.flow),
         NEW v \in ScalarSet, back = Simple => ~Multiline(v), NEW r, r = EmitScalar(e, v)
  PROVE  Placed(r)
<1>1. PICK i : i = IncreaseIndent(e, TRUE)
  OBVIOUS
<1>2. PICK in \in Nat :
        Emits(i, e.events, e.state, e.states, in, Append(e.indents, e.indent))
  BY <1>1, IncreaseEmits DEF Shaped
<1>3. Shaped(i) /\ DOMAIN i = EmitterFields /\ i.indent \in Nat
  BY <1>2, ShapedEmits
<1>4. Neat(i) /\ i.flow = e.flow
  <2>1. DOMAIN e = EmitterFields /\ Paper(e) /\ Clear(e)
    BY DEF Neat, Paper
  <2>2. Still(e, i) /\ i.flow = e.flow
    BY <1>1, <2>1, StateStill
  <2> QED BY <1>3, <2>1, <2>2, StillDraft DEF Neat
<1>5. PICK w : w = CASE Style(e, v) = "plain"   -> WritePlain(i, v)
                     [] Style(e, v) = "literal" -> WriteLiteral(i, v)
                     [] Style(e, v) = "quoted"  -> WriteQuoted(i, v)
  OBVIOUS
<1>6. /\ Paper(w) /\ Keeping(i, w)
      /\ Clear(w) \/ (Hung(w) /\ e.flow = 0 /\ Multiline(v))
  <2>1. CASE Multiline(v) /\ e.flow = 0
    <3>1. w = WriteLiteral(i, v)
      BY <1>5, <2>1 DEF Style
    <3>2. Draft(w) /\ Keeping(i, w)
      BY <1>3, <1>4, <3>1, LiteralDraft
    <3> QED BY <2>1, <3>2 DEF Draft
  <2>2. CASE ~(Multiline(v) /\ e.flow = 0)
    <3>1. w = WritePlain(i, v) \/ w = WriteQuoted(i, v)
      BY <1>5, <2>2 DEF Style
    <3>2. Neat(w) /\ Keeping(i, w)
      BY <1>3, <1>4, <3>1, ScalarNeat
    <3> QED BY <3>2 DEF Neat
  <2> QED BY <2>1, <2>2
<1>7. w.flow = e.flow /\ DOMAIN w = EmitterFields
  BY <1>4, <1>6 DEF Keeping, Paper
<1>8. PICK d : d = DecreaseIndent(w)
  OBVIOUS
<1>9. Still(w, d) /\ d.flow = e.flow /\ DOMAIN d = EmitterFields
  <2>1. PICK a, b : a = Last(w.indents) /\ b = Front(w.indents)
    OBVIOUS
  <2>2. d = [w EXCEPT !.indent = a, !.indents = b]
    BY <1>8, <2>1 DEF DecreaseIndent
  <2>3. DOMAIN d = EmitterFields
    BY <1>7, <2>2
  <2> QED BY <1>7, <1>8, <2>3, StateStill
<1>10. r = Resume(d)
  BY <1>1, <1>5, <1>8 DEF EmitScalar
<1>11. Still(d, r) /\ r.flow = e.flow
  BY <1>9, <1>10, StateStill
<1>12. r.state = back /\ r.states = sts /\ DOMAIN r = EmitterFields
  <2>1. PICK up : Emits(r, e.events, Last(e.states), Front(e.states), up, e.indents)
    BY EmitScalarEmits DEF Shaped
  <2>2. sts \in Seq(EmitStates)
    BY DEF Layered, Layers, Blocky
  <2>3. Last(e.states) = back /\ Front(e.states) = sts
    BY <2>2, PushFacts
  <2> QED BY <2>1, <2>3, ShapedEmits
<1>13. Paper(d) /\ (Clear(w) => Clear(d)) /\ (Hung(w) => Hung(d))
  BY <1>6, <1>9, StillDraft
<1>14. Paper(r) /\ (Clear(d) => Clear(r)) /\ (Hung(d) => Hung(r))
  BY <1>11, <1>12, <1>13, StillDraft
<1>15. e.flow = 0 /\ Multiline(v) => back \in Quiet
  BY Voices DEF Layered
<1> QED BY <1>6, <1>11, <1>12, <1>13, <1>14, <1>15 DEF Placed

\* A state changes and no more.
LEMMA BecomePlaced ==
  ASSUME NEW e, DOMAIN e = EmitterFields, NEW s, NEW r, r = Become(e, s)
  PROVE  /\ r.state = s /\ r.states = e.states /\ r.flow = e.flow /\ r.events = e.events
         /\ DOMAIN r = EmitterFields /\ Still(e, r)
BY DEF Become, EmitterFields, Still

LEMMA LaterPlaced ==
  ASSUME NEW e, Shaped(e), Neat(e), NEW s, NEW r, r = Later(e, s)
  PROVE  /\ r.states = Append(e.states, s) /\ r.flow = e.flow /\ r.events = e.events
         /\ r.state = e.state /\ Shaped(r) /\ Neat(r)
<1>1. DOMAIN e = EmitterFields /\ Paper(e) /\ Clear(e)
  BY DEF Neat, Paper
<1>2. PICK t : t = Append(e.states, s)
  OBVIOUS
<1>3. Emits(r, e.events, e.state, t, e.indent, e.indents)
  BY <1>2, StateEmits DEF Shaped
<1>4. /\ Shaped(r) /\ r.states = t /\ r.events = e.events /\ r.state = e.state
      /\ DOMAIN r = EmitterFields
  BY <1>3, ShapedEmits
<1>5. Still(e, r) /\ r.flow = e.flow
  BY <1>1, StateStill
<1>6. Paper(r) /\ Clear(r)
  BY <1>1, <1>4, <1>5, StillDraft
<1> QED BY <1>2, <1>4, <1>5, <1>6 DEF Neat

LEMMA NodePlaced ==
  ASSUME NEW e, Shaped(e), Neat(e), NEW back \in EmitStates, Layered(back, e.states, e.flow),
         NEW event, event.value \in ScalarSet, back = Simple => OneLine(e, event),
         NEW r, r = EmitNode(Later(e, back), event)
  PROVE  Placed(r)
<1>1. PICK l, sts : l = Later(e, back) /\ sts = e.states
  OBVIOUS
<1>2. /\ l.states = Append(sts, back) /\ l.flow = e.flow /\ l.events = e.events
      /\ Shaped(l) /\ Neat(l)
  BY <1>1, LaterPlaced
<1>3. r = EmitNode(l, event) /\ DOMAIN l = EmitterFields /\ Paper(l) /\ Clear(l)
  BY <1>1, <1>2 DEF Neat, Paper
<1>4. EmptyCollection(l) <=> EmptyCollection(e)
  BY <1>2 DEF EmptyCollection
<1>5. /\ \A first \in FlowFirsts : Layered(first, l.states, l.flow)
      /\ l.flow = 0 /\ back # Simple =>
           \A first \in EmitFirsts \ FlowFirsts : Layered(first, l.states, l.flow)
  BY <1>1, <1>2, PushLayers
<1>6. ASSUME NEW first \in EmitFirsts, Layered(first, l.states, l.flow), r = Become(l, first)
      PROVE  Placed(r)
  <2>1. /\ r.state = first /\ r.states = l.states /\ r.flow = l.flow
        /\ DOMAIN r = EmitterFields /\ Still(l, r)
    BY <1>3, <1>6, BecomePlaced
  <2>2. Paper(r) /\ Clear(r)
    BY <1>3, <2>1, StillDraft
  <2> QED BY <1>6, <2>1, <2>2 DEF Placed
<1>7. ASSUME NEW inFlow \in FlowFirsts, NEW inBlock \in EmitFirsts \ FlowFirsts,
             event.type # "scalar", r = EmitCollection(l, event, inFlow, inBlock)
      PROVE  Placed(r)
  <2>1. inFlow \in EmitFirsts
    BY DEF FlowFirsts, EmitFirsts
  <2>2. CASE l.flow > 0 \/ event.flow \/ EmptyCollection(l)
    <3>1. r = Become(l, inFlow)
      BY <1>7, <2>2 DEF EmitCollection
    <3> QED BY <1>5, <1>6, <2>1, <3>1
  <2>3. CASE ~(l.flow > 0 \/ event.flow \/ EmptyCollection(l))
    <3>1. r = Become(l, inBlock)
      BY <1>7, <2>3 DEF EmitCollection
    <3>2. back # Simple
      BY <1>4, <1>7, <2>3 DEF OneLine
    <3>3. l.flow \in Nat
      BY <1>2 DEF Layered
    <3>4. l.flow = 0
      BY <2>3, <3>3
    <3> QED BY <1>5, <1>6, <3>1, <3>2, <3>4
  <2> QED BY <2>2, <2>3
<1>8. CASE event.type = "scalar"
  <2>1. r = EmitScalar(l, event.value)
    BY <1>3, <1>8 DEF EmitNode
  <2>2. back = Simple => ~Multiline(event.value)
    BY <1>8 DEF OneLine
  <2>3. PICK v \in ScalarSet : v = event.value
    OBVIOUS
  <2> QED BY <1>1, <1>2, <2>1, <2>2, <2>3, ScalarPlaced
<1>9. CASE event.type = "sequence-start"
  <2>1. r = EmitCollection(l, event, "flow sequence first", "block sequence first")
    BY <1>3, <1>9 DEF EmitNode
  <2>2. /\ "flow sequence first" \in FlowFirsts /\ event.type # "scalar"
        /\ "block sequence first" \in EmitFirsts \ FlowFirsts
    BY <1>9 DEF EmitFirsts, FlowFirsts
  <2> QED BY <1>7, <2>1, <2>2
<1>10. CASE event.type = "mapping-start"
  <2>1. r = EmitCollection(l, event, "flow mapping first", "block mapping first")
    BY <1>3, <1>10 DEF EmitNode
  <2>2. /\ "flow mapping first" \in FlowFirsts /\ event.type # "scalar"
        /\ "block mapping first" \in EmitFirsts \ FlowFirsts
    BY <1>10 DEF EmitFirsts, FlowFirsts
  <2> QED BY <1>7, <2>1, <2>2
<1>11. CASE event.type \notin {"scalar", "sequence-start", "mapping-start"}
  <2>1. r = Become(l, "error")
    BY <1>3, <1>11 DEF EmitNode
  <2>2. r.state = "error"
    BY <1>3, <2>1, BecomePlaced
  <2> QED BY <2>2 DEF Placed
<1> QED BY <1>8, <1>9, <1>10, <1>11

\* Between two nodes of a flow collection, and of a block collection.
Flowing(e, ev)  == /\ Inside(e, ev) /\ Neat(e)
                   /\ e.flow \in Nat \ {0} /\ Layers(e.states, e.flow - 1)
Blocking(e, ev) == Inside(e, ev) /\ Draft(e) /\ e.flow = 0 /\ Blocky(e.states)

LEMMA InsideFacts ==
  ASSUME NEW e, NEW ev, Inside(e, ev)
  PROVE  /\ Shaped(e) /\ DOMAIN e = EmitterFields /\ e.events = ev /\ e.states # <<>>
         /\ e.indents # <<>>
<1>1. PICK st, sts, ind, inds : Emits(e, ev, st, sts, ind, inds) /\ Within(sts, Len(inds))
  BY DEF Inside
<1>2. sts \in Seq(EmitStates) /\ sts # <<>> /\ Len(inds) = Len(sts)
  BY <1>1 DEF Within, Stacked
<1>3. inds # <<>>
  <2>1. Len(sts) # 0
    BY <1>2, EmptySeq
  <2> QED BY <1>2, <2>1, EmptySeq
<1> QED BY <1>1, <1>2, <1>3, ShapedEmits

LEMMA FlowBegun ==
  ASSUME NEW e, NEW ev, Fits(e, ev), Placed(e), NEW first \in BOOLEAN,
         e.state \in (IF first THEN FlowFirsts ELSE Loud), NEW kind \in Indicators,
         NEW r, r = IF first THEN OpenFlow(e, kind) ELSE e
  PROVE  Flowing(r, ev)
<1>1. /\ e.state # "error" /\ e.state \notin Quiet
      /\ first => e.state \in EmitFirsts
      /\ ~first => e.state \in EmitOpened
  BY DEF FlowFirsts, Loud, Quiet, EmitFirsts, EmitOpened
<1>2. Layered(e.state, e.states, e.flow) /\ Neat(e)
  BY <1>1 DEF Placed, Neat
<1>3. PICK st, sts, ind, inds : Emits(e, ev, st, sts, ind, inds)
  BY DEF Fits
<1>4. Shaped(e) /\ DOMAIN e = EmitterFields
  BY <1>3, ShapedEmits
<1>5. CASE ~first
  <2>1. Inside(e, ev)
    BY <1>1, <1>5, GoesIn
  <2>2. e.flow \in Nat \ {0} /\ Layers(e.states, e.flow - 1)
    BY <1>2, <1>5, Voices DEF Layered
  <2> QED BY <1>2, <1>5, <2>1, <2>2 DEF Flowing
<1>6. CASE first
  <2>1. PICK w : w = Indicator(e, kind, TRUE, TRUE, FALSE)
    OBVIOUS
  <2>2. kind \in Indicators \cup {"---"} /\ \E a, b, c : w = Indicator(e, kind, a, b, c)
    BY <2>1
  <2>3. Neat(w) /\ Shaped(w) /\ w.states = e.states /\ w.flow = e.flow
    BY <1>2, <1>4, <2>2, IndicatorNeat DEF Written, Keeping
  <2>4. PICK i : i = IncreaseIndent(w, TRUE)
    OBVIOUS
  <2>5. DOMAIN w = EmitterFields /\ Paper(w) /\ Clear(w)
    BY <2>3 DEF Neat, Paper
  <2>6. Still(w, i) /\ i.flow = e.flow
    BY <2>3, <2>4, <2>5, StateStill
  <2>7. PICK in \in Nat :
          Emits(i, w.events, w.state, w.states, in, Append(w.indents, w.indent))
    BY <2>3, <2>4, IncreaseEmits DEF Shaped
  <2>8. DOMAIN i = EmitterFields /\ i.states = e.states
    BY <2>3, <2>7, ShapedEmits
  <2>9. PICK n : n = e.flow + 1
    OBVIOUS
  <2>10. r = [i EXCEPT !.flow = n]
    BY <1>6, <2>1, <2>4, <2>6, <2>9 DEF OpenFlow
  <2>11. DOMAIN r = EmitterFields /\ r.states = e.states /\ r.flow = n /\ Still(w, r)
    BY <2>6, <2>8, <2>10 DEF EmitterFields, Still
  <2>12. Neat(r)
    BY <2>5, <2>11, StillDraft DEF Neat
  <2>13. e.flow \in Nat /\ Layers(e.states, e.flow)
    BY <1>2, <1>6, Voices DEF Layered
  <2>14. n \in Nat \ {0} /\ n - 1 = e.flow
    BY <2>9, <2>13
  <2>15. Inside(r, ev)
    BY <1>1, <1>6, GoesIn
  <2> QED BY <2>11, <2>12, <2>13, <2>14, <2>15 DEF Flowing
<1> QED BY <1>5, <1>6

LEMMA FlowingWrites ==
  ASSUME NEW e, NEW ev, Flowing(e, ev), NEW kind \in Indicators, NEW a, NEW b, NEW c,
         NEW r, r = Indicator(e, kind, a, b, c)
  PROVE  Flowing(r, ev)
<1>1. Shaped(e) /\ Neat(e) /\ kind \in Indicators \cup {"---"}
  BY InsideFacts DEF Flowing
<1>2. Neat(r) /\ r.states = e.states /\ r.flow = e.flow
  BY <1>1, IndicatorNeat DEF Written, Keeping
<1>3. Inside(r, ev)
  BY InsideWrites DEF Flowing
<1> QED BY <1>2, <1>3 DEF Flowing

LEMMA FlowingComma ==
  ASSUME NEW e, NEW ev, Flowing(e, ev), NEW first
  PROVE  Flowing(Comma(e, first), ev)
<1>1. PICK r, a, b, c : r = Comma(e, first) /\ (r = e \/ r = Indicator(e, ",", a, b, c))
  BY DEF Comma
<1>2. "," \in Indicators
  BY DEF Indicators
<1>3. Flowing(r, ev)
  BY <1>1, <1>2, FlowingWrites
<1> QED BY <1>1, <1>3

LEMMA FlowingNode ==
  ASSUME NEW e, NEW ev, Flowing(e, ev), NEW back \in Loud, NEW event, event.value \in ScalarSet
  PROVE  Placed(EmitNode(Later(e, back), event))
<1>1. PICK r : r = EmitNode(Later(e, back), event)
  OBVIOUS
<1>2. Shaped(e) /\ Neat(e) /\ Layered(back, e.states, e.flow)
  BY InsideFacts DEF Flowing, Layered
<1>3. back \in EmitStates /\ back # Simple
  BY Voices
<1> QED BY <1>1, <1>2, <1>3, NodePlaced

LEMMA FlowEnds ==
  ASSUME NEW e, NEW ev, Flowing(e, ev), NEW kind \in Indicators
  PROVE  Placed(CloseFlow(e, kind))
<1>1. /\ Shaped(e) /\ DOMAIN e = EmitterFields /\ e.states # <<>> /\ e.indents # <<>>
      /\ Paper(e) /\ Clear(e) /\ e.flow \in Nat \ {0} /\ Layers(e.states, e.flow - 1)
  BY InsideFacts DEF Flowing, Neat
<1>2. PICK d, rest : d = DecreaseIndent(e) /\ rest = Front(e.indents)
  OBVIOUS
<1>3. PICK up : Emits(d, e.events, e.state, e.states, up, rest)
  BY <1>1, <1>2, DecreaseEmits DEF Shaped
<1>4. DOMAIN d = EmitterFields /\ Still(e, d) /\ d.flow = e.flow
  BY <1>1, <1>2, <1>3, StateStill, ShapedEmits
<1>5. PICK n : n = e.flow - 1
  OBVIOUS
<1>6. PICK f : f = [d EXCEPT !.flow = n]
  OBVIOUS
<1>7. Emits(f, e.events, e.state, e.states, up, rest)
  BY <1>3, <1>6, StateEmits
<1>8. Shaped(f) /\ DOMAIN f = EmitterFields /\ f.states = e.states
  BY <1>7, ShapedEmits
<1>9. Still(e, f) /\ f.flow = n
  BY <1>4, <1>6 DEF EmitterFields, Still
<1>10. Neat(f)
  BY <1>1, <1>8, <1>9, StillDraft DEF Neat
<1>11. PICK w, a, b, c : w = Indicator(f, kind, FALSE, FALSE, FALSE) /\ w = Indicator(f, kind, a, b, c)
  OBVIOUS
<1>12. Neat(w) /\ Shaped(w) /\ w.states = e.states /\ w.flow = n
  <2>1. kind \in Indicators \cup {"---"}
    OBVIOUS
  <2>2. Neat(w) /\ Written(f, w)
    BY <1>8, <1>10, <1>11, <2>1, IndicatorNeat
  <2> QED BY <1>8, <1>9, <2>2 DEF Written, Keeping
<1>13. PICK r, back, states : r = Resume(w) /\ back = Last(w.states) /\ states = Front(w.states)
  OBVIOUS
<1>14. CloseFlow(e, kind) = r
  BY <1>2, <1>4, <1>5, <1>6, <1>11, <1>13 DEF CloseFlow
<1>15. DOMAIN w = EmitterFields /\ Paper(w) /\ Clear(w)
  BY <1>12 DEF Neat, Paper
<1>16. /\ Still(w, r) /\ r.flow = n /\ r.state = back /\ r.states = states
       /\ DOMAIN r = EmitterFields
  <2>1. r = [w EXCEPT !.state = back, !.states = states]
    BY <1>13 DEF Resume
  <2> QED BY <1>12, <1>15, <2>1 DEF Still, EmitterFields
<1>17. Layered(back, states, n)
  BY <1>1, <1>5, <1>12, <1>13, PopLayers
<1>18. Paper(r) /\ Clear(r)
  BY <1>15, <1>16, StillDraft
<1> QED BY <1>14, <1>16, <1>17, <1>18 DEF Placed

\* The same in a block.
LEMMA BlockBegun ==
  ASSUME NEW e, NEW ev, Fits(e, ev), Placed(e), NEW first \in BOOLEAN,
         e.state \in (IF first THEN EmitFirsts \ FlowFirsts ELSE Quiet \ {"document end"}),
         NEW r, r = IF first THEN IncreaseIndent(e, FALSE) ELSE e
  PROVE  Blocking(r, ev)
<1>1. /\ e.state # "error" /\ e.state \in Calm
      /\ first => e.state \in EmitFirsts /\ e.state \notin Quiet
      /\ ~first => e.state \in EmitOpened
  BY DEF FlowFirsts, Quiet, EmitFirsts, EmitOpened, Calm
<1>2. Layered(e.state, e.states, e.flow) /\ Draft(e)
  BY <1>1 DEF Placed, Draft
<1>3. e.flow = 0 /\ Blocky(e.states)
  BY <1>1, <1>2, Voices DEF Layered
<1>4. PICK st, sts, ind, inds : Emits(e, ev, st, sts, ind, inds)
  BY DEF Fits
<1>5. Shaped(e) /\ DOMAIN e = EmitterFields
  BY <1>4, ShapedEmits
<1>6. CASE ~first
  <2>1. Inside(e, ev)
    BY <1>1, <1>6, GoesIn
  <2> QED BY <1>2, <1>3, <1>6, <2>1 DEF Blocking
<1>7. CASE first
  <2>1. PICK q, flow, levels : /\ q = r /\ q = IncreaseIndent(e, flow)
                               /\ levels = Append(e.indents, e.indent)
    BY <1>7
  <2>2. PICK in \in Nat : Emits(q, e.events, e.state, e.states, in, levels)
    <3>1. Emits(e, e.events, e.state, e.states, e.indent, e.indents)
      BY <1>5 DEF Shaped
    <3> QED BY <2>1, <3>1, IncreaseEmits
  <2>7. DOMAIN q = EmitterFields /\ q.states = e.states
    BY <2>2 DEF Emits
  <2>8. Still(e, q) /\ q.flow = e.flow
    <3>1. \A fl : Still(e, IncreaseIndent(e, fl)) /\ IncreaseIndent(e, fl).flow = e.flow
      BY <1>5, StateStill
    <3> QED BY <2>1, <3>1, Zenon
  <2>3. DOMAIN r = EmitterFields /\ r.states = e.states
    BY <2>1, <2>7
  <2>4. Still(e, r) /\ r.flow = e.flow
    BY <2>1, <2>8
  <2>5. Draft(r)
    BY <1>2, <2>3, <2>4, StillDraft DEF Draft
  <2>6. Inside(r, ev)
    BY <1>1, <1>7, GoesIn
  <2> QED BY <1>3, <2>3, <2>4, <2>5, <2>6 DEF Blocking
<1> QED BY <1>6, <1>7

LEMMA BlockingWrites ==
  ASSUME NEW e, NEW ev, Blocking(e, ev), NEW i, i = WriteIndent(e)
  PROVE  Blocking(i, ev) /\ Neat(i) /\ i.events = ev
<1>1. Shaped(e) /\ Draft(e) /\ e.events = ev /\ e.flow = 0 /\ Blocky(e.states)
  BY InsideFacts DEF Blocking
<1>2. Neat(i) /\ i.states = e.states /\ i.flow = e.flow /\ i.events = e.events
  BY <1>1, IndentNeat DEF Written, Keeping
<1>3. Inside(i, ev)
  BY InsideWrites DEF Blocking
<1> QED BY <1>1, <1>2, <1>3 DEF Blocking, Neat, Draft

LEMMA BlockingMarks ==
  ASSUME NEW e, NEW ev, Blocking(e, ev), Neat(e), NEW kind \in Indicators,
         NEW a, NEW b, NEW c, NEW w, w = Indicator(e, kind, a, b, c)
  PROVE  Blocking(w, ev) /\ Neat(w)
<1>1. Shaped(e) /\ e.flow = 0 /\ Blocky(e.states) /\ kind \in Indicators \cup {"---"}
  BY InsideFacts DEF Blocking
<1>2. Neat(w) /\ w.states = e.states /\ w.flow = e.flow
  BY <1>1, IndicatorNeat DEF Written, Keeping
<1>3. Inside(w, ev)
  BY InsideWrites DEF Blocking
<1> QED BY <1>1, <1>2, <1>3 DEF Blocking, Neat, Draft

LEMMA BlockingNode ==
  ASSUME NEW e, NEW ev, Blocking(e, ev), Neat(e), NEW back \in Quiet \cup {Simple},
         NEW event, event.value \in ScalarSet, back = Simple => OneLine(e, event)
  PROVE  Placed(EmitNode(Later(e, back), event))
<1>1. PICK r : r = EmitNode(Later(e, back), event)
  OBVIOUS
<1>2. Shaped(e) /\ e.flow = 0 /\ Blocky(e.states) /\ back \in Calm /\ back \in EmitStates
  BY InsideFacts, Voices DEF Blocking
<1>3. Layered(back, e.states, e.flow)
  BY <1>2 DEF Layered
<1> QED BY <1>1, <1>2, <1>3, NodePlaced

LEMMA BlockEnds ==
  ASSUME NEW e, NEW ev, Blocking(e, ev)
  PROVE  Placed(Resume(DecreaseIndent(e)))
<1>1. /\ Shaped(e) /\ DOMAIN e = EmitterFields /\ e.states # <<>> /\ e.indents # <<>>
      /\ Paper(e) /\ (Clear(e) \/ Hung(e)) /\ e.flow = 0 /\ Blocky(e.states)
  BY InsideFacts DEF Blocking, Draft
<1>2. PICK d, rest : d = DecreaseIndent(e) /\ rest = Front(e.indents)
  OBVIOUS
<1>3. PICK up : Emits(d, e.events, e.state, e.states, up, rest)
  BY <1>1, <1>2, DecreaseEmits DEF Shaped
<1>4. DOMAIN d = EmitterFields /\ Still(e, d) /\ d.flow = 0 /\ d.states = e.states
  BY <1>1, <1>2, <1>3, StateStill, ShapedEmits
<1>5. PICK r, back, states : r = Resume(d) /\ back = Last(d.states) /\ states = Front(d.states)
  OBVIOUS
<1>6. /\ Still(e, r) /\ r.flow = 0 /\ r.state = back /\ r.states = states
      /\ DOMAIN r = EmitterFields
  <2>1. r = [d EXCEPT !.state = back, !.states = states]
    BY <1>5 DEF Resume
  <2> QED BY <1>4, <2>1 DEF Still, EmitterFields
<1>7. Layered(back, states, 0) /\ back \in Quiet
  BY <1>1, <1>4, <1>5, BlockyLayers, PopLayers
<1>8. Paper(r) /\ (Clear(r) \/ Hung(r))
  BY <1>1, <1>6, StillDraft
<1> QED BY <1>2, <1>5, <1>6, <1>7, <1>8 DEF Placed

\* The functions of the states, one by one.
LEMMA FlowSequencePlaced ==
  ASSUME NEW e, NEW ev, Fits(e, ev), Placed(e), NEW event, event.value \in ScalarSet,
         NEW first \in BOOLEAN, e.state \in (IF first THEN FlowFirsts ELSE Loud)
  PROVE  Placed(EmitFlowSequenceItem(e, event, first))
<1>1. PICK r : r = IF first THEN OpenFlow(e, "[") ELSE e
  OBVIOUS
<1>2. "[" \in Indicators /\ "]" \in Indicators /\ "flow sequence item" \in Loud
  BY DEF Indicators, Loud
<1>3. Flowing(r, ev)
  BY <1>1, <1>2, FlowBegun
<1>4. Placed(CloseFlow(r, "]"))
  BY <1>2, <1>3, FlowEnds
<1>5. PICK c : c = Comma(r, first) /\ Flowing(c, ev)
  BY <1>3, FlowingComma
<1>6. Placed(EmitNode(Later(c, "flow sequence item"), event))
  BY <1>2, <1>5, FlowingNode
<1> QED BY <1>1, <1>4, <1>5, <1>6 DEF EmitFlowSequenceItem

LEMMA FlowMappingPlaced ==
  ASSUME NEW e, NEW ev, Fits(e, ev), Placed(e), NEW event, event.value \in ScalarSet,
         NEW first \in BOOLEAN, e.state \in (IF first THEN FlowFirsts ELSE Loud)
  PROVE  Placed(EmitFlowMappingKey(e, event, first))
<1>1. PICK r : r = IF first THEN OpenFlow(e, "{") ELSE e
  OBVIOUS
<1>2. /\ "{" \in Indicators /\ "}" \in Indicators /\ "?" \in Indicators
      /\ "flow mapping simple value" \in Loud /\ "flow mapping value" \in Loud
  BY DEF Indicators, Loud
<1>3. Flowing(r, ev)
  BY <1>1, <1>2, FlowBegun
<1>4. Placed(CloseFlow(r, "}"))
  BY <1>2, <1>3, FlowEnds
<1>5. PICK c : c = Comma(r, first) /\ Flowing(c, ev)
  BY <1>3, FlowingComma
<1>6. PICK w, x, y, z : w = Indicator(c, "?", TRUE, FALSE, FALSE) /\ w = Indicator(c, "?", x, y, z)
  OBVIOUS
<1>7. Flowing(w, ev)
  BY <1>2, <1>5, <1>6, FlowingWrites
<1>8. Placed(EmitNode(Later(c, "flow mapping simple value"), event))
  BY <1>2, <1>5, FlowingNode
<1>9. Placed(EmitNode(Later(w, "flow mapping value"), event))
  BY <1>2, <1>7, FlowingNode
<1> QED BY <1>1, <1>4, <1>5, <1>6, <1>8, <1>9 DEF EmitFlowMappingKey

LEMMA FlowValuePlaced ==
  ASSUME NEW e, NEW ev, Fits(e, ev), Placed(e), NEW event, event.value \in ScalarSet,
         e.state \in Loud
  PROVE  Placed(EmitFlowMappingValue(e, event))
<1>1. ":" \in Indicators /\ "flow mapping key" \in Loud
  BY DEF Indicators, Loud
<1>2. Flowing(e, ev)
  <2>1. PICK first, r : first = FALSE /\ r = e
    OBVIOUS
  <2> QED BY <1>1, <2>1, FlowBegun
<1>3. PICK complex : complex = ~(e.state = "flow mapping simple value")
  OBVIOUS
<1>4. PICK w, x, y : w = Indicator(e, ":", complex, FALSE, FALSE) /\ w = Indicator(e, ":", complex, x, y)
  OBVIOUS
<1>5. Flowing(w, ev)
  BY <1>1, <1>2, <1>4, FlowingWrites
<1>6. Placed(EmitNode(Later(w, "flow mapping key"), event))
  BY <1>1, <1>5, FlowingNode
<1> QED BY <1>3, <1>4, <1>6 DEF EmitFlowMappingValue

LEMMA BlockSequencePlaced ==
  ASSUME NEW e, NEW ev, Fits(e, ev), Placed(e), NEW event, event.value \in ScalarSet,
         NEW first \in BOOLEAN,
         e.state \in (IF first THEN EmitFirsts \ FlowFirsts ELSE Quiet \ {"document end"})
  PROVE  Placed(EmitBlockSequenceItem(e, event, first))
<1>1. PICK r : r = IF first THEN IncreaseIndent(e, FALSE) ELSE e
  OBVIOUS
<1>2. /\ "-" \in Indicators /\ "block sequence item" \in Quiet \cup {Simple}
      /\ "block sequence item" # Simple
  BY DEF Indicators, Quiet, Simple
<1>3. Blocking(r, ev)
  BY <1>1, BlockBegun
<1>4. Placed(Resume(DecreaseIndent(r)))
  BY <1>3, BlockEnds
<1>5. PICK i : i = WriteIndent(r) /\ Blocking(i, ev) /\ Neat(i)
  BY <1>3, BlockingWrites
<1>6. PICK w, x, y, z : w = Indicator(i, "-", TRUE, FALSE, TRUE) /\ w = Indicator(i, "-", x, y, z)
  OBVIOUS
<1>7. Blocking(w, ev) /\ Neat(w)
  BY <1>2, <1>5, <1>6, BlockingMarks
<1>8. Placed(EmitNode(Later(w, "block sequence item"), event))
  BY <1>2, <1>7, BlockingNode
<1> QED BY <1>1, <1>4, <1>5, <1>6, <1>8 DEF EmitBlockSequenceItem

LEMMA BlockMappingPlaced ==
  ASSUME NEW e, Fits(e, e.events), Placed(e), NEW event, event.value \in ScalarSet,
         event = e.events[1], NEW first \in BOOLEAN,
         e.state \in (IF first THEN EmitFirsts \ FlowFirsts ELSE Quiet \ {"document end"})
  PROVE  Placed(EmitBlockMappingKey(e, event, first))
<1>1. PICK r, ev : r = (IF first THEN IncreaseIndent(e, FALSE) ELSE e) /\ ev = e.events
  OBVIOUS
<1>2. /\ "?" \in Indicators /\ "block mapping value" \in Quiet \cup {Simple}
      /\ "block mapping value" # Simple /\ Simple \in Quiet \cup {Simple}
  BY DEF Indicators, Quiet, Simple
<1>3. Blocking(r, ev)
  BY <1>1, BlockBegun
<1>4. Placed(Resume(DecreaseIndent(r)))
  BY <1>3, BlockEnds
<1>5. PICK i : i = WriteIndent(r) /\ Blocking(i, ev) /\ Neat(i) /\ i.events = ev
  BY <1>3, BlockingWrites
<1>6. PICK w, x, y, z : w = Indicator(i, "?", TRUE, FALSE, TRUE) /\ w = Indicator(i, "?", x, y, z)
  OBVIOUS
<1>7. Blocking(w, ev) /\ Neat(w)
  BY <1>2, <1>5, <1>6, BlockingMarks
<1>8. Placed(EmitNode(Later(w, "block mapping value"), event))
  BY <1>2, <1>7, BlockingNode
<1>9. ASSUME SimpleKey(e)
      PROVE  Placed(EmitNode(Later(i, "block mapping simple value"), event))
  <2>1. EmptyCollection(i) <=> EmptyCollection(e)
    BY <1>1, <1>5 DEF EmptyCollection
  <2>2. OneLine(i, event)
    BY <1>9, <2>1 DEF OneLine, SimpleKey
  <2>3. Placed(EmitNode(Later(i, Simple), event))
    BY <1>2, <1>5, <2>2, BlockingNode
  <2> QED BY <2>3 DEF Simple
<1> QED BY <1>1, <1>4, <1>5, <1>6, <1>8, <1>9 DEF EmitBlockMappingKey

LEMMA BlockValuePlaced ==
  ASSUME NEW e, NEW ev, Fits(e, ev), Placed(e), NEW event, event.value \in ScalarSet,
         e.state \in {"block mapping simple value", "block mapping value"}
  PROVE  Placed(EmitBlockMappingValue(e, event))
<1>1. /\ ":" \in Indicators /\ "block mapping key" \in Quiet \cup {Simple}
      /\ "block mapping key" # Simple
  BY DEF Indicators, Quiet, Simple
<1>2. CASE e.state = "block mapping simple value"
  <2>1. /\ e.state # "error" /\ e.state \notin Quiet /\ e.state \in Calm
        /\ e.state \in EmitOpened
    BY <1>2 DEF Quiet, Calm, Simple, EmitOpened
  <2>2. Inside(e, ev)
    BY <2>1, GoesIn
  <2>3. Neat(e) /\ e.flow = 0 /\ Blocky(e.states)
    BY <2>1, Voices DEF Placed, Layered, Neat
  <2>4. Blocking(e, ev)
    BY <2>2, <2>3 DEF Blocking, Neat, Draft
  <2>5. PICK w, x, y, z : w = Indicator(e, ":", FALSE, FALSE, FALSE) /\ w = Indicator(e, ":", x, y, z)
    OBVIOUS
  <2>6. Blocking(w, ev) /\ Neat(w)
    BY <1>1, <2>3, <2>4, <2>5, BlockingMarks
  <2>7. Placed(EmitNode(Later(w, "block mapping key"), event))
    BY <1>1, <2>6, BlockingNode
  <2> QED BY <1>2, <2>5, <2>7 DEF EmitBlockMappingValue
<1>3. CASE e.state = "block mapping value"
  <2>1. e.state \in Quiet \ {"document end"} /\ e.state # "block mapping simple value"
    BY <1>3 DEF Quiet
  <2>2. PICK first, r : first = FALSE /\ r = e
    OBVIOUS
  <2>3. Blocking(e, ev)
    BY <2>1, <2>2, BlockBegun
  <2>4. PICK i : i = WriteIndent(e) /\ Blocking(i, ev) /\ Neat(i)
    BY <2>3, BlockingWrites
  <2>5. PICK w, x, y, z : w = Indicator(i, ":", TRUE, FALSE, TRUE) /\ w = Indicator(i, ":", x, y, z)
    OBVIOUS
  <2>6. Blocking(w, ev) /\ Neat(w)
    BY <1>1, <2>4, <2>5, BlockingMarks
  <2>7. Placed(EmitNode(Later(w, "block mapping key"), event))
    BY <1>1, <2>6, BlockingNode
  <2> QED BY <2>1, <2>4, <2>5, <2>7 DEF EmitBlockMappingValue
<1> QED BY <1>2, <1>3

\* The documents.
LEMMA DocumentPlaced ==
  ASSUME NEW e, NEW ev, Fits(e, ev), Placed(e), e.state \in EmitOuter,
         NEW event, event.value \in ScalarSet
  PROVE  /\ e.state \notin Quiet => Placed(EmitDocumentStart(e, event))
         /\ Placed(EmitDocumentEnd(e, event))
         /\ e.state \notin Quiet => Placed(EmitNode(Later(e, "document end"), event))
         /\ Placed(Become(e, "error"))
<1>1. e.state # "error" /\ e.state \in Calm
  BY DEF EmitOuter, Calm
<1>2. /\ Draft(e) /\ DOMAIN e = EmitterFields /\ e.flow = 0 /\ Blocky(e.states)
      /\ e.state \notin Quiet => Neat(e)
  BY <1>1, Voices DEF Placed, Layered, Draft, Neat, Paper
<1>3. PICK st, sts, ind, inds : Emits(e, ev, st, sts, ind, inds)
  BY DEF Fits
<1>4. Shaped(e)
  BY <1>3, ShapedEmits
<1>5. ASSUME NEW q, Neat(q), q.flow = 0, q.states = e.states, NEW s \in EmitOuter,
             NEW r, r = Become(q, s)
      PROVE  Placed(r)
  <2>1. DOMAIN q = EmitterFields /\ Paper(q) /\ Clear(q)
    BY <1>5 DEF Neat, Paper
  <2>2. /\ r.state = s /\ r.states = q.states /\ r.flow = q.flow
        /\ DOMAIN r = EmitterFields /\ Still(q, r)
    BY <1>5, <2>1, BecomePlaced
  <2>3. Paper(r) /\ Clear(r)
    BY <2>1, <2>2, StillDraft
  <2>4. Layered(s, e.states, 0)
    BY <1>2, <1>5, Voices DEF Layered
  <2> QED BY <1>5, <2>2, <2>3, <2>4 DEF Placed
<1>6. Placed(Become(e, "error"))
  <2>1. PICK r : r = Become(e, "error")
    OBVIOUS
  <2>2. r.state = "error"
    BY <1>2, <2>1, BecomePlaced
  <2> QED BY <2>1, <2>2 DEF Placed
<1>7. PICK i : i = WriteIndent(e)
  OBVIOUS
<1>8. Neat(i) /\ Shaped(i) /\ i.states = e.states /\ i.flow = 0
  BY <1>2, <1>4, <1>7, IndentNeat DEF Written, Keeping
<1>9. PICK w, x, y, z : w = Indicator(i, "---", TRUE, FALSE, FALSE) /\ w = Indicator(i, "---", x, y, z)
  OBVIOUS
<1>10. Neat(w) /\ Shaped(w) /\ w.states = e.states /\ w.flow = 0
  <2>1. Neat(w) /\ Written(i, w)
    BY <1>8, <1>9, IndicatorNeat
  <2> QED BY <1>8, <2>1 DEF Written, Keeping
<1>11. PICK d : d = WriteIndent(w)
  OBVIOUS
<1>12. Neat(d) /\ d.states = e.states /\ d.flow = 0
  <2>1. Draft(w)
    BY <1>10 DEF Neat, Draft
  <2>2. Neat(d) /\ Written(w, d)
    BY <1>10, <1>11, <2>1, IndentNeat
  <2> QED BY <1>10, <2>2 DEF Written, Keeping
<1>13. "end" \in EmitOuter /\ "document content" \in EmitOuter /\ "document start" \in EmitOuter
  BY DEF EmitOuter
<1>14. ASSUME e.state \notin Quiet
       PROVE  Placed(EmitDocumentStart(e, event))
  <2>1. PICK r : r = IF e.state = "first document start" THEN e ELSE d
    OBVIOUS
  <2>2. Neat(r) /\ r.flow = 0 /\ r.states = e.states
    BY <1>2, <1>12, <1>14, <2>1
  <2>3. Placed(Become(e, "end")) /\ Placed(Become(r, "document content"))
    BY <1>2, <1>5, <1>13, <1>14, <2>2
  <2>4. EmitDocumentStart(e, event) =
          CASE event.type = "stream-end" -> Become(e, "end")
            [] event.type = "document-start" -> Become(r, "document content")
            [] OTHER -> Become(e, "error")
    BY <1>7, <1>9, <1>11, <2>1 DEF EmitDocumentStart
  <2>5. EmitDocumentStart(e, event) \in
          {Become(e, "end"), Become(r, "document content"), Become(e, "error")}
    BY <2>4
  <2> QED BY <1>6, <2>3, <2>5
<1>15. Placed(EmitDocumentEnd(e, event))
  <2>1. Placed(Become(i, "document start"))
    BY <1>5, <1>8, <1>13
  <2> QED BY <1>6, <1>7, <2>1 DEF EmitDocumentEnd
<1>16. ASSUME e.state \notin Quiet
       PROVE  Placed(EmitNode(Later(e, "document end"), event))
  <2>1. PICK back : back = "document end"
    OBVIOUS
  <2>2. back \in Quiet /\ back # Simple
    BY <2>1 DEF Quiet, Simple
  <2>3. back \in EmitStates /\ Layered(back, e.states, e.flow)
    BY <1>2, <2>2, Voices DEF Layered
  <2>4. PICK r : r = EmitNode(Later(e, back), event)
    OBVIOUS
  <2>5. Placed(r)
    BY <1>2, <1>4, <1>16, <2>2, <2>3, <2>4, NodePlaced
  <2> QED BY <2>1, <2>4, <2>5
<1> QED BY <1>6, <1>14, <1>15, <1>16

LEMMA DispatchPlaced ==
  ASSUME NEW e, Fits(e, e.events), Placed(e), e.state # "error",
         NEW event, event = e.events[1], event.value \in ScalarSet
  PROVE  Placed(Dispatch(e, event))
<1>1. e.state \in EmitOuter \cup EmitFirsts \cup EmitOpened
  BY DEF Fits, Nested
<1>2. TRUE \in BOOLEAN /\ FALSE \in BOOLEAN
  OBVIOUS
<1>3. CASE e.state \in EmitOuter
  <2>1. CASE e.state = "document end"
    <3>1. Dispatch(e, event) = EmitDocumentEnd(e, event)
      BY <2>1 DEF Dispatch
    <3> QED BY <1>3, <3>1, DocumentPlaced
  <2>2. CASE e.state # "document end"
    <3>1. e.state \notin Quiet
      BY <1>3, <2>2 DEF EmitOuter, Quiet
    <3>2. Dispatch(e, event) \in
            {EmitDocumentStart(e, event), EmitNode(Later(e, "document end"), event),
             Become(e, "error")}
      BY <1>3, <2>2 DEF Dispatch, EmitOuter
    <3> QED BY <1>3, <3>1, <3>2, DocumentPlaced
  <2> QED BY <2>1, <2>2
<1>4. CASE e.state \in FlowFirsts
  <2>1. /\ Placed(EmitFlowSequenceItem(e, event, TRUE))
        /\ Placed(EmitFlowMappingKey(e, event, TRUE))
    BY <1>2, <1>4, FlowSequencePlaced, FlowMappingPlaced
  <2>2. Dispatch(e, event) \in
          {EmitFlowSequenceItem(e, event, TRUE), EmitFlowMappingKey(e, event, TRUE)}
    BY <1>4 DEF Dispatch, FlowFirsts
  <2> QED BY <2>1, <2>2
<1>5. CASE e.state \in EmitFirsts \ FlowFirsts
  <2>1. /\ Placed(EmitBlockSequenceItem(e, event, TRUE))
        /\ Placed(EmitBlockMappingKey(e, event, TRUE))
    BY <1>2, <1>5, BlockSequencePlaced, BlockMappingPlaced
  <2>2. Dispatch(e, event) \in
          {EmitBlockSequenceItem(e, event, TRUE), EmitBlockMappingKey(e, event, TRUE)}
    BY <1>5 DEF Dispatch, EmitFirsts, FlowFirsts
  <2> QED BY <2>1, <2>2
<1>6. CASE e.state \in Loud
  <2>1. /\ Placed(EmitFlowSequenceItem(e, event, FALSE))
        /\ Placed(EmitFlowMappingKey(e, event, FALSE))
        /\ Placed(EmitFlowMappingValue(e, event))
    BY <1>2, <1>6, FlowSequencePlaced, FlowMappingPlaced, FlowValuePlaced
  <2>2. Dispatch(e, event) \in
          {EmitFlowSequenceItem(e, event, FALSE), EmitFlowMappingKey(e, event, FALSE),
           EmitFlowMappingValue(e, event)}
    BY <1>6 DEF Dispatch, Loud
  <2> QED BY <2>1, <2>2
<1>7. CASE e.state \in {"block sequence item", "block mapping key"}
  <2>1. e.state \in Quiet \ {"document end"}
    BY <1>7 DEF Quiet
  <2>2. /\ Placed(EmitBlockSequenceItem(e, event, FALSE))
        /\ Placed(EmitBlockMappingKey(e, event, FALSE))
    BY <1>2, <2>1, BlockSequencePlaced, BlockMappingPlaced
  <2>3. Dispatch(e, event) \in
          {EmitBlockSequenceItem(e, event, FALSE), EmitBlockMappingKey(e, event, FALSE)}
    BY <1>7 DEF Dispatch
  <2> QED BY <2>2, <2>3
<1>8. CASE e.state \in {"block mapping simple value", "block mapping value"}
  <2>1. Placed(EmitBlockMappingValue(e, event))
    BY <1>8, BlockValuePlaced
  <2>2. Dispatch(e, event) = EmitBlockMappingValue(e, event)
    BY <1>8 DEF Dispatch
  <2> QED BY <2>1, <2>2
<1>9. e.state \in EmitOpened =>
        \/ e.state \in Loud \/ e.state \in {"block sequence item", "block mapping key"}
        \/ e.state \in {"block mapping simple value", "block mapping value"}
  BY DEF EmitOpened, Loud
<1> QED BY <1>1, <1>3, <1>4, <1>5, <1>6, <1>7, <1>8, <1>9

-----------------------------------------------------------------------------
(* The text that is written is read from its first line.                   *)

\* What a scanner finds behind a plain scalar is the line of the next lexeme at most.
LEMMA TrailsFollow ==
  ASSUME NEW t, Laid(t)
  PROVE  Follow(WithTrails(t), Mark(0, 0))
<1>1. PICK u, n : u = WithTrails(t) /\ n = Len(t)
  OBVIOUS
<1>2. /\ n \in Nat /\ DOMAIN t = 1..n /\ t \in Seq(LexemeSet)
      /\ \A i \in 1..n : t[i] \in LexemeSet
  BY <1>1, LenProperties, ElementOfSeq DEF Laid
<1>3. u \in Seq(LexemeSet)
  BY <1>1, <1>2, TrailsType
<1>4. Len(u) = n
  <2>1. DOMAIN u = 1..n
    BY <1>1, <1>2 DEF WithTrails
  <2> QED BY <1>2, <1>3, <2>1, LenProperties
<1>5. ASSUME NEW i \in 1..n
      PROVE  /\ Lies(u[i], PlaceOf(u[i])) /\ PlaceOf(u[i]) = PlaceOf(t[i])
             /\ \/ EndOf(u[i]) = EndOf(t[i])
                \/ /\ EndOf(u[i]) = Mark(t[i].line + 1, 0)
                   /\ i = n \/ t[i + 1].line > t[i].line
  <2>1. PICK x, y, b : /\ x = t[i] /\ y = u[i]
                       /\ b = (/\ t[i].kind = "plain"
                               /\ i = Len(t) \/ t[i + 1].line > t[i].line)
    OBVIOUS
  <2>2. y = [x EXCEPT !.trail = b]
    BY <1>1, <1>2, <2>1 DEF WithTrails
  <2>3. /\ x \in LexemeSet /\ Lies(x, PlaceOf(x)) /\ ~x.trail
        /\ x.kind # "literal" => x.down = 0
    BY <1>1, <1>2, <2>1 DEF Laid
  <2>4. /\ y.kind = x.kind /\ y.line = x.line /\ y.col = x.col /\ y.width = x.width
        /\ y.down = x.down /\ y.trail = b
    <3>1. DOMAIN x = LexemeFields
      BY <2>3 DEF LexemeSet, LexemeFields
    <3> QED BY <2>2, <3>1 DEF LexemeFields
  <2>5. PlaceOf(y) = PlaceOf(x) /\ Lies(y, PlaceOf(y))
    BY <2>3, <2>4 DEF Lies, PlaceOf
  <2>6. CASE ~b
    <3>1. ~y.trail
      BY <2>4, <2>6
    <3>2. EndOf(y) = EndOf(x)
      BY <2>3, <2>4, <3>1 DEF EndOf, PastOf
    <3> QED BY <2>1, <2>5, <3>2
  <2>7. CASE b
    <3>1. x.kind = "plain" /\ (i = n \/ t[i + 1].line > t[i].line)
      BY <1>1, <2>1, <2>7
    <3>2. x.kind # "literal" /\ y.kind # "literal" /\ y.trail /\ y.down = 0
      BY <2>3, <2>4, <2>7, <3>1
    <3>3. EndOf(y) = Mark(y.line + y.down + 1, 0)
      BY <3>2 DEF EndOf, PastOf
    <3>4. y.line + y.down + 1 = x.line + 1
      BY <2>3, <2>4, <3>2, LexemeFacts
    <3> QED BY <2>1, <2>5, <3>1, <3>3, <3>4
  <2> QED BY <2>6, <2>7
<1>6. ASSUME NEW i \in 1..n
      PROVE  Upto(Mark(0, 0), PlaceOf(t[i]))
  <2>1. t[i].line \in Nat /\ t[i].col \in Nat
    BY <1>2, LexemeFacts
  <2> QED BY <2>1 DEF Upto, PlaceOf, Mark
<1>7. ASSUME NEW i \in 1..n, NEW j \in 1..n, i < j
      PROVE  Upto(EndOf(u[i]), PlaceOf(u[j]))
  <2>1. PlaceOf(u[j]) = PlaceOf(t[j]) /\ Upto(EndOf(t[i]), PlaceOf(t[j]))
    BY <1>1, <1>5, <1>7 DEF Laid
  <2>2. CASE EndOf(u[i]) = EndOf(t[i])
    BY <2>1, <2>2
  <2>3. CASE EndOf(u[i]) # EndOf(t[i])
    <3>1. EndOf(u[i]) = Mark(t[i].line + 1, 0) /\ (i = n \/ t[i + 1].line > t[i].line)
      BY <1>5, <2>3
    <3>2. PICK k : k = i + 1
      OBVIOUS
    <3>3. k \in 1..n /\ i # n
      BY <1>2, <1>7, <3>2
    <3>4. /\ t[k].line > t[i].line /\ t[k].line \in Nat /\ t[i].line \in Nat
          /\ t[j].line \in Nat /\ t[j].col \in Nat
      BY <1>2, <3>1, <3>2, <3>3, LexemeFacts
    <3>5. Upto(PlaceOf(t[k]), PlaceOf(t[j]))
      <4>1. /\ PlaceOf(t[k]) \in Positions /\ EndOf(t[k]) \in Positions
            /\ PlaceOf(t[j]) \in Positions
        BY <1>2, <3>3, PlacesOf
      <4>2. CASE j = k
        BY <4>1, <4>2, UptoFacts
      <4>3. CASE j # k
        <5>1. k < j
          BY <1>2, <1>7, <3>2, <4>3
        <5>2. Upto(EndOf(t[k]), PlaceOf(t[j])) /\ Lies(t[k], PlaceOf(t[k]))
          BY <1>1, <3>3, <5>1 DEF Laid
        <5>3. Upto(PlaceOf(t[k]), EndOf(t[k]))
          BY <1>2, <3>3, <5>2, LiesWithin
        <5> QED BY <4>1, <5>2, <5>3, UptoFacts
      <4> QED BY <4>2, <4>3
    <3>6. t[k].line <= t[j].line
      BY <3>4, <3>5 DEF Upto, PlaceOf, Mark
    <3>7. Upto(Mark(t[i].line + 1, 0), PlaceOf(t[j]))
      BY <3>4, <3>6 DEF Upto, PlaceOf, Mark
    <3> QED BY <2>1, <3>1, <3>7
  <2> QED BY <2>2, <2>3
<1>8. \A i \in 1..n : Lies(u[i], PlaceOf(u[i])) /\ Upto(Mark(0, 0), PlaceOf(u[i]))
  BY <1>5, <1>6
<1>9. \A i, j \in 1..n : i < j => Upto(EndOf(u[i]), PlaceOf(u[j]))
  BY <1>7
<1> QED BY <1>1, <1>4, <1>8, <1>9 DEF Follow

\* The events that wait for the emitter are not in its text.
LEMMA QueuePlaced ==
  ASSUME NEW e, DOMAIN e = EmitterFields, Placed(e), NEW q, NEW r, r = [e EXCEPT !.events = q]
  PROVE  Placed(r)
<1>1. /\ r.state = e.state /\ r.states = e.states /\ r.flow = e.flow
      /\ DOMAIN r = EmitterFields /\ Still(e, r)
  BY DEF EmitterFields, Still
<1>2. Paper(e) => Paper(r) /\ (Clear(e) => Clear(r)) /\ (Hung(e) => Hung(r))
  BY <1>1, StillDraft
<1> QED BY <1>1, <1>2 DEF Placed

LEMMA EmitPlaced ==
  ASSUME WriterInv, Placed(emitter), Emit
  PROVE  Placed(emitter)'
<1>1. PICK e, event : e = emitter /\ event = e.events[1]
  OBVIOUS
<1>2. e.events \in Seq(EventSet) /\ e.events # <<>> /\ e.state # "error"
  BY <1>1 DEF WriterInv, Emit, Encoding, NeedMoreEvents
<1>3. event.value \in ScalarSet
  <2>1. Len(e.events) \in Nat \ {0}
    BY <1>2, EmptySeq, LenProperties
  <2>2. event \in EventSet
    BY <1>1, <1>2, <2>1, ElementOfSeq
  <2> QED BY <2>2 DEF EventSet
<1>4. PICK r, q : r = Dispatch(e, event) /\ q = Tail(r.events)
  OBVIOUS
<1>5. Fits(e, e.events) /\ Placed(e)
  BY <1>1 DEF WriterInv
<1>6. Placed(r)
  BY <1>1, <1>2, <1>3, <1>4, <1>5, DispatchPlaced
<1>7. DOMAIN r = EmitterFields
  <2>1. Fits(r, e.events)
    BY <1>2, <1>3, <1>4, <1>5, DispatchFits
  <2> QED BY <2>1 DEF Fits, Emits
<1>8. emitter' = [r EXCEPT !.events = q]
  BY <1>1, <1>4 DEF Emit, EmitHead
<1>9. PICK f : f = [r EXCEPT !.events = q]
  OBVIOUS
<1>10. Placed(f)
  BY <1>6, <1>7, <1>9, QueuePlaced
<1> QED BY <1>8, <1>9, <1>10

\* The bounds of the instance: what the encoder may send, and a text have.
BoundsInv ==
  /\ given \subseteq Kinds /\ phase \in {"writing", "reading"}
  /\ nodes \in 0..MaxNodes /\ documents \in 0..MaxDocuments /\ length \in Nat

\* What is read of a text that is written begins when it is written.
PlacesInv == Placed(emitter) /\ (phase = "writing" => scanner = NewScanner)
KeyedInv  == KeysInv /\ PlacesInv /\ BoundsInv

LEMMA InitKeyed == Init => KeyedInv
<1> SUFFICES ASSUME Init PROVE KeyedInv
  OBVIOUS
<1>1. /\ scanner = NewScanner /\ text = <<>> /\ emitter = NewEmitter
      /\ nodes = 0 /\ documents = 0
  BY DEF Init
<1>2. KeysInv
  <2>1. Len(text) = 0
    BY <1>1
  <2>2. Follow(text, scanner.mark)
    BY <2>1 DEF Follow
  <2> QED BY <1>1, <2>2 DEF KeysInv
<1>3. PICK e : e = NewEmitter
  OBVIOUS
<1>4. /\ DOMAIN e = EmitterFields /\ e.line = 0 /\ e.col = 0 /\ e.text = <<>>
      /\ e.flow = 0 /\ e.states = <<>> /\ e.state = "first document start"
  BY <1>3 DEF NewEmitter, EmitterFields
<1>5. Placed(e)
  <2>1. <<>> \in Seq(LexemeSet) /\ <<>> \in Seq(EmitStates) /\ Len(<<>>) = 0
    BY EmptySeq
  <2>2. \A i \in 1..0 : FALSE
    OBVIOUS
  <2>3. Laid(e.text) /\ Passed(e.text, Mark(e.line, e.col))
    BY <1>4, <2>1, <2>2 DEF Laid, Passed
  <2>4. Blocky(e.states)
    BY <1>4, <2>1, <2>2 DEF Blocky
  <2>5. e.state \in Calm
    BY <1>4 DEF Calm, EmitOuter
  <2>6. 0 \in Nat
    OBVIOUS
  <2>7. e.line \in Nat /\ e.col \in Nat
    BY <1>4, <2>6, Zenon
  <2> QED BY <1>4, <2>3, <2>4, <2>5, <2>7 DEF Placed, Layered, Paper, Clear
<1>6. MaxNodes \in Nat /\ MaxDocuments \in Nat
  BY YamlAssumption
<1>7. 0 \in 0..MaxNodes /\ 0 \in 0..MaxDocuments
  BY <1>6
<1>8. given \subseteq Kinds /\ phase \in {"writing", "reading"} /\ length \in Nat
  <2>1. CASE given = {} /\ length = 0 /\ phase = "writing"
    BY <2>1
  <2>2. CASE \E t \in Texts : given = t.kinds /\ length = t.length /\ phase = "reading"
    BY <2>2, YamlAssumption
  <2> QED BY <2>1, <2>2 DEF Init
<1> QED BY <1>1, <1>2, <1>3, <1>5, <1>7, <1>8 DEF KeyedInv, PlacesInv, BoundsInv

LEMMA SendKeyed ==
  ASSUME WriterInv, KeyedInv, NEW event, Send(event)
  PROVE  KeysInv' /\ PlacesInv' /\ UNCHANGED <<given, phase, length>>
<1>1. UNCHANGED <<given, phase, length>> /\ scanner' = scanner /\ text' = text
  BY DEF Send
<1>2. PICK e, q, f : /\ e = emitter /\ q = Append(emitter.events, event)
                     /\ f = [e EXCEPT !.events = q]
  OBVIOUS
<1>3. DOMAIN e = EmitterFields /\ Placed(e)
  BY <1>2 DEF WriterInv, Fits, Emits, KeyedInv, PlacesInv
<1>4. Placed(f)
  BY <1>2, <1>3, QueuePlaced
<1>5. emitter' = f
  BY <1>2 DEF Send
<1>6. Placed(emitter)'
  BY <1>4, <1>5
<1> QED BY <1>1, <1>6 DEF KeyedInv, KeysInv, PlacesInv

LEMMA WritingKeyed ==
  ASSUME WriterInv, KeyedInv, Writing
  PROVE  KeyedInv'
<1>1. /\ nodes \in Nat /\ documents \in Nat /\ nodes <= MaxNodes /\ documents <= MaxDocuments
      /\ MaxNodes \in Nat /\ MaxDocuments \in Nat
  BY YamlAssumption DEF KeyedInv, BoundsInv
<1>2. ASSUME NEW event, Send(event),
             nodes' = nodes \/ (nodes' = nodes + 1 /\ nodes < MaxNodes),
             documents' = documents \/ (documents' = documents + 1 /\ documents < MaxDocuments)
      PROVE  KeyedInv'
  <2>1. KeysInv' /\ PlacesInv' /\ UNCHANGED <<given, phase, length>>
    BY <1>2, SendKeyed
  <2>2. nodes' \in 0..MaxNodes /\ documents' \in 0..MaxDocuments
    BY <1>1, <1>2
  <2>3. BoundsInv'
    BY <2>1, <2>2 DEF KeyedInv, BoundsInv
  <2> QED BY <2>1, <2>3 DEF KeyedInv
<1>3. CASE BeginDocument
  BY <1>2, <1>3 DEF BeginDocument
<1>4. CASE EndDocument
  BY <1>2, <1>4 DEF EndDocument
<1>5. CASE SendScalar
  <2>1. PICK event : Send(event)
    BY <1>5, Zenon DEF SendScalar
  <2>2. nodes' = nodes + 1 /\ nodes < MaxNodes /\ documents' = documents
    BY <1>5 DEF SendScalar, Affordable
  <2> QED BY <1>2, <2>1, <2>2
<1>6. CASE BeginCollection
  <2>1. PICK event : Send(event)
    BY <1>6, Zenon DEF BeginCollection
  <2>2. nodes' = nodes + 1 /\ nodes < MaxNodes /\ documents' = documents
    BY <1>6 DEF BeginCollection, Affordable
  <2> QED BY <1>2, <2>1, <2>2
<1>7. CASE EndCollection
  BY <1>2, <1>7 DEF EndCollection
<1>8. CASE Finish
  BY <1>2, <1>8 DEF Finish
<1>9. CASE Emit
  <2>1. UNCHANGED <<given, phase, nodes, documents, length, scanner, text>>
    BY <1>9 DEF Emit
  <2>2. Placed(emitter)'
    BY <1>9, EmitPlaced DEF KeyedInv, PlacesInv
  <2> QED BY <2>1, <2>2 DEF KeyedInv, KeysInv, PlacesInv, BoundsInv
<1>10. CASE Close
  <2>1. /\ phase = "writing" /\ emitter.state = "end" /\ phase' = "reading"
        /\ text' = WithTrails(emitter.text)
        /\ UNCHANGED <<given, nodes, documents, length, scanner, emitter>>
    BY <1>10 DEF Close, encoding
  <2>2. scanner = NewScanner /\ scanner.mark = Mark(0, 0)
    BY <2>1, NewScannerFacts DEF KeyedInv, PlacesInv
  <2>3. Laid(emitter.text)
    <3>1. emitter.state # "error"
      BY <2>1
    <3> QED BY <3>1 DEF KeyedInv, PlacesInv, Placed, Paper
  <2>4. Follow(text', scanner'.mark)
    BY <2>1, <2>2, <2>3, TrailsFollow
  <2>5. KeysInv'
    BY <2>1, <2>2, <2>4 DEF KeysInv
  <2>6. PlacesInv'
    BY <2>1 DEF KeyedInv, PlacesInv
  <2>7. BoundsInv'
    BY <2>1 DEF KeyedInv, BoundsInv
  <2> QED BY <2>5, <2>6, <2>7 DEF KeyedInv
<1> QED BY <1>3, <1>4, <1>5, <1>6, <1>7, <1>8, <1>9, <1>10 DEF Writing

\* A text has as many lexemes left as there may be, and one is scanned.
LEMMA FetchLength ==
  ASSUME Fetch, length \in Nat
  PROVE  length' \in Nat
<1>1. PICK x \in Upcoming :
        IF ~scanner.started THEN UNCHANGED <<text, plain, length>>
        ELSE length' = IF text = <<>> /\ x.kind # "end" THEN length - 1 ELSE length
  BY Zenon DEF Fetch
<1>2. text = <<>> /\ x.kind # "end" => length > 0
  <2> SUFFICES ASSUME text = <<>>, x.kind # "end", ~(length > 0) PROVE FALSE
    OBVIOUS
  <2>1. x \in {Lexeme("end", Empty, scanner.mark.line, scanner.mark.col, 0, 0)}
    BY DEF Upcoming
  <2>2. x.kind = "end"
    BY <2>1 DEF Lexeme
  <2> QED BY <2>2
<1> QED BY <1>1, <1>2

LEMMA StepKeyed ==
  ASSUME BlocksInv, KeyedInv, [Next]_vars
  PROVE  KeyedInv'
<1>1. MatchedInv /\ TextInv /\ WriterInv /\ KeysInv
  BY DEF BlocksInv, KeyedInv
<1>2. ASSUME KeysInv', UNCHANGED <<given, phase, nodes, documents, emitter>>, length' \in Nat,
             phase = "reading" \/ scanner' = scanner
      PROVE  KeyedInv'
  <2>1. PlacesInv'
    <3>1. phase = "writing" => scanner' = scanner
      BY <1>2
    <3> QED BY <1>2, <3>1 DEF KeyedInv, PlacesInv
  <2>2. BoundsInv'
    BY <1>2 DEF KeyedInv, BoundsInv
  <2> QED BY <1>2, <2>1, <2>2 DEF KeyedInv
<1>3. length \in Nat
  BY DEF KeyedInv, BoundsInv
<1>4. CASE Writing
  BY <1>1, <1>4, WritingKeyed
<1>5. CASE Fetch
  <2>1. UNCHANGED <<given, phase, nodes, documents, emitter>> /\ phase = "reading"
    BY <1>5 DEF Fetch, Reading, encoding
  <2> QED BY <1>1, <1>2, <1>3, <1>5, <2>1, FetchKeys, FetchLength
<1>6. CASE Ready
  <2>1. UNCHANGED <<given, phase, nodes, documents, emitter, length>> /\ phase = "reading"
    BY <1>6 DEF Ready, Reading, encoding
  <2> QED BY <1>1, <1>2, <1>3, <1>6, <2>1, ReadyKeys
<1>7. CASE Parse
  <2>1. UNCHANGED <<given, phase, nodes, documents, emitter, length>> /\ phase = "reading"
    BY <1>7 DEF Parse, Reading, encoding
  <2> QED BY <1>1, <1>2, <1>3, <1>7, <2>1, ParseKeys
<1>8. CASE UNCHANGED vars
  BY <1>8 DEF vars, encoding, KeyedInv, KeysInv, PlacesInv, BoundsInv
<1>9. CASE Done
  BY <1>8, <1>9 DEF Done
<1> QED BY <1>4, <1>5, <1>6, <1>7, <1>8, <1>9 DEF Next, Read

\* What the invariants say of the state's types.
LEMMA KeyedTypes ==
  ASSUME BlocksInv, ParserInv, KeyedInv
  PROVE  TypeOK
<1>1. builder.outcome \in {"reading", "read", "panic", "unknown anchor"}
  BY DEF ParserInv, BuilderInv, Matched
<1>2. scanner.indent \in Int /\ scanner.parsed \in Nat
  <2>1. CASE scanner = NewScanner
    <3>1. scanner.indent = -1 /\ scanner.parsed = 0
      BY <2>1 DEF NewScanner
    <3> QED BY <3>1
  <2>2. CASE Sound(scanner)
    BY <2>2, SoundFacts
  <2> QED BY <2>1, <2>2 DEF BlocksInv, MatchedInv
<1>3. ASSUME NEW i \in DOMAIN text
      PROVE  text[i].line >= scanner.mark.line
  <2>1. text \in Seq(LexemeSet)
    BY DEF BlocksInv, TextInv
  <2>2. i \in 1..Len(text) /\ text[i] \in LexemeSet
    BY <1>3, <2>1, LenProperties, ElementOfSeq
  <2>3. Upto(scanner.mark, PlaceOf(text[i]))
    BY <2>2 DEF KeyedInv, KeysInv, Follow
  <2>4. scanner.mark.line \in Nat
    <3>1. CASE scanner = NewScanner
      <4>1. scanner.mark.line = 0
        BY <3>1, NewScannerFacts DEF Mark
      <4> QED BY <4>1
    <3>2. CASE Sound(scanner)
      BY <3>2, SoundFacts
    <3> QED BY <3>1, <3>2 DEF BlocksInv, MatchedInv
  <2>5. text[i].line \in Nat /\ PlaceOf(text[i]).line = text[i].line
    BY <2>2, LexemeFacts DEF PlaceOf, Mark
  <2> QED BY <2>3, <2>4, <2>5 DEF Upto
<1>4. \A x \in {text[i] : i \in DOMAIN text} : x.line >= scanner.mark.line
  BY <1>3
<1> QED BY <1>1, <1>2, <1>4 DEF TypeOK, KeyedInv, BoundsInv

\* The index of the simple keys leads to keys that are there, and no token is given away
\* that may yet turn out to begin a key (scannerc.go's fetch_more_tokens, save, remove
\* and fetch_value, and the flow levels): for every text, the one the emitter wrote, and
\* any other.
THEOREM SimpleKeysKept == Spec => []SimpleKeysSound
<1>1. Init => BlocksInv /\ KeyedInv
  BY InitMatched, InitWriter, InitKeyed DEF BlocksInv
<1>2. BlocksInv /\ KeyedInv /\ ParserInv /\ [Next]_vars => (BlocksInv /\ KeyedInv)'
  BY StepBlocks, StepKeyed
<1>3. BlocksInv /\ KeyedInv /\ ParserInv => SimpleKeysSound
  BY KeyedTypes, KeysSound DEF KeyedInv, SimpleKeysSound
<1> QED BY <1>1, <1>2, <1>3, Parsing, PTL DEF Spec
=============================================================================
