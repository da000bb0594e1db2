----------------------------- MODULE SqlParser -----------------------------
(***************************************************************************)
(* demo-db/src/sql.cpp: from the text of a statement to a Statement.  A    *)
(* text is a sequence of pieces: a blank, a sign, a run of digits or a     *)
(* word.                                                                   *)
(***************************************************************************)
EXTENDS Integers, SequencesExt

CONSTANTS Words,    \* word -> the word in capitals
          Digits,   \* run of digits -> the number it spells
          MaxInt    \* the largest int64_t

ASSUME SqlAssumption ==
  /\ MaxInt \in Nat
  /\ \A d \in DOMAIN Digits : Digits[d] \in Nat

Keywords == {"CREATE", "TABLE", "INT", "PRIMARY", "KEY", "INDEX", "ON", "INSERT",
             "INTO", "VALUES", "SELECT", "FROM", "WHERE", "EXPLAIN"}
Punctuation == {"(", ")", ",", ";", "*"}
OrEqual == [c \in {"<", ">", "!"} |-> CASE c = "<" -> "<=" [] c = ">" -> ">=" [] c = "!" -> "!="]

Token(type, text) == [type |-> type, text |-> text]
IsKeyword(token, kw) == token.type = "keyword" /\ token.text = kw
Word(w) == IF Words[w] \in Keywords THEN Token("keyword", Words[w]) ELSE Token("ident", w)

\* strtoll stops at the limits without a word.
Strtoll(n) == IF n > MaxInt THEN MaxInt ELSE IF n < -MaxInt - 1 THEN -MaxInt - 1 ELSE n

(***************************************************************************)
(* One pass; skip says that the piece was taken together with the last.    *)
(***************************************************************************)
Tokenize(text) ==
  LET Next(i) == IF i < Len(text) THEN text[i + 1] ELSE "end of text"
      Put(s, token) == [s EXCEPT !.tokens = Append(@, token)]
      Both(s, token) == [Put(s, token) EXCEPT !.skip = TRUE]
      Bad(s) == [s EXCEPT !.ok = FALSE]
      Operator(s, c, next) ==
        CASE next = "=" -> IF c = "=" THEN Bad(s) ELSE Both(s, Token("op", OrEqual[c]))
          [] next # "=" -> IF c = "!" THEN Bad(s) ELSE Put(s, Token("op", c))
      Step(s, i) ==
        LET c == text[i] IN
        IF ~s.ok \/ s.skip THEN [s EXCEPT !.skip = FALSE]
        ELSE CASE c = " " -> s
               [] c \in Punctuation -> Put(s, Token(c, c))
               [] c \in {"=", "<", ">", "!"} -> Operator(s, c, Next(i))
               [] c \in DOMAIN Digits -> Put(s, Token("number", Strtoll(Digits[c])))
               [] c = "-" /\ Next(i) \in DOMAIN Digits ->
                    Both(s, Token("number", Strtoll(-Digits[Next(i)])))
               [] c \in DOMAIN Words -> Put(s, Word(c))
               [] OTHER -> Bad(s)
      end == FoldLeft(Step, [tokens |-> <<>>, ok |-> TRUE, skip |-> FALSE],
                      [i \in DOMAIN text |-> i])
  IN  [ok |-> end.ok, tokens |-> Append(end.tokens, Token("end", ""))]

----------------------------------------------------------------------------
(***************************************************************************)
(* The parser: what each parse function asks for, step by step, where the  *)
(* last token is the end, which nothing consumes.                          *)
(***************************************************************************)
NoStatement == [kind |-> "none", explain |-> FALSE, table |-> "", index |-> "",
                columns |-> <<>>, values |-> <<>>, where |-> <<>>]

\* Required: a keyword, a sign, a token whose text is the value of a field or one more in it.
Keyword(kw) == [do |-> "keyword", of |-> kw]
Sign(sign) == [do |-> "sign", of |-> sign]
Set(type, field) == [do |-> "set", of |-> type, field |-> field]
Add(type, field) == [do |-> "add", of |-> type, field |-> field]

\* Not required: a keyword, without which n steps are passed over; a star, with which
\* they are; a comma, after which the last n steps are taken again; a semicolon.
Optional(kw, n) == [do |-> "optional", of |-> kw, steps |-> n]
StarOr(n) == [do |-> "star or", of |-> "*", steps |-> n]
Again(n) == [do |-> "again", of |-> ",", steps |-> n]
Semi == [do |-> "semi", of |-> ";"]

CreateIndexSteps ==
  <<Keyword("CREATE"), Keyword("INDEX"), Set("ident", "index"), Keyword("ON"),
    Set("ident", "table"), Sign("("), Add("ident", "columns"), Sign(")"), Semi>>

CreateTableSteps ==
  <<Keyword("CREATE"), Keyword("TABLE"), Set("ident", "table"), Sign("("),
    Add("ident", "columns"), Keyword("INT"), Optional("PRIMARY", 1), Keyword("KEY"), Again(4),
    Sign(")"), Semi>>

InsertSteps ==
  <<Keyword("INSERT"), Keyword("INTO"), Set("ident", "table"), Keyword("VALUES"), Sign("("),
    Add("number", "values"), Again(1), Sign(")"), Semi>>

SelectSteps ==
  <<Keyword("SELECT"), StarOr(2), Add("ident", "columns"), Again(1),
    Keyword("FROM"), Set("ident", "table"),
    Optional("WHERE", 3), Add("ident", "where"), Add("op", "where"), Add("number", "where"), Semi>>

NoSteps == <<Keyword("a statement")>>

\* Where parse() goes for the first tokens, and the kind of statement it gets there.
StepsFor(tokens) ==
  LET At(i, kw) == i \in DOMAIN tokens /\ IsKeyword(tokens[i], kw) IN
  CASE At(1, "EXPLAIN") \/ At(1, "SELECT") -> <<"select", SelectSteps>>
    [] At(1, "INSERT") -> <<"insert", InsertSteps>>
    [] At(1, "CREATE") -> IF At(2, "INDEX") THEN <<"create index", CreateIndexSteps>>
                          ELSE <<"create table", CreateTableSteps>>
    [] OTHER -> <<"none", NoSteps>>

\* Slip for GoBack: the list goes on only if there is an item.
GoBackTrailing(p, n) == IF p.rest[2].type = ")" THEN p.at + 1 ELSE p.at - n
GoBack(p, n) == p.at - n

(***************************************************************************)
(* One step of a parser p: the tokens not consumed yet, the step it is at, *)
(* the statement so far, and whether nothing has been thrown.              *)
(***************************************************************************)
Advance(p, step) ==
  LET peek == Head(p.rest)
      found == IF step.do \in {"keyword", "optional"} THEN IsKeyword(peek, step.of)
               ELSE peek.type = step.of
      To(at) == [p EXCEPT !.rest = Tail(@), !.at = at]
      Next == p.at + 1
  IN  IF found
      THEN CASE step.do \in {"keyword", "sign", "optional", "semi"} -> To(Next)
             [] step.do = "set" -> [To(Next) EXCEPT !.st[step.field] = peek.text]
             [] step.do = "add" -> [To(Next) EXCEPT !.st[step.field] = Append(@, peek.text)]
             [] step.do = "star or" -> [To(Next + step.steps) EXCEPT !.st.columns = <<"*">>]
             [] step.do = "again" -> To(GoBack(p, step.steps))
      ELSE CASE step.do \in {"star or", "again", "semi"} -> [p EXCEPT !.at = Next]
             [] step.do = "optional" -> [p EXCEPT !.at = Next + step.steps]
             [] step.do \in {"keyword", "sign", "set", "add"} -> [p EXCEPT !.ok = FALSE]

Parse(tokens, steps, st) ==
  LET Step(p, i) == IF p.ok /\ p.at <= Len(steps) THEN Advance(p, steps[p.at]) ELSE p
  IN  FoldLeft(Step, [rest |-> tokens, at |-> 1, st |-> st, ok |-> TRUE],
               [i \in 1 .. 2 * Len(tokens) + Len(steps) |-> i])

\* kind is "none" where the code throws.
ParseSql(text) ==
  LET toks == Tokenize(text)
      explain == IsKeyword(toks.tokens[1], "EXPLAIN")
      tree == StepsFor(toks.tokens)
      end == Parse(IF explain THEN Tail(toks.tokens) ELSE toks.tokens, tree[2],
                   [NoStatement EXCEPT !.kind = tree[1], !.explain = explain])
  IN  IF toks.ok /\ end.ok /\ Head(end.rest).type = "end" THEN end.st ELSE NoStatement

----------------------------------------------------------------------------
(***************************************************************************)
(* Two grammars, as sets of sentences: keywords stand for themselves, the  *)
(* other tokens for their type.  Documented is the one of docs/tutorial/   *)
(* 36-db-mini-sql.md:34-37.  Dialect is what the parse functions accept:   *)
(* the lists of columns and values may be of any length, here no longer    *)
(* than LongestList, and PRIMARY KEY may stand behind each column.         *)
(***************************************************************************)
Lists(items, n) ==
  LET Separated(l) == FlattenSeq([i \in DOMAIN l |-> (IF i = 1 THEN <<>> ELSE <<",">>) \o l[i]])
  IN  {Separated(l) : l \in UNION {[1 .. k -> items] : k \in 1 .. n}}

LongestList == 3

Column == <<"ident", "INT">>
KeyColumn == <<"ident", "INT", "PRIMARY", "KEY">>

CreateTableOf(columns) == <<"CREATE", "TABLE", "ident", "(">> \o columns \o <<")">>
InsertOf(values) == <<"INSERT", "INTO", "ident", "VALUES", "(">> \o values \o <<")">>
InBoth ==
  {<<"CREATE", "INDEX", "ident", "ON", "ident", "(", "ident", ")">>}
    \cup {e \o <<"SELECT">> \o l \o <<"FROM", "ident">> \o w :
            e \in {<<>>, <<"EXPLAIN">>},
            l \in {<<"*">>} \cup Lists({<<"ident">>}, LongestList),
            w \in {<<>>, <<"WHERE", "ident", "op", "number">>}}

Documented ==
  InBoth \cup {CreateTableOf(c \o <<",">> \o Column) : c \in {Column, KeyColumn}}
         \cup {InsertOf(<<"number", ",", "number">>)}

Dialect ==
  InBoth \cup {CreateTableOf(l) : l \in Lists({Column, KeyColumn}, LongestList)}
         \cup {InsertOf(l) : l \in Lists({<<"number">>}, LongestList)}

Shape(tokens) == [i \in DOMAIN tokens |-> IF tokens[i].type = "keyword" THEN tokens[i].text
                                          ELSE tokens[i].type]
=============================================================================
