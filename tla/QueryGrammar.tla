----------------------------- MODULE QueryGrammar -----------------------------
(***************************************************************************)
(* The search language (query/grammar): the rules that pigeon generated    *)
(* from grammar.peg, the actions that build QueryFields, and the parser    *)
(* that interprets the rules.  A text is a sequence of symbols: a word of  *)
(* letters is one symbol, a digit, a blank or a punctuation mark another.  *)
(*                                                                         *)
(* The parser is started without options: no memoization, recovery, state  *)
(* or statistics that anybody reads.  An expression is a record, its       *)
(* labels are the positions in its sequence.                               *)
(***************************************************************************)
EXTENDS Integers, Sequences, SequencesExt

CONSTANT MaxInt   \* bound: digits of an integer that ParseInt accepts

Digits == {"0", "1", "2", "3", "4", "5", "6", "7", "8", "9"}
Marks == {"@", "_", "*", "/", ",", ":", "\\", "[", "]", "-", ".", "+", "!", "(", ")",
          "|", "=", "<", ">", "\"", " ", ";"}

\* litMatcher, charClassMatcher, seqExpr, choiceExpr, ...: the kinds of expressions.
Lit(symbols) == [kind |-> "lit", val |-> symbols]
Class(chars, letters) == [kind |-> "class", chars |-> chars, letters |-> letters]
NoneOf(chars) == [kind |-> "none", chars |-> chars]
Sequence(exprs) == [kind |-> "seq", exprs |-> exprs]
Choice(exprs) == [kind |-> "choice", exprs |-> exprs]
ZeroOrMore(expr) == [kind |-> "star", expr |-> expr]
OneOrMore(expr) == [kind |-> "plus", expr |-> expr]
ZeroOrOne(expr) == [kind |-> "opt", expr |-> expr]
NotAhead(expr) == [kind |-> "not", expr |-> expr]
Ref(name) == [kind |-> "ref", name |-> name]
Action(run, expr) == [kind |-> "action", run |-> run, expr |-> expr]

-----------------------------------------------------------------------------
(* The rules of the grammar.                                               *)

Query ==
  Action("and", Sequence(<<Ref("AndQuery"), Ref("_"), ZeroOrMore(Ref("OrQuery")), Ref("_")>>))

OrQuery ==
  Action("fourth", Sequence(<<Ref("_"), Lit(<<"|">>), Ref("_"), Ref("AndQuery"), Ref("_")>>))

AndQuery ==
  Action("and of", Sequence(<<Ref("_"), Ref("FieldQuery"), Ref("_"), ZeroOrMore(Ref("FieldQuery")), Ref("_")>>))

\* Variant: a word is tried before the field it may be the name of.
FieldQueryWordFirst ==
  Choice(<<
    Action("fourth", Sequence(<<Ref("_"), Lit(<<"(">>), Ref("_"), Ref("Query"), Ref("_"), Lit(<<")">>), Ref("_")>>)),
    Action("second", Sequence(<<Ref("_"), Ref("ExistsField"), Ref("_")>>)),
    Action("name", Sequence(<<Ref("_"), Choice(<<Ref("Word"), Ref("Identifier")>>), Ref("_")>>)),
    Action("second", Sequence(<<Ref("_"), Ref("Field"), Ref("_")>>)) >>)

FieldQuery ==
  Choice(<<
    Action("fourth", Sequence(<<Ref("_"), Lit(<<"(">>), Ref("_"), Ref("Query"), Ref("_"), Lit(<<")">>), Ref("_")>>)),
    Action("second", Sequence(<<Ref("_"), Ref("ExistsField"), Ref("_")>>)),
    Action("second", Sequence(<<Ref("_"), Ref("Field"), Ref("_")>>)),
    Action("not name", Sequence(<<Ref("_"), Lit(<<"-">>), Ref("Word"), Ref("_")>>)),
    Action("name", Sequence(<<Ref("_"), Choice(<<Ref("Word"), Ref("Identifier")>>), Ref("_")>>)) >>)

Field ==
  Action("field", Sequence(<<Ref("Source"), Ref("_"), Ref("Operator"), Ref("_"), Ref("Value")>>))

ExistsField ==
  Choice(<<
    Action("notexists", Sequence(<<Lit(<<"!">>), Ref("_"), Ref("ExistSource"), Ref("_"), NotAhead(Ref("Operator"))>>)),
    Action("exists", Sequence(<<Ref("ExistSource"), Ref("_"), NotAhead(Ref("Operator"))>>)) >>)

ExistSource ==
  Action("source", Sequence(<<Ref("ExistPrefix"), OneOrMore(Sequence(<<Lit(<<".">>), Ref("PathSegment")>>))>>))

ExistPrefix == Action("text", Choice(<<Lit(<<"labels">>), Lit(<<"tags">>), Lit(<<"properties">>)>>))

Source ==
  Action("source", Sequence(<<Ref("PathSegment"), ZeroOrMore(Sequence(<<Lit(<<".">>), Ref("PathSegment")>>))>>))

PathSegment ==
  Choice(<<Ref("String"),
           Action("text", OneOrMore(Class({"@", "_", "*", "/", ",", ":", "\\", "[", "]", "-"} \union Digits, TRUE)))>>)

Operator ==
  Action("text", Choice(<<Lit(<<"<", "=">>), Lit(<<">", "=">>), Lit(<<"=">>), Lit(<<":">>),
                          Lit(<<"!", "=">>), Lit(<<"<">>), Lit(<<">">>)>>))

\* The Go type of the value tells numbers and measures from strings.
Value ==
  Choice(<<Action("string value", Choice(<<Ref("DateTime"), Ref("ISODate"), Ref("Time")>>)),
           Action("measure value", Ref("Measure")),
           Action("number value", Choice(<<Ref("Float"), Ref("Integer")>>)),
           Action("string value", Choice(<<Ref("Identifier"), Ref("String")>>))>>)

String == Action("string", Sequence(<<Lit(<<"\"">>), ZeroOrMore(NoneOf({"\""})), Lit(<<"\"">>)>>))

Digit(chars) == Class(chars, FALSE)

ISODate ==
  Action("text", Sequence([i \in 1 .. 4 |-> Digit(Digits)] \o <<Lit(<<"-">>), Digit(Digits), Digit(Digits),
                                                                Lit(<<"-">>), Digit(Digits), Digit(Digits)>>))

Time ==
  LET sixty == <<Lit(<<":">>), Digit({"0", "1", "2", "3", "4", "5"}), Digit(Digits)>>
  IN  Action("text", Sequence(<<Digit({"0", "1", "2"}), Digit(Digits)>> \o sixty \o sixty))

DateTime == Action("text", Sequence(<<Ref("ISODate"), Ref("_"), Ref("Time")>>))

Word ==
  Choice(<<Ref("String"),
           Action("text", Sequence(<<ZeroOrOne(Class({"-"}, FALSE)),
                                     OneOrMore(Class({"@", "_", "*", "-"} \union Digits, TRUE))>>))>>)

Integer ==
  Action("integer", Sequence(<<ZeroOrOne(Class({"+", "-"}, FALSE)), OneOrMore(Digit(Digits)),
                               NotAhead(Class({"_", "-"} \union Digits, TRUE))>>))

Measure == Action("measure", Sequence(<<Choice(<<Ref("Integer"), Ref("Float")>>), Ref("Identifier")>>))

Float ==
  Action("text", Sequence(<<ZeroOrOne(Class({"+", "-"}, FALSE)),
                            Sequence(<<ZeroOrMore(Digit(Digits)), Lit(<<".">>), OneOrMore(Digit(Digits))>>)>>))

\* The range ',' to ':' of its class holds '-', '.', '/' and the digits.
Identifier ==
  Action("text", OneOrMore(Class({"@", "_", "*", "\\", "[", "]", ",", "-", ".", "/", ":"} \union Digits, TRUE)))

Blank == ZeroOrMore(Class({" "}, FALSE))

\* buildRulesTable
Rules(name) ==
  CASE name = "Query" -> Query               [] name = "OrQuery" -> OrQuery
    [] name = "AndQuery" -> AndQuery         [] name = "FieldQuery" -> FieldQuery
    [] name = "Field" -> Field               [] name = "ExistsField" -> ExistsField
    [] name = "ExistSource" -> ExistSource   [] name = "ExistPrefix" -> ExistPrefix
    [] name = "Source" -> Source             [] name = "PathSegment" -> PathSegment
    [] name = "Operator" -> Operator         [] name = "Value" -> Value
    [] name = "String" -> String             [] name = "ISODate" -> ISODate
    [] name = "Time" -> Time                 [] name = "DateTime" -> DateTime
    [] name = "Word" -> Word                 [] name = "Integer" -> Integer
    [] name = "Measure" -> Measure           [] name = "Float" -> Float
    [] name = "Identifier" -> Identifier     [] name = "_" -> Blank

-----------------------------------------------------------------------------
(* The actions.                                                            *)

\* QueryField: a condition, or the conjunction of its fields.  Field, Op and Value are
\* texts, the value the one fmt.Sprint makes of it.
Condition(field, op, value, type) ==
  [field |-> field, op |-> op, value |-> value, type |-> type, fields |-> << >>]

\* makeAndQuery: for an AndQuery and also, although '|' separates them, for OrQueries.
MakeAndQuery(a, b) == [Condition(<< >>, <<"and">>, << >>, "nil") EXCEPT !.fields = <<a>> \o b]

\* makeSource: the segments, without their dots, joined by dots.
MakeSource(name, path) == FoldLeft(LAMBDA s, p : s \o <<".">> \o p[2], name, path)

\* A name matches as a prefix unless it says otherwise.
Prefixed(n) == IF "*" \in Range(n) THEN n ELSE Append(n, "*")

\* onQuery1 .. onExistsField11
OnCondition(run, val) ==
  CASE run = "and" -> MakeAndQuery(val[1], val[3])
    [] run = "and of" -> MakeAndQuery(val[2], val[4])
    [] run = "second" -> val[2]
    [] run = "fourth" -> val[4]
    [] run = "not name" -> Condition(<<"name">>, <<"not">>, Prefixed(val[3]), "string")
    [] run = "name" -> Condition(<<"name">>, <<"=">>, Prefixed(val[2]), "string")
    [] run = "field" -> Condition(val[1], val[3], val[5].text, val[5].type)
    [] run = "notexists" -> Condition(val[3], <<"notexists">>, << >>, "nil")
    [] run = "exists" -> Condition(val[1], <<"exists">>, << >>, "nil")

\* onExistSource1 .. onIdentifier1: numbers keep the text they were parsed from.
OnText(run, val, text) ==
  CASE run = "string value" -> [text |-> val, type |-> "string"]
    [] run = "number value" -> [text |-> val, type |-> "number"]
    [] run = "measure value" -> [text |-> val, type |-> "measure"]
    [] run = "source" -> MakeSource(val[1], val[2])
    [] run = "string" -> val[2]
    [] run = "measure" -> <<"&", "{">> \o val[1] \o <<" ">> \o val[2] \o <<"}">>
    [] OTHER -> text

\* ParseInt fails for what does not fit; its error stays with the parser.
Overflows(run, text) ==
  run = "integer" /\ Len(SelectSeq(text, LAMBDA c : c \in Digits)) > MaxInt

-----------------------------------------------------------------------------
(* The parser.                                                             *)

\* What parsing an expression gives: a value and the position after it, and whether an
\* action failed on the way, whatever became of the branch it was in.
Match(at, val, bad) == [ok |-> TRUE, at |-> at, val |-> val, bad |-> bad]
NoMatch(at, bad) == [ok |-> FALSE, at |-> at, val |-> << >>, bad |-> bad]

Matches(expr, c) ==
  \/ expr.kind = "none" /\ c \notin expr.chars
  \/ expr.kind = "class" /\ (c \in expr.chars \/ (expr.letters /\ c \notin Marks \union Digits))

RECURSIVE ParseExpr(_, _, _), ParseSeq(_, _, _, _, _), ParseChoice(_, _, _, _), ParseMore(_, _, _, _, _)

\* parseSeqExpr: all of them or nothing.
ParseSeq(exprs, text, at, vals, bad) ==
  IF exprs = << >> THEN Match(at, vals, bad)
  ELSE LET r == ParseExpr(Head(exprs), text, at)
       IN  IF r.ok THEN ParseSeq(Tail(exprs), text, r.at, Append(vals, r.val), bad \/ r.bad)
           ELSE NoMatch(at, bad \/ r.bad)

\* parseChoiceExpr: the first that matches.
ParseChoice(exprs, text, at, bad) ==
  IF exprs = << >> THEN NoMatch(at, bad)
  ELSE LET r == ParseExpr(Head(exprs), text, at)
       IN  IF r.ok THEN [r EXCEPT !.bad = bad \/ r.bad]
           ELSE ParseChoice(Tail(exprs), text, at, bad \/ r.bad)

\* parseZeroOrMoreExpr and parseOneOrMoreExpr: as many as match, never fewer.
ParseMore(expr, text, at, vals, bad) ==
  LET r == ParseExpr(expr, text, at)
  IN  IF r.ok THEN ParseMore(expr, text, r.at, Append(vals, r.val), bad \/ r.bad)
      ELSE Match(at, vals, bad \/ r.bad)

\* parseActionExpr: the action sees the values and the text it is about.
RunAction(expr, text, at, r) ==
  LET own == SubSeq(text, at, r.at - 1)
  IN  IF ~ r.ok THEN r
      ELSE Match(r.at, IF expr.run \in {"and", "and of", "second", "fourth", "not name", "name", "field", "notexists", "exists"}
                       THEN OnCondition(expr.run, r.val) ELSE OnText(expr.run, r.val, own),
                 r.bad \/ Overflows(expr.run, own))

ParseExpr(expr, text, at) ==
  CASE expr.kind = "lit" ->
         IF at + Len(expr.val) - 1 <= Len(text) /\ SubSeq(text, at, at + Len(expr.val) - 1) = expr.val
         THEN Match(at + Len(expr.val), expr.val, FALSE) ELSE NoMatch(at, FALSE)
    [] expr.kind \in {"class", "none"} ->
         IF at <= Len(text) /\ Matches(expr, text[at])
         THEN Match(at + 1, text[at], FALSE) ELSE NoMatch(at, FALSE)
    [] expr.kind = "seq" -> ParseSeq(expr.exprs, text, at, << >>, FALSE)
    [] expr.kind = "choice" -> ParseChoice(expr.exprs, text, at, FALSE)
    [] expr.kind = "star" -> ParseMore(expr.expr, text, at, << >>, FALSE)
    [] expr.kind = "plus" ->
         LET r == ParseMore(expr.expr, text, at, << >>, FALSE)
         IN  IF r.val = << >> THEN NoMatch(at, r.bad) ELSE r
    [] expr.kind = "opt" ->
         LET r == ParseExpr(expr.expr, text, at)
         IN  IF r.ok THEN r ELSE Match(at, << >>, r.bad)
    [] expr.kind = "not" ->
         LET r == ParseExpr(expr.expr, text, at)
         IN  IF r.ok THEN NoMatch(at, r.bad) ELSE Match(at, << >>, r.bad)
    [] expr.kind = "ref" -> ParseExpr(Rules(expr.name), text, at)
    [] expr.kind = "action" -> RunAction(expr, text, at, ParseExpr(expr.expr, text, at))

\* ParsePEG: what is left of the text after the query is not looked at.
ParsePEG(text) == LET r == ParseExpr(Ref("Query"), text, 1) IN [r EXCEPT !.ok = r.ok /\ ~ r.bad]

\* The whole of the text was a query.
ParsesWhole(text) == LET r == ParsePEG(text) IN r.ok /\ r.at = Len(text) + 1

\* The conditions of a query in the order of its text, all of which must hold.
RECURSIVE Conditions(_)
Conditions(q) ==
  IF q.fields = << >> THEN <<q>>
  ELSE FlattenSeq([i \in DOMAIN q.fields |-> Conditions(q.fields[i])])
=============================================================================
