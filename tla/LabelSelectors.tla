---------------------------- MODULE LabelSelectors ----------------------------
(***************************************************************************)
(* Label, tag and field selectors (pkg/kube/labels): the lexer, the parser *)
(* and the printer of a list of requirements, and what a requirement asks  *)
(* of a map of labels.  Texts are sequences of symbols, as in QueryGrammar; *)
(* "in" and "notin" are words.  Requirements and values, which the code    *)
(* sorts, are sets.                                                        *)
(***************************************************************************)
EXTENDS Integers, Sequences, SequencesExt, FiniteSets

Special == {"=", "!", "(", ")", ",", ">", "<"}

\* string2token
Token(literal) ==
  CASE literal = <<")">> -> "closed"          [] literal = <<",">> -> "comma"
    [] literal = <<"!">> -> "not"             [] literal = <<"=", "=">> -> "=="
    [] literal = <<"=">> -> "="               [] literal = <<">">> -> ">"
    [] literal = <<"in">> -> "in"             [] literal = <<"<">> -> "<"
    [] literal = <<"!", "=">> -> "!="         [] literal = <<"notin">> -> "notin"
    [] literal = <<"(">> -> "open"            [] OTHER -> "none"

Scanned(tok, literal) == [tok |-> tok, literal |-> literal]

-----------------------------------------------------------------------------
(* The lexer.                                                              *)

RECURSIVE ScanSpecialSymbol(_, _, _), Scan(_)

\* Lexer.scanSpecialSymbol: the longest token that starts here; n symbols are read.
ScanSpecialSymbol(text, n, last) ==
  IF n = Len(text) \/ text[n + 1] \notin Special THEN <<n, last>>
  ELSE LET buffer == SubSeq(text, 1, n + 1)
       IN  IF Token(buffer) # "none" THEN ScanSpecialSymbol(text, n + 1, Scanned(Token(buffer), buffer))
           ELSE <<n, last>>

\* Lexer.scanIDOrKeyword: up to a special symbol or a blank.
IDLength(text) ==
  LET ends == {i \in DOMAIN text : text[i] \in Special \union {" "}}
  IN  IF ends = {} THEN Len(text) ELSE (CHOOSE i \in ends : \A j \in ends : i <= j) - 1

IDOrKeyword(literal) == Scanned(IF Token(literal) = "none" THEN "identifier" ELSE Token(literal), literal)

\* Parser.scan with Lexer.Lex: the tokens of a text.
Scan(text) ==
  IF text = << >> THEN <<Scanned("end", << >>)>>
  ELSE IF Head(text) = " " THEN Scan(Tail(text))
  ELSE IF Head(text) \in Special
       THEN LET s == ScanSpecialSymbol(text, 0, Scanned("error", << >>))
            IN  <<s[2]>> \o Scan(SubSeq(text, s[1] + 1, Len(text)))
  ELSE LET n == IDLength(text)
       IN  <<IDOrKeyword(SubSeq(text, 1, n))>> \o Scan(SubSeq(text, n + 1, Len(text)))

-----------------------------------------------------------------------------
(* The parser.  A position is that of the next token.                      *)

\* lookahead and consume: in the context of values a keyword is an identifier.
ValueToken(items, at) ==
  IF items[at].tok \in {"in", "notin"} THEN "identifier" ELSE items[at].tok

Requirement(key, op, values) == [key |-> key, op |-> op, values |-> values]
Parsed(at, value) == [ok |-> TRUE, at |-> at, value |-> value]
Failed(value) == [ok |-> FALSE, at |-> 0, value |-> value]

\* What a text of digits is worth; ParseInt takes no other.
Digit(c) == CHOOSE d \in 0 .. 9 : ToString(d) = c
IsInteger(text) == text # << >> /\ \A i \in DOMAIN text : text[i] \in {ToString(d) : d \in 0 .. 9}
IntegerOf(text) == FoldLeft(LAMBDA n, c : 10 * n + Digit(c), 0, text)

\* NewRequirement
Valid(op, values) ==
  CASE op \in {"in", "notin"} -> values # {}
    [] op \in {"=", "==", "!="} -> Cardinality(values) = 1
    [] op \in {"exists", "!"} -> values = {}
    [] op \in {">", "<"} -> Cardinality(values) = 1 /\ \A v \in values : IsInteger(v)

RECURSIVE ParseIdentifiersList(_, _, _), ParseNext(_, _, _), ParseList(_, _, _)

\* parseIdentifiersList: nothing between two commas, or next to a parenthesis, is the
\* empty value.
ParseIdentifiersList(items, at, s) ==
  CASE ValueToken(items, at) = "identifier" ->
         CASE ValueToken(items, at + 1) = "comma" -> ParseIdentifiersList(items, at + 1, s \union {items[at].literal})
           [] ValueToken(items, at + 1) = "closed" -> Parsed(at + 1, s \union {items[at].literal})
           [] OTHER -> Failed({})
    [] ValueToken(items, at) = "comma" ->
         LET seen == IF s = {} \/ ValueToken(items, at + 1) = "closed" THEN s \union {<< >>} ELSE s
         IN  CASE ValueToken(items, at + 1) = "closed" -> Parsed(at + 1, seen)
               [] ValueToken(items, at + 1) = "comma" -> ParseIdentifiersList(items, at + 2, seen \union {<< >>})
               [] OTHER -> ParseIdentifiersList(items, at + 1, seen)
    [] OTHER -> Failed({})

\* parseValues: a list ends with a parenthesis.
Closed(items, list) ==
  IF list.ok /\ ValueToken(items, list.at) = "closed" THEN Parsed(list.at + 1, list.value) ELSE Failed({})
ParseValues(items, at) ==
  CASE ValueToken(items, at) # "open" -> Failed({})
    [] ValueToken(items, at) = "open" /\ ValueToken(items, at + 1) \in {"identifier", "comma"} ->
         Closed(items, ParseIdentifiersList(items, at + 1, {}))
    [] ValueToken(items, at) = "open" /\ ValueToken(items, at + 1) = "closed" -> Parsed(at + 2, {<< >>})
    [] OTHER -> Failed({})

\* parseExactValue: the value may be missing.
ParseExactValue(items, at) ==
  CASE ValueToken(items, at) \in {"end", "comma"} -> Parsed(at, {<< >>})
    [] ValueToken(items, at) = "identifier" -> Parsed(at + 1, {items[at].literal})
    [] OTHER -> Failed({})

\* parseRequirement with parseKeyAndInferOperator and parseOperator
BinaryRequirement(key, op, values) ==
  IF op \in {"in", "=", "==", ">", "<", "notin", "!="} /\ values.ok /\ Valid(op, values.value)
  THEN Parsed(values.at, Requirement(key, op, values.value)) ELSE Failed({})
ParseRequirement(items, at) ==
  LET negated == ValueToken(items, at) = "not"
      key == IF negated THEN at + 1 ELSE at
      unary == negated \/ ValueToken(items, key + 1) \in {"end", "comma"}
      op == items[key + 1].tok
  IN  CASE ValueToken(items, key) # "identifier" -> Failed({})
        [] ValueToken(items, key) = "identifier" /\ unary ->
             Parsed(key + 1, Requirement(items[key].literal, IF negated THEN "!" ELSE "exists", {}))
        [] OTHER ->
             BinaryRequirement(items[key].literal, op,
                      IF op \in {"in", "notin"} THEN ParseValues(items, key + 2) ELSE ParseExactValue(items, key + 2))

\* Parser.parse: after a requirement r there is a comma and another one, or the end.
ParseNext(items, r, requirements) ==
  CASE ~ r.ok -> Failed({})
    [] r.ok /\ ValueToken(items, r.at) = "end" -> Parsed(r.at, requirements \union {r.value})
    [] r.ok /\ ValueToken(items, r.at) = "comma" /\ ValueToken(items, r.at + 1) \in {"identifier", "not"} ->
         ParseList(items, r.at + 1, requirements \union {r.value})
    [] OTHER -> Failed({})
ParseList(items, at, requirements) ==
  CASE ValueToken(items, at) \in {"identifier", "not"} -> ParseNext(items, ParseRequirement(items, at), requirements)
    [] ValueToken(items, at) = "end" -> Parsed(at, requirements)
    [] OTHER -> Failed({})

\* Parse: whether it is a selector, and its requirements.
Parse(text) == ParseList(Scan(text), 1, {})

-----------------------------------------------------------------------------
(* Printing, and matching.                                                 *)

\* Texts separated by commas, in some fixed order.
Joined(texts) ==
  IF texts = << >> THEN << >> ELSE FoldLeft(LAMBDA s, t : s \o <<",">> \o t, Head(texts), Tail(texts))

\* Requirement.String
RequirementString(r) ==
  LET values == Joined(SetToSeq(r.values))
  IN  CASE r.op = "!" -> <<"!">> \o r.key
        [] r.op = "exists" -> r.key
        [] r.op \in {"in", "notin"} -> r.key \o <<" ", r.op, " ", "(">> \o values \o <<")">>
        [] OTHER -> r.key \o (CASE r.op = "==" -> <<"=", "=">> [] r.op = "!=" -> <<"!", "=">> [] OTHER -> <<r.op>>) \o values

\* internalSelector.String
String(requirements) == Joined(SetToSeq({RequirementString(r) : r \in requirements}))

\* Requirement.Matches: labels maps keys to texts.
RequirementMatches(r, labels) ==
  LET has == r.key \in DOMAIN labels
  IN  CASE r.op \in {"in", "=", "=="} -> has /\ labels[r.key] \in r.values
        [] r.op \in {"notin", "!="} -> ~ has \/ labels[r.key] \notin r.values
        [] r.op = "exists" -> has
        [] r.op = "!" -> ~ has
        [] r.op = ">" -> has /\ IsInteger(labels[r.key]) /\ \A v \in r.values : IntegerOf(labels[r.key]) > IntegerOf(v)
        [] r.op = "<" -> has /\ IsInteger(labels[r.key]) /\ \A v \in r.values : IntegerOf(labels[r.key]) < IntegerOf(v)

\* internalSelector.Matches
SelectorMatches(requirements, labels) == \A r \in requirements : RequirementMatches(r, labels)

\* Set.String, SelectorFromSet, Conflicts and Merge of maps of labels.
SetString(ls) == Joined(SetToSeq({key \o <<"=">> \o ls[key] : key \in DOMAIN ls}))
SelectorFromSet(ls) == {Requirement(key, "=", {ls[key]}) : key \in DOMAIN ls}
Conflicts(ls1, ls2) == \E key \in DOMAIN ls1 \intersect DOMAIN ls2 : ls1[key] # ls2[key]
Merge(ls1, ls2) ==
  [key \in DOMAIN ls1 \union DOMAIN ls2 |-> IF key \in DOMAIN ls2 THEN ls2[key] ELSE ls1[key]]

-----------------------------------------------------------------------------
(* Properties.                                                             *)

\* canonicalizeSelector parses a selector, prints some of its requirements and leaves
\* the result to be parsed again: every parsed selector survives that, with the empty
\* values, keywords used as keys and operators it has.
PrintsBack(text) ==
  LET parsed == Parse(text)
  IN  parsed.ok => LET again == Parse(String(parsed.value)) IN again.ok /\ again.value = parsed.value

\* A map of labels printed as a selector is parsed as the selector of that map, which
\* matches the maps that hold it; two maps merge to one that both selectors match
\* exactly when they do not conflict.
MapsPrintBack(ls1, ls2) ==
  /\ Parse(SetString(ls1)) = [Parse(SetString(ls1)) EXCEPT !.ok = TRUE, !.value = SelectorFromSet(ls1)]
  /\ SelectorMatches(SelectorFromSet(ls2), Merge(ls1, ls2))
  /\ SelectorMatches(SelectorFromSet(ls1), Merge(ls1, ls2)) <=> ~ Conflicts(ls1, ls2)
=============================================================================
