----------------------------- MODULE Aggregation -----------------------------
(***************************************************************************)
(* Aggregate (query/aggregation.go): the rows that a selector finds in a   *)
(* table, grouped by fields, with functions over each group.               *)
(*                                                                         *)
(* A key is a sequence of words that "_" joins, and a field is a column    *)
(* followed by the keys of a path into it.  A table gives its columns, its *)
(* maps and whether it has properties; a row gives a value to every column *)
(* and, in each map, to the paths it has.  A value is a number; Null is    *)
(* none, and Text is one that is not a number.                             *)
(***************************************************************************)
EXTENDS Integers, Sequences, FiniteSets, SequencesExt, FiniteSetsExt

Null == -1
Text == -2
Failed == [err |-> TRUE]
AllowedAggregationFunctions == {"COUNT", "SUM", "AVG", "MAX", "MIN"}
Star == << >>

\* isValidFieldForQuery
IsValidFieldForQuery(table, field) ==
  \/ Len(field) = 1 /\ Head(field) \in table.columns
  \/ Len(field) > 1 /\ Head(field) \in table.maps \union (IF table.hasProperties THEN {"properties"} ELSE {})
\* validateAggregationField
ValidateAggregationField(table, agg) ==
  /\ agg.function \in AllowedAggregationFunctions
  /\ agg.alias # << >>
  /\ \/ agg.function = "COUNT" /\ agg.field = Star
     \/ IsValidFieldForQuery(table, agg.field)

\* BuildJSONFieldSelector: what a field is called and, of a row, its value.
Alias(field) == IF Len(field) = 1 THEN <<field[1]>> ELSE FlattenSeq(Tail(field))
Selector(row, field) ==
  IF Len(field) = 1 THEN row[field[1]]
  ELSE IF Tail(field) \in DOMAIN row[field[1]] THEN row[field[1]][Tail(field)] ELSE Null

\* BuildSelectClause: a function of a group, in which a null does not count.  What is in a
\* map is cast to a number for all but COUNT.
AggClause(agg, group) ==
  LET having == {row \in group : Selector(row, agg.field) # Null}
      values == {Selector(row, agg.field) : row \in having} IN
  CASE agg.function = "COUNT" -> Cardinality(IF agg.field = Star THEN group ELSE having)
    [] having = {} -> Null
    [] agg.function = "SUM" -> MapThenSumSet(LAMBDA row : Selector(row, agg.field), having)
    [] agg.function = "AVG" -> MapThenSumSet(LAMBDA row : Selector(row, agg.field), having) \div Cardinality(having)
    [] agg.function = "MAX" -> Max(values)
    [] OTHER -> Min(values)
Cast(aggs, found) ==
  \A i \in DOMAIN aggs : aggs[i].function # "COUNT" => \A row \in found : Selector(row, aggs[i].field) # Text

\* SetResourceSelectorClause: a selector that asks for nothing is not applied, and then
\* the rows that are deleted are found too.
Found(table, rows, selector) == {row \in rows : selector # {} => row.id \in selector /\ ~row.deleted}

\* The columns of an answer by their names: of two with one name the last is kept.
Named(columns) == [name \in {columns[i][1] : i \in DOMAIN columns} |-> columns[SelectLastInSeq(columns, LAMBDA c : c[1] = name)][2]]

\* Aggregate: an answer for every group of the rows that are found.
Aggregate(table, rows, selector, groupBy, aggs) ==
  LET found == Found(table, rows, selector)
      KeyOf(row) == [i \in DOMAIN groupBy |-> Selector(row, groupBy[i])]
      Answer(key) ==
        LET group == {row \in found : KeyOf(row) = key} IN
        Named([i \in DOMAIN groupBy |-> <<Alias(groupBy[i]), key[i]>>] \o
              [i \in DOMAIN aggs |-> <<aggs[i].alias, AggClause(aggs[i], group)>>])
      keys == IF groupBy = << >> THEN {<< >>} ELSE {KeyOf(row) : row \in found} IN
  IF \/ \E i \in DOMAIN groupBy : ~IsValidFieldForQuery(table, groupBy[i])
     \/ \E i \in DOMAIN aggs : ~ValidateAggregationField(table, aggs[i])
     \/ ~Cast(aggs, found)
  THEN Failed
  ELSE [err |-> FALSE, rows |-> {Answer(key) : key \in keys}, count |-> Cardinality(keys)]

-----------------------------------------------------------------------------
(* Properties.                                                             *)

\* Aggregate, where no two columns have one name: an answer stands for the rows that have
\* its values in the fields that are grouped by, and for no other, and its functions are
\* theirs; the answers together stand for every row that is found.
AnswersAddUp(table, rows, selector, groupBy, aggs) ==
  LET answer == Aggregate(table, rows, selector, groupBy, aggs)
      found == Found(table, rows, selector)
      names == {Alias(groupBy[i]) : i \in DOMAIN groupBy} \union {aggs[i].alias : i \in DOMAIN aggs}
      At(row, field) == IF Len(field) = 1 THEN row[field[1]]
                        ELSE LET at == {p \in DOMAIN row[field[1]] : p = Tail(field)} IN
                             IF at = {} THEN Null ELSE row[field[1]][CHOOSE p \in at : TRUE]
      Own(out) == {row \in found : \A i \in DOMAIN groupBy : At(row, groupBy[i]) = out[Alias(groupBy[i])]} IN
  ~answer.err /\ Cardinality(names) = Len(groupBy) + Len(aggs) =>
    /\ Cardinality(answer.rows) = answer.count
    /\ UNION {Own(out) : out \in answer.rows} = found
    /\ \A out \in answer.rows : \A i \in DOMAIN aggs :
         LET f == aggs[i].function  value == out[aggs[i].alias]
             values == {At(row, aggs[i].field) : row \in Own(out)} \ {Null} IN
         /\ f = "COUNT" /\ aggs[i].field = Star => value = Cardinality(Own(out))
         /\ f \in {"MAX", "MIN"} /\ values # {} =>
              value \in values /\ \A v \in values : IF f = "MAX" THEN v <= value ELSE v >= value
         /\ f = "AVG" /\ values # {} => Min(values) <= value /\ value <= Max(values)
=============================================================================
