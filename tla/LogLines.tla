------------------------------ MODULE LogLines ------------------------------
(***************************************************************************)
(* The log lines of logs/: how a line is made from the fields of a source  *)
(* (mapping.go, parse.go) and how the lines of a result are grouped and    *)
(* deduplicated (logs.go).                                                 *)
(*                                                                         *)
(* A line refers to its map of labels, which lines of one Loki stream or   *)
(* one pod share: maps gives the labels at each reference, and Nil is a    *)
(* reference to none.  Times are numbers, and lastObserved is 0 where      *)
(* there is none.                                                          *)
(***************************************************************************)
EXTENDS Integers, Sequences, FiniteSets, TLC, SequencesExt, FiniteSetsExt

NoLabels == [k \in {} |-> ""]
Nil == 0
At(maps, ref) == IF ref = Nil THEN NoLabels ELSE maps[ref]
NewLine(id, labels) ==
  [id |-> id, message |-> "", severity |-> "", source |-> "", host |-> "", hash |-> "", count |-> 1, first |-> 0, last |-> 0, labels |-> labels]
Get(map, key) == IF key \in DOMAIN map THEN map[key] ELSE ""
Without(map, keys) == [k \in DOMAIN map \ keys |-> map[k]]

-----------------------------------------------------------------------------
(* Fields.  A field is <<key, value>>, where a value is a text.            *)

\* WithDefaults: a configuration gives the keys of each field of a line, and those to
\* ignore.
WithDefaults(config, default) == [f \in DOMAIN config |-> IF config[f] = {} THEN default[f] ELSE config[f]]

\* The field of a line that a key is for, "ignore" or, for a label, the key itself.
Canonical == <<"ignore", "message", "severity", "source", "host">>
Target(key, config) ==
  LET mapped == SelectSeq(Canonical, LAMBDA f : key \in config[f]) IN IF mapped = << >> THEN key ELSE mapped[1]
\* MapFieldToLogLine
MapField(line, map, field, config) ==
  LET target == Target(field[1], config) IN
  IF target = "ignore" THEN <<line, map>>
  ELSE IF target \in ToSet(Canonical) THEN <<[line EXCEPT ![target] = field[2]], map>>
  ELSE <<line, (target :> field[2]) @@ map>>
MapFields(line, map, fields, config) ==
  FoldLeft(LAMBDA acc, f : MapField(acc[1], acc[2], f, config), <<line, map>>, fields)

-----------------------------------------------------------------------------
(* parse.go.  A message is [form, message, severity, source, host, pid,    *)
(* fields]: what a text of that form has, the fields in the order in which *)
(* they are read (of JSON, any order).                                     *)

\* DetectFormat: a syslog line without a priority is not told, nor is a single pair.
DetectFormat(text) ==
  CASE text.form = "syslog" /\ text.severity = "" -> ""
    [] text.form = "logfmt" /\ Len(text.fields) < 2 -> ""
    [] OTHER -> text.form

\* The keys that ParseJSON and ParseLogfmt tell from labels.
ParsedKeys(format) ==
  IF format = "json"
  THEN [message |-> {"msg", "message"}, severity |-> {"level", "severity"}, source |-> {"source", "caller", "logger"},
        host |-> {"host", "hostname"}, ignore |-> {}]
  ELSE [message |-> {"msg", "message"}, severity |-> {"level"}, source |-> {}, host |-> {}, ignore |-> {}]

Or(value, default) == IF value = "" THEN default ELSE value
\* ParseMessage: ParseKlogfmt, ParseSyslog, ParseLogfmt and ParseJSON, which leave a text
\* of another form alone.
ParseMessage(line, map, text, format) ==
  LET as == IF format \in {"", "autodetect"} THEN DetectFormat(text) ELSE format IN
  CASE as = "" \/ as # text.form -> <<line, map>>
    [] as = "klogfmt" ->
         <<[line EXCEPT !.message = Or(text.message, @), !.severity = text.severity, !.source = text.source],
           FoldLeft(LAMBDA acc, f : (f[1] :> f[2]) @@ acc, map, text.fields)>>
    [] as = "syslog" ->
         <<[line EXCEPT !.message = text.message, !.severity = Or(text.severity, @), !.source = text.source, !.host = text.host],
           IF text.pid = "" THEN map ELSE ("pid" :> text.pid) @@ map>>
    [] as \in {"json", "logfmt"} -> MapFields(line, map, text.fields, ParsedKeys(as))
    [] OTHER -> <<line, map>>

-----------------------------------------------------------------------------
(* logs.go.                                                                *)

\* EffectiveMessage
EffectiveMessage(line, map) ==
  IF line.message # "" THEN line.message
  ELSE IF Get(map, "msg") # "" THEN Get(map, "msg") ELSE Get(map, "message")
\* GetFieldValue: a field that is not one of a line's is a label.
GetFieldValue(line, maps, field) ==
  CASE field = "message" -> EffectiveMessage(line, At(maps, line.labels))
    [] field \in {"severity", "source", "host", "hash"} -> line[field]
    [] OTHER -> IF line.labels = Nil THEN "unknown" ELSE Get(maps[line.labels], field)
\* GetFieldKey
GetFieldKey(line, maps, fields) == [i \in DOMAIN fields |-> GetFieldValue(line, maps, fields[i])]

\* The keys of lines, each where it is first, and the lines of a key.
KeysOf(lines, Key(_)) ==
  FoldLeft(LAMBDA acc, l : IF Contains(acc, Key(l)) THEN acc ELSE Append(acc, Key(l)), << >>, lines)

\* Variant: the time a line was last observed is that of the last one added.
AddLast(a, b) == [a EXCEPT !.count = @ + b.count, !.first = IF b.first < @ THEN b.first ELSE @, !.last = b.last]
\* dedupLogs: what a line adds to the first one of its key.
Add(a, b) ==
  [a EXCEPT !.count = @ + b.count, !.first = IF b.first < @ THEN b.first ELSE @,
            !.last = IF b.last # 0 /\ (@ = 0 \/ b.last > @) THEN b.last ELSE @]
DedupLogs(lines, maps, fields) ==
  LET Key(l) == GetFieldKey(l, maps, fields)
      keys == KeysOf(lines, Key)
      Of(k) == SelectSeq(lines, LAMBDA l : Key(l) = k) IN
  IF fields = << >> THEN lines ELSE [i \in DOMAIN keys |-> FoldLeft(Add, Head(Of(keys[i])), Tail(Of(keys[i])))]

\* findCommonLabels
FindCommonLabels(lines, maps) ==
  LET first == At(maps, lines[1].labels) IN
  Without(first, {k \in DOMAIN first : \E i \in DOMAIN lines :
                    LET map == At(maps, lines[i].labels) IN k \notin DOMAIN map \/ map[k] # first[k]})

\* GroupLogs: the labels that all lines of a group have are moved to it, one group after
\* the other.
GroupLogs(lines, maps, groupBy, dedupBy) ==
  LET Key(l) == GetFieldKey(l, maps, groupBy)
      AddGroup(acc, key) ==
        LET own == SelectSeq(lines, LAMBDA l : Key(l) = key)
            common == FindCommonLabels(own, acc.maps)
            refs == {own[i].labels : i \in DOMAIN own}
            left == [r \in DOMAIN acc.maps |-> IF r \in refs THEN Without(acc.maps[r], DOMAIN common) ELSE acc.maps[r]] IN
        [maps |-> left, groups |-> Append(acc.groups, [labels |-> common, logs |-> DedupLogs(own, left, dedupBy)])] IN
  IF lines = << >> THEN [logs |-> lines, groups |-> << >>, maps |-> maps]
  ELSE IF groupBy = << >> THEN [logs |-> DedupLogs(lines, maps, dedupBy), groups |-> << >>, maps |-> maps]
  ELSE [logs |-> << >>] @@ FoldLeft(AddGroup, [maps |-> maps, groups |-> << >>], KeysOf(lines, Key))

-----------------------------------------------------------------------------
(* The sources.  A source that answers with one entry per line gives each  *)
(* line a map of its own; the lines of one Loki stream share its labels.   *)

\* Search of CloudWatch and OpenSearch: entries are sequences of fields.  SetHash
\* tokenizes the message, which is taken as it is.
Hashed(line) == [line EXCEPT !.hash = line.message]
Search(entries, config, groupBy, dedupBy) ==
  LET made == [i \in DOMAIN entries |-> MapFields(NewLine(i, i), NoLabels, entries[i], config)]
      LineOf(i) == IF made[i][2] = NoLabels THEN [made[i][1] EXCEPT !.labels = Nil] ELSE made[i][1] IN
  GroupLogs([i \in DOMAIN entries |-> Hashed(LineOf(i))], [i \in DOMAIN entries |-> made[i][2]], groupBy, dedupBy)

\* ToLogResult: streams have labels and values, each <<time, message>>.
ToLogResult(streams, config, groupBy, dedupBy) ==
  LET LineOf(s, v) ==
        Hashed(MapFields([NewLine(s, s) EXCEPT !.first = v[1], !.message = v[2]], streams[s].labels,
                         SetToSeq({<<k, streams[s].labels[k]>> : k \in DOMAIN streams[s].labels}), config)[1])
      lines == FoldLeft(LAMBDA acc, s : acc \o [i \in DOMAIN streams[s].values |-> LineOf(s, streams[s].values[i])],
                        << >>, [s \in DOMAIN streams |-> s]) IN
  GroupLogs(lines, [s \in DOMAIN streams |-> streams[s].labels], groupBy, dedupBy)

-----------------------------------------------------------------------------
(* Properties.                                                             *)

Total(lines) == FoldLeft(LAMBDA acc, l : acc + l.count, 0, lines)
\* GroupLogs, for lines that have maps of their own: nothing that was observed is lost.
\* The lines of a group have the key they are grouped by, it counts as many observations
\* as they do from the first to the last of them, and a line has its labels or its group
\* has them, and no group of several lines leaves a label to each of them.
GroupsKeepLines(lines, maps, groupBy, dedupBy) ==
  LET out == GroupLogs(lines, maps, groupBy, dedupBy)
      Key(l) == GetFieldKey(l, maps, groupBy)
      Lines(g) == SelectSeq(lines, LAMBDA l : Key(l) = Key(g.logs[1])) IN
  groupBy # << >> =>
    /\ Total(lines) = FoldLeft(LAMBDA acc, g : acc + Total(g.logs), 0, out.groups)
    /\ \A g \in ToSet(out.groups) :
         LET own == Lines(g) IN
         /\ Total(g.logs) = Total(own)
         /\ Min({g.logs[j].first : j \in DOMAIN g.logs}) = Min({own[j].first : j \in DOMAIN own})
         /\ Max({g.logs[j].last : j \in DOMAIN g.logs}) = Max({own[j].last : j \in DOMAIN own})
         /\ \A j \in DOMAIN g.logs : g.labels @@ At(out.maps, g.logs[j].labels) = At(maps, g.logs[j].labels)
         /\ dedupBy = << >> => \A k \in DOMAIN At(maps, own[1].labels) :
              k \in DOMAIN g.labels <=> \A j \in DOMAIN own :
                LET map == At(maps, own[j].labels) IN k \in DOMAIN map /\ map[k] = maps[own[1].labels][k]

\* MapFieldToLogLine, ParseMessage and GroupLogs in turn: the fields of an entry are found
\* in its line or in the labels of its group, but those that are ignored or that a later
\* field takes the place of, however it is grouped; parsing a message adds to them.
EntriesKeepFields(entries, config, default, groupBy, text, format) ==
  LET keys == WithDefaults(config, default)
      out == Search(entries, keys, groupBy, << >>)
      Kept(line, labels, fields, as) ==
        \A i \in DOMAIN fields :
          LET target == Target(fields[i][1], as) IN
          \/ target = "ignore" \/ \E j \in i + 1 .. Len(fields) : Target(fields[j][1], as) = target
          \/ target \in ToSet(Canonical) /\ line[target] = fields[i][2]
          \/ target \in DOMAIN labels /\ labels[target] = fields[i][2] IN
  groupBy # << >> =>
    \A g \in ToSet(out.groups) : \A l \in ToSet(g.logs) :
      LET labels == g.labels @@ At(out.maps, l.labels)
          parsed == ParseMessage(l, labels, text, format) IN
      /\ Kept(l, labels, entries[l.id], keys)
      /\ DOMAIN labels \subseteq DOMAIN parsed[2]
      /\ format = text.form => LET as == IF format \in {"json", "logfmt"} THEN ParsedKeys(format) ELSE [f \in ToSet(Canonical) |-> {}] IN
                               Kept(parsed[1], parsed[2], text.fields, as)

\* ToLogResult: where lines are grouped by the labels of their streams alone, so that the
\* lines that share labels are in one group, a line has the labels of its stream or its
\* group has them.
StreamsKeepLabels(streams, config, groupBy) ==
  LET out == ToLogResult(streams, config, groupBy, << >>) IN
  (\A i \in DOMAIN groupBy : groupBy[i] \notin {"message", "hash"}) =>
    \A g \in ToSet(out.groups) : \A l \in ToSet(g.logs) : g.labels @@ out.maps[l.labels] = streams[l.labels].labels
=============================================================================
