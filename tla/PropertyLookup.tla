---------------------------- MODULE PropertyLookup ----------------------------
(***************************************************************************)
(* How HierarchicalProperties (context/properties.go) resolves a key: by   *)
(* getProperty, one key at a time, and by WithPrefix, all the keys of a    *)
(* prefix at once, which ApplySessionProperties (db.go) turns into the     *)
(* settings of a transaction.  A map is a function from Keys that is Unset *)
(* where it has no entry; every key has the prefix.                        *)
(***************************************************************************)
EXTENDS Integers, Sequences, SequencesExt

CONSTANTS
  Keys, Values, Unset,
  MaxDepth      \* bound: annotated objects in a context

ASSUME PropertyLookupAssumption == Unset \notin Values /\ MaxDepth \in Nat

Maps == [Keys -> Values \union {Unset}]
Nothing == [k \in Keys |-> Unset]

\* What Properties() resolves from: the process-local properties (CLI, file and
\* properties.Set), the properties table, and the annotations of the objects of the
\* context, parents first.  An object without any adds no level.
Hierarchies ==
  [cli : Maps, rows : Maps, chain : UNION {[1 .. n -> Maps \ {Nothing}] : n \in 0 .. MaxDepth}]

-----------------------------------------------------------------------------

\* The entries of over hide those of map.
Over(map, over) == [k \in Keys |-> IF over[k] # Unset THEN over[k] ELSE map[k]]

\* globalProperties: the map of the root.
GlobalProperties(h) == Over(h.rows, h.cli)

\* Variant: a parent is asked before the object's own annotations are looked at.
GetPropertyParentFirst(h, key) ==
  LET get[n \in 0 .. Len(h.chain)] ==
        IF n = 0 THEN GlobalProperties(h)[key]
        ELSE IF get[n - 1] # Unset THEN get[n - 1] ELSE h.chain[n][key]
  IN  IF h.cli[key] # Unset THEN h.cli[key] ELSE get[Len(h.chain)]

\* getProperty of the last object: process-local, own, then the parent's, down to the
\* global map at the root.
GetProperty(h, key) ==
  LET get[n \in 0 .. Len(h.chain)] ==
        IF n = 0 THEN GlobalProperties(h)[key]
        ELSE IF h.chain[n][key] # Unset THEN h.chain[n][key] ELSE get[n - 1]
  IN  IF h.cli[key] # Unset THEN h.cli[key] ELSE get[Len(h.chain)]

\* Variant: the process-local properties are copied first.
WithPrefixLast(h) ==
  LET own == Over(h.cli, IF h.chain = << >> THEN GlobalProperties(h) ELSE Nothing)
  IN  FoldLeft(Over, own, h.chain)

\* WithPrefix: the global map of the receiver itself, which only a root has, then the
\* chain from the root down, then the process-local properties.
WithPrefix(h) ==
  LET own == IF h.chain = << >> THEN GlobalProperties(h) ELSE Nothing
  IN  Over(FoldLeft(Over, own, h.chain), h.cli)

-----------------------------------------------------------------------------
(* Properties.                                                             *)

\* getProperty: the sources of a key, the first of which wins.
Precedence(h, key) ==
  <<h.cli[key]>> \o [i \in DOMAIN h.chain |-> h.chain[Len(h.chain) + 1 - i][key]] \o <<h.rows[key]>>

\* getProperty: "CLI/env -> local -> parent chain -> global DB", although the global map
\* holds the process-local properties too and each parent looks at them again.
FollowsPrecedence(h) ==
  \A key \in Keys :
    LET set == SelectSeq(Precedence(h, key), LAMBDA v : v # Unset)
    IN  GetProperty(h, key) = IF set = << >> THEN Unset ELSE Head(set)

\* WithPrefix agrees with getProperty on what the process and the objects set; what
\* only the table sets it finds for contexts without annotated objects.
AgreesOnObjects(h) ==
  \A key \in Keys :
    (h.cli[key] # Unset \/ h.chain = << >> \/ \E i \in DOMAIN h.chain : h.chain[i][key] # Unset)
      => WithPrefix(h)[key] = GetProperty(h, key)
=============================================================================
