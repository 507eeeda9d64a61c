----------------------------- MODULE WireShape -----------------------------
(***************************************************************************)
(* deriveShape of graph/compile.go: from a wire type, the fields that      *)
(* encoding/json writes for it, and which of them are bound to a column    *)
(* that can be sorted or filtered by.  A struct is a sequence of fields; a *)
(* field may embed another struct, which is flattened.                     *)
(***************************************************************************)
EXTENDS Integers, SequencesExt, FiniteSetsExt, Functions

CONSTANTS Structs,      \* the struct types: each the sequence of its fields
          Wires,        \* the wire types of nodes: structs, or not
          NoTag         \* a field without a json tag, or without a column tag

\* A field: its Go name, its json tag ("-" for one that is never written, "-,"
\* for one named "-"), its type and its column tag.  A type that is no struct
\* is one whose values a filter can compare, or cannot.
ColumnTag == [tag : {"col", "sortCol", "both"}, name : STRING, opts : Seq(STRING)]
Field == [name : STRING, json : STRING \cup {NoTag}, exported : BOOLEAN, anonymous : BOOLEAN,
          type : DOMAIN Structs \cup {"comparable", "opaque"}, column : ColumnTag \cup {NoTag}]

ASSUME StructsAssumption == \A t \in DOMAIN Structs : Structs[t] \in Seq(Field)

\* The keys of a JSON filter that group conditions.
GroupKeys == {"and", "or"}

-----------------------------------------------------------------------------
(* The column tag: col:"name[,sort][,filter]", or the legacy sortCol:"name". *)

TagName(f) == IF f.json = "-," THEN "-" ELSE f.json
WireKey(f) == IF f.json = NoTag THEN f.name ELSE TagName(f)
HasTag(f) == f.json # NoTag
Bound(f) == HasTag(f) /\ TagName(f) # "-"
Embeds(f) == f.anonymous /\ ~HasTag(f) /\ f.type \in DOMAIN Structs

Repeats(s, o) == Cardinality({i \in DOMAIN s : s[i] = o}) > 1

\* Whether parseColTag returns a column, what is wrong with the tag it read, and
\* the column itself: a malformed option is reported and the column kept.
HasColumn(f) ==
    /\ f.column # NoTag
    /\ f.column.tag # "both"
    /\ f.column.name # ""
    /\ f.column.tag = "sortCol" => f.column.opts = <<>>

Granted(f, o) == f.column.tag = "col" /\ Contains(f.column.opts, o)
Column(f) == [col |-> f.column.name,
              sortable |-> f.column.tag = "sortCol" \/ Granted(f, "sort"),
              filterable |-> Granted(f, "filter")]

ColumnFaults(f) ==
    IF f.column = NoTag THEN {}
    ELSE {r \in {"bothTags", "emptyColumn", "sortColOptions", "badOption", "filterType"} :
            \/ r = "bothTags" /\ f.column.tag = "both"
            \/ r = "emptyColumn" /\ f.column.tag # "both" /\ f.column.name = ""
            \/ r = "sortColOptions" /\ f.column.tag = "sortCol" /\ f.column.name # ""
                                    /\ f.column.opts # <<>>
            \/ /\ r = "badOption"
               /\ f.column.tag = "col" /\ HasColumn(f)
               /\ \E o \in Range(f.column.opts) :
                     o \notin {"sort", "filter"} \/ Repeats(f.column.opts, o)
            \/ r = "filterType" /\ HasColumn(f) /\ Granted(f, "filter") /\ f.type # "comparable"}

-----------------------------------------------------------------------------
(* The walk over the fields, through the embedded structs. *)

\* A walk is at the end of a chain of structs, each embedded in the one before:
\* a struct that embeds one of its own chain ends the recursion.
Chains == {p \in SeqOf(DOMAIN Structs, Cardinality(DOMAIN Structs)) : p # <<>> /\ IsInjective(p)}
FieldsOf(p) == Structs[Last(p)]

Candidate(f, depth) ==
    [key |-> WireKey(f), depth |-> depth, tagged |-> HasTag(f),
     column |-> IF Bound(f) /\ HasColumn(f) THEN Column(f) ELSE NoTag]

\* What a field contributes to the candidates and to the faults at its place.
Written(f) == ~Embeds(f) /\ f.exported /\ f.json # "-"
FieldFaults(f) ==
    {r \in {"tagOnUnexported", "tagOnEmbed"} :
        /\ f.column # NoTag
        /\ \/ r = "tagOnUnexported" /\ ~f.exported
           \/ r = "tagOnEmbed" /\ f.exported /\ Embeds(f)}
    \cup (IF Written(f) /\ Bound(f) THEN ColumnFaults(f) ELSE {})

\* collectWireFields.
Walk[p \in Chains] ==
    FoldLeft(LAMBDA acc, f :
                 LET below == IF Embeds(f) /\ f.type \notin Range(p)
                              THEN Walk[Append(p, f.type)]
                              ELSE [cands |-> <<>>, faults |-> {}]
                     own == IF Written(f) THEN <<Candidate(f, Len(p) - 1)>> ELSE <<>>
                 IN  [cands |-> acc.cands \o own \o below.cands,
                      faults |-> acc.faults \cup FieldFaults(f) \cup below.faults],
             [cands |-> <<>>, faults |-> {}], FieldsOf(p))

-----------------------------------------------------------------------------
(* Depth dominance: the shallowest candidate of a name wins, and among several
   of them the only one with a tag. *)

Rivals(cands, c) ==
    LET same == {i \in DOMAIN cands : cands[i].key = c.key}
        best == Min({cands[i].depth : i \in same})
    IN  {i \in same : cands[i].depth = best}
TaggedOf(cands, S) == {i \in S : cands[i].tagged}

Wins(cands, i) ==
    LET rivals == Rivals(cands, cands[i])
    IN  i \in rivals /\ (rivals = {i} \/ TaggedOf(cands, rivals) = {i})
Drops(cands, i) ==
    LET rivals == Rivals(cands, cands[i])
    IN  Cardinality(rivals) > 1 /\ Cardinality(TaggedOf(cands, rivals)) # 1

\* deriveShape: the fields in order, the columns by field, and the faults.
Shape(t) ==
    IF t \notin DOMAIN Structs
    THEN [fields |-> <<>>, cols |-> <<>>, faults |-> {"notAStruct"}]
    ELSE
    LET cands == Walk[<<t>>].cands
        won == SelectSeq([i \in DOMAIN cands |-> i], LAMBDA i : Wins(cands, i))
        bound == {i \in Range(won) : cands[i].column # NoTag}
        cols == [k \in {cands[i].key : i \in bound} |->
                    cands[CHOOSE i \in bound : cands[i].key = k].column]
    IN  [fields |-> [i \in DOMAIN won |-> cands[won[i]].key],
         cols |-> cols,
         faults |-> Walk[<<t>>].faults
                    \cup {r \in {"duplicateName", "reservedColumn"} :
                            \/ r = "duplicateName" /\ \E i \in DOMAIN cands : Drops(cands, i)
                            \/ r = "reservedColumn" /\ \E k \in DOMAIN cols \cap GroupKeys :
                                                          cols[k].filterable}]

Shapes == [w \in Wires |-> Shape(w)]

\* The columns by which rows can be sorted, and the SQL name of each.
SortCols(shape) == {k \in DOMAIN shape.cols : shape.cols[k].sortable}
FilterCols(shape) == {k \in DOMAIN shape.cols : shape.cols[k].filterable}
=============================================================================
