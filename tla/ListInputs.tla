----------------------------- MODULE ListInputs -----------------------------
(***************************************************************************)
(* The list parameters of a resource: what its node declares              *)
(* (graph/inputs.go), what a request may then ask (include/inputs.go and   *)
(* include/inputs_resolve.go) and what the document says it may            *)
(* (apidoc/inputparams.go).                                                *)
(***************************************************************************)
EXTENDS WireShape

CONSTANT None   \* an undeclared setting, an absent parameter

ASSUME NoneAssumption == None \notin {"INVALID_SORT", "INVALID_PAGINATION", "INVALID_FILTER"}

\* DefaultPageLimit and DefaultMaxPageLimit.
DefaultPageLimit == 20
DefaultMaxPageLimit == 100

\* A sort is a wire key and a direction; "-title" is title, descending.
SortOf(k) == [key |-> k, desc |-> FALSE]
Sorts(keys) == [key : keys, desc : BOOLEAN]

\* DefaultInputs: what a node that declares nothing has.
DefaultInputs == [sort |-> FALSE, sortDefault |-> None, keys |-> <<>>,
                  filter |-> FALSE, fields |-> {}, mode |-> "offset",
                  defaultLimit |-> DefaultPageLimit, maxLimit |-> DefaultMaxPageLimit]

-----------------------------------------------------------------------------
(* compileInputs. *)

\* The limits a node ends up with: an unset default limit is within the maximum.
PageMax(d) == IF d.maxLimit > 0 THEN d.maxLimit ELSE DefaultMaxPageLimit
PageLimit(d, max) ==
    IF d.defaultLimit > 0 THEN d.defaultLimit
    ELSE IF d.defaultLimit = 0 THEN Min({DefaultPageLimit, max})
    ELSE DefaultPageLimit

CompiledInputs(d, shape) ==
    IF d = None THEN DefaultInputs
    ELSE [sort |-> d.sort,
          sortDefault |-> IF d.sort THEN d.sortDefault ELSE None,
          keys |-> IF d.sort THEN [k \in SortCols(shape) |-> shape.cols[k].col] ELSE <<>>,
          filter |-> d.filter,
          fields |-> IF d.filter THEN FilterCols(shape) ELSE {},
          mode |-> IF d.mode = "cursor" THEN "cursor" ELSE "offset",
          defaultLimit |-> PageLimit(d, PageMax(d)),
          maxLimit |-> PageMax(d)]

InputFaults(d, shape) ==
    IF d = None THEN {}
    ELSE {r \in {"nothingSortable", "sortDefault", "sortDisabled", "nothingFilterable",
                 "pageMode", "negativeLimit", "limitAboveMax"} :
            \/ r = "nothingSortable" /\ d.sort /\ SortCols(shape) = {}
            \/ r = "sortDefault" /\ d.sort /\ d.sortDefault # None
                                 /\ d.sortDefault.key \notin SortCols(shape)
            \/ r = "sortDisabled" /\ ~d.sort /\ d.sortDefault # None
            \/ r = "nothingFilterable" /\ d.filter /\ FilterCols(shape) = {}
            \/ r = "pageMode" /\ d.mode = "other"
            \/ r = "negativeLimit" /\ (d.defaultLimit < 0 \/ d.maxLimit < 0)
            \/ r = "limitAboveMax" /\ PageLimit(d, PageMax(d)) > PageMax(d)}

-----------------------------------------------------------------------------
(* InputsOf and ResolveInputs: a request's raw parameters, 0 and None for the
   absent ones.  where is a condition on one of the resource's own fields. *)

\* InputsOf: the limits of a resource that no builder compiled are settled too.
SettlePage(in) ==
    LET max == IF in.maxLimit <= 0 THEN DefaultMaxPageLimit ELSE in.maxLimit
    IN  [in EXCEPT !.maxLimit = max,
                   !.defaultLimit = IF @ <= 0 THEN Min({DefaultPageLimit, max}) ELSE @]

SortAsked(in, raw) == IF raw.sort # None THEN raw.sort ELSE in.sortDefault

SortAccepted(in, raw) ==
    SortAsked(in, raw) # None => in.sort /\ SortAsked(in, raw).key \in DOMAIN in.keys
\* LimitAcceptedBelow is a mutant: the maximum itself is refused.
LimitAcceptedBelow(in, raw) == raw.limit >= 0 /\ raw.limit < in.maxLimit
LimitAccepted(in, raw) == raw.limit >= 0 /\ raw.limit <= in.maxLimit
PageAccepted(in, raw) ==
    IF in.mode = "cursor" THEN raw.page = 0 ELSE raw.cursor = None /\ raw.page >= 0
\* ResolveFilter admits a condition on a column that is bound for filtering.
WhereAccepted(in, cols, raw) ==
    raw.where # None =>
        in.filter /\ raw.where \in DOMAIN cols /\ cols[raw.where].filterable

Refused(code) == [error |-> code]

\* ResolveInputs: sort, then limit and page, then the filter; the first fault is
\* the answer.
ResolveInputs(in, cols, raw) ==
    IF ~SortAccepted(in, raw) THEN Refused("INVALID_SORT")
    ELSE IF ~(LimitAccepted(in, raw) /\ PageAccepted(in, raw)) THEN Refused("INVALID_PAGINATION")
    ELSE IF ~WhereAccepted(in, cols, raw) THEN Refused("INVALID_FILTER")
    ELSE [error |-> None,
          sort |-> IF SortAsked(in, raw) = None THEN None
                   ELSE [SortAsked(in, raw) EXCEPT !.key = in.keys[@]],
          limit |-> IF raw.limit = 0 THEN in.defaultLimit ELSE raw.limit,
          page |-> IF in.mode = "cursor" THEN 0 ELSE Max({raw.page, 1}),
          cursor |-> raw.cursor,
          where |-> raw.where]

-----------------------------------------------------------------------------
(* InputParams: the parameters the document lists, each with the values it
   admits.  A sort over no key admits none and is not listed. *)
InputParams(in) ==
    [sort |-> IF in.sort THEN Sorts(DOMAIN in.keys) ELSE {},
     sortDefault |-> IF in.sort /\ in.keys # <<>> THEN in.sortDefault ELSE None,
     paging |-> IF in.mode = "cursor" THEN "cursor" ELSE "page",
     maxLimit |-> in.maxLimit,
     defaultLimit |-> in.defaultLimit,
     where |-> IF in.filter THEN in.fields ELSE {}]
=============================================================================
