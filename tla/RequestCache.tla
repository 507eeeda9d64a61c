---------------------------- MODULE RequestCache ----------------------------
(***************************************************************************)
(* What the loader package promises a request, without locks, entries or   *)
(* waiting: per loader and key a cache slot that goes from unknown to      *)
(* loading, and from loading to an outcome that stays or back to unknown;  *)
(* and the answers calls may get.  Loader implements it.                   *)
(***************************************************************************)
EXTENDS FiniteSets

CONSTANTS Calls, Loaders, Keys,
          Built   \* the loaders that have a fetch

VARIABLES
    cache,   \* cache[l][k]
    ask,     \* what each call asked for
    owed,    \* the keys each call may count on: known to have a value when it asked
    reply    \* what each call was told

cacheVars == <<cache, ask, owed, reply>>

Outcomes == {"found", "absent"}
Replies == {"none", "ok", "error", "hit", "miss", "panic"}
Asks == [op : {"none", "warm", "get"}, loader : Loaders, keys : SUBSET Keys]

CacheInit ==
    /\ cache = [l \in Loaders |-> [k \in Keys |-> "unknown"]]
    /\ ask \in [Calls -> {a \in Asks : a.op = "none"}]
    /\ owed = [c \in Calls |-> {}]
    /\ reply = [c \in Calls |-> "none"]

\* The answer a call gets without looking at the cache.
Immediate(a) ==
    CASE a.op = "warm" /\ a.keys = {} -> "ok"
      [] a.op = "warm" /\ a.keys # {} /\ a.loader \notin Built -> "error"
      [] a.op = "get" /\ a.loader \notin Built -> "miss"
      [] OTHER -> "none"

Ask(c, a) ==
    /\ ask[c].op = "none"
    /\ a.op # "none"
    /\ ask' = [ask EXCEPT ![c] = a]
    /\ owed' = [owed EXCEPT ![c] = {k \in a.keys : cache[a.loader][k] = "found"}]
    /\ reply' = [reply EXCEPT ![c] = Immediate(a)]
    /\ UNCHANGED cache

\* One fetch takes a batch of unknown keys.
Load(l, ks) ==
    /\ \A k \in ks : cache[l][k] = "unknown"
    /\ cache' = [cache EXCEPT ![l] = [k \in Keys |-> IF k \in ks THEN "loading" ELSE @[k]]]
    /\ UNCHANGED <<ask, owed, reply>>

SettleKey(l, k, outcome) ==
    /\ cache[l][k] = "loading"
    /\ cache' = [cache EXCEPT ![l][k] = outcome]
    /\ UNCHANGED <<ask, owed, reply>>

\* Of a fetch that failed or panicked nothing is kept.
Forget(l, k) ==
    /\ cache[l][k] = "loading"
    /\ cache' = [cache EXCEPT ![l][k] = "unknown"]
    /\ UNCHANGED <<ask, owed, reply>>

Warmed(c) == \A k \in ask[c].keys : cache[ask[c].loader][k] \in Outcomes
Hit(c) == \A k \in ask[c].keys : cache[ask[c].loader][k] = "found"

\* A Warm answers nil only when all its keys have an outcome; a Get hits only a
\* found key, and must hit one it may count on.
Reply(c, r) ==
    /\ reply[c] = "none"
    /\ \/ ask[c].op = "warm" /\ (r \in {"error", "panic"} \/ (r = "ok" /\ Warmed(c)))
       \/ ask[c].op = "get" /\ (   (r = "hit" /\ Hit(c)) \/ (r = "miss" /\ owed[c] = {}))
    /\ reply' = [reply EXCEPT ![c] = r]
    /\ UNCHANGED <<cache, ask, owed>>

CacheNext ==
    \/ \E c \in Calls : \/ \E a \in Asks : Ask(c, a)
                        \/ \E r \in Replies \ {"none"} : Reply(c, r)
    \/ \E l \in Loaders : \/ \E ks \in SUBSET Keys : Load(l, ks)
                          \/ \E k \in Keys : \/ \E o \in Outcomes : SettleKey(l, k, o)
                                             \/ Forget(l, k)

CacheSpec == CacheInit /\ [][CacheNext]_cacheVars
=============================================================================
