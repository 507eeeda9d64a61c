------------------------------- MODULE Loader -------------------------------
(***************************************************************************)
(* The request-scoped batch loader of loader/loader.go: one include.Ctx,   *)
(* several loaders, and the Warm and Get calls that the goroutines of that *)
(* request make.  A call of this module is one invocation: it is started   *)
(* at most once, and a goroutine that warms twice is two calls started one *)
(* after the other.                                                        *)
(*                                                                         *)
(* Heap objects are named by the call that allocated them: the state       *)
(* object of a loader by the call that ran mk in Ctx.State, and an entry   *)
(* of key k by the call that claimed k.  A call claims a key at most once, *)
(* so <<call, key>> is a pointer: an entry dropped from the map and still  *)
(* held by a waiter is never confused with its successor.                  *)
(***************************************************************************)
EXTENDS FiniteSets, Integers

CONSTANTS Calls,    \* the Warm and Get invocations of one request
          Loaders,  \* the *loader.Loader values of the application
          Keys,     \* the keys of their side data
          Built,    \* the loaders made by New; the others have a nil fetch
          Caller,   \* Caller[c]: the call whose fetch makes call c, or None
          MayCall,  \* <<l, m>>: a fetch of l may warm and read loader m
          None      \* the nil pointer

ASSUME ConstantsAssumption ==
    /\ Loaders # {}
    /\ Built \subseteq Loaders
    /\ None \notin Calls
    /\ Caller \in [Calls -> Calls \cup {None}]
    /\ MayCall \subseteq Loaders \X Loaders

VARIABLES
    pc,       \* where each call is
    job,      \* what each call was asked: Warm or Get, of which loader and keys
    slot,     \* Ctx.state: the state object of each loader, None before first use
    obj,      \* st: the state object a call works on
    mu,       \* mu[s]: the call that holds the mutex of state object s
    entries,  \* entries[s][k]: the entry state object s maps k to
    heap,     \* heap[c][k]: the entry call c claimed for key k
    mine,     \* the keys a Warm claimed and must fetch
    todo,     \* the claimed keys its settling loop has not reached yet
    found,    \* the keys its fetch returned a value for
    pending,  \* the entries a call still has to wait for, as <<key, owner>>
    err,      \* firstErr of a Warm
    hit,      \* what a Get reported
    owed      \* history: the keys known to have a value when the call began

vars == <<pc, job, slot, obj, mu, entries, heap, mine, todo, found, pending,
          err, hit, owed>>

-----------------------------------------------------------------------------
NoErr == "nil"
Errors == {NoErr, "errNilFetch", "fetchError", "errFetchPanicked"}

\* An entry is open until its done channel is closed; val, ok and err are
\* written only before that close and read only after it.
Found == "found"
Absent == "absent"
Failed == {"fetchError", "errFetchPanicked"}
Settled == {Found, Absent}
EntryStates == {"none", "open"} \cup Settled \cup Failed
IsDone(e) == e \in Settled \cup Failed

Jobs == [op : {"none", "warm", "get"}, loader : Loaders, keys : SUBSET Keys]
NoJob == [op |-> "none", loader |-> CHOOSE l \in Loaders : TRUE, keys |-> {}]

Locations == {"idle", "state", "lock", "fetch", "store", "fail", "wait",
              "returned", "panicked"}
Running(c) == pc[c] \notin {"idle", "returned", "panicked"}

\* A call that claimed keys and has not settled all of them.
InFlight(c) == pc[c] \in {"fetch", "store", "fail"}

\* The entry that loader l's map holds for k, read under its mutex.
EntryOf(s, k) == IF entries[s][k] = None THEN "none" ELSE heap[entries[s][k]][k]
Known(l, k) == IF slot[l] = None THEN "none" ELSE EntryOf(slot[l], k)

\* fetch runs its nested calls on its own goroutines and joins them.
NestedReturned(c) == \A d \in Calls : Caller[d] = c => ~Running(d)
MayStart(c, l) ==
    Caller[c] # None => /\ pc[Caller[c]] = "fetch"
                        /\ <<job[Caller[c]].loader, l>> \in MayCall

-----------------------------------------------------------------------------
Init ==
    /\ pc = [c \in Calls |-> "idle"]
    /\ job = [c \in Calls |-> NoJob]
    /\ slot = [l \in Loaders |-> None]
    /\ obj = [c \in Calls |-> None]
    /\ mu = [c \in Calls |-> None]
    /\ entries = [c \in Calls |-> [k \in Keys |-> None]]
    /\ heap = [c \in Calls |-> [k \in Keys |-> "none"]]
    /\ mine = [c \in Calls |-> {}]
    /\ todo = [c \in Calls |-> {}]
    /\ found = [c \in Calls |-> {}]
    /\ pending = [c \in Calls |-> {}]
    /\ err = [c \in Calls |-> NoErr]
    /\ hit = [c \in Calls |-> FALSE]
    /\ owed = [c \in Calls |-> {}]

\* Warm with zero keys returns nil before the nil-fetch check; a loader built
\* without New then fails loudly.
StartWarm(c, l, ks) ==
    /\ pc[c] = "idle"
    /\ MayStart(c, l)
    /\ job' = [job EXCEPT ![c] = [op |-> "warm", loader |-> l, keys |-> ks]]
    /\ pc' = [pc EXCEPT ![c] =
                  IF ks = {} \/ l \notin Built THEN "returned" ELSE "state"]
    /\ err' = [err EXCEPT ![c] =
                  IF ks # {} /\ l \notin Built THEN "errNilFetch" ELSE NoErr]
    /\ owed' = [owed EXCEPT ![c] = {k \in ks : Known(l, k) = Found}]
    /\ UNCHANGED <<slot, obj, mu, entries, heap, mine, todo, found, pending, hit>>

\* Get on a loader with a nil fetch misses and touches nothing.
StartGet(c, l, k) ==
    /\ pc[c] = "idle"
    /\ MayStart(c, l)
    /\ job' = [job EXCEPT ![c] = [op |-> "get", loader |-> l, keys |-> {k}]]
    /\ pc' = [pc EXCEPT ![c] = IF l \in Built THEN "state" ELSE "returned"]
    /\ owed' = [owed EXCEPT ![c] = IF Known(l, k) = Found THEN {k} ELSE {}]
    /\ UNCHANGED <<slot, obj, mu, entries, heap, mine, todo, found, pending,
                   err, hit>>

\* A mutant of PerRequest: every call allocates a state object of its own.
PerRequestAllocates(c) ==
    /\ pc[c] = "state"
    /\ slot' = [slot EXCEPT ![job[c].loader] = c]
    /\ obj' = [obj EXCEPT ![c] = c]
    /\ pc' = [pc EXCEPT ![c] = "lock"]
    /\ UNCHANGED <<job, mu, entries, heap, mine, todo, found, pending, err, hit,
                   owed>>

\* perRequest: Ctx.State returns the loader's state object, allocating it on
\* first use, in one critical section of the Ctx's own mutex.
PerRequest(c) ==
    LET l == job[c].loader
        s == IF slot[l] = None THEN c ELSE slot[l]
    IN  /\ pc[c] = "state"
        /\ slot' = [slot EXCEPT ![l] = s]
        /\ obj' = [obj EXCEPT ![c] = s]
        /\ pc' = [pc EXCEPT ![c] = "lock"]
        /\ UNCHANGED <<job, mu, entries, heap, mine, todo, found, pending, err,
                       hit, owed>>

\* The locked loop of Warm.  Nothing outside the critical section can see it
\* half done: the map is read under the mutex only, and the fresh entries are
\* reachable only through the map.
\* ToFetchRefetches is a mutant: only a fetch under way keeps a key from being
\* claimed again.
ToFetchRefetches(c) == {k \in job[c].keys : EntryOf(obj[c], k) # "open"}
ToFetch(c) == {k \in job[c].keys : entries[obj[c]][k] = None}
ToAwait(c) == {k \in job[c].keys : EntryOf(obj[c], k) = "open"}

Claim(c) ==
    LET s == obj[c] IN
    /\ pc[c] = "lock"
    /\ job[c].op = "warm"
    /\ mu[s] = None
    /\ mine' = [mine EXCEPT ![c] = ToFetch(c)]
    /\ entries' = [entries EXCEPT ![s] =
                      [k \in Keys |-> IF k \in ToFetch(c) THEN c ELSE @[k]]]
    /\ heap' = [heap EXCEPT ![c] =
                      [k \in Keys |-> IF k \in ToFetch(c) THEN "open" ELSE @[k]]]
    /\ pending' = [pending EXCEPT ![c] = {<<k, entries[s][k]>> : k \in ToAwait(c)}]
    /\ pc' = [pc EXCEPT ![c] = IF ToFetch(c) # {} THEN "fetch" ELSE "wait"]
    /\ UNCHANGED <<job, slot, obj, mu, todo, found, err, hit, owed>>

\* fetch returned: runFetch takes the mutex and settles the claimed entries one
\* at a time.  Values for keys it was not asked for are never read.
FetchSucceeds(c, vals) ==
    /\ pc[c] = "fetch"
    /\ NestedReturned(c)
    /\ mu[obj[c]] = None
    /\ mu' = [mu EXCEPT ![obj[c]] = c]
    /\ found' = [found EXCEPT ![c] = vals]
    /\ todo' = [todo EXCEPT ![c] = mine[c]]
    /\ pc' = [pc EXCEPT ![c] = "store"]
    /\ UNCHANGED <<job, slot, obj, entries, heap, mine, pending, err, hit, owed>>

\* fetch returned an error, or panicked and the deferred settler runs.
FetchFails(c, e) ==
    /\ pc[c] = "fetch"
    /\ NestedReturned(c)
    /\ mu[obj[c]] = None
    /\ mu' = [mu EXCEPT ![obj[c]] = c]
    /\ err' = [err EXCEPT ![c] = e]
    /\ todo' = [todo EXCEPT ![c] = mine[c]]
    /\ pc' = [pc EXCEPT ![c] = "fail"]
    /\ UNCHANGED <<job, slot, obj, entries, heap, mine, found, pending, hit, owed>>

\* One turn of the settling loop on success: a claimed key is cached with its
\* value or, when fetch left it out, negatively.  Closing done lets a waiter go
\* on although the mutex is still held.
StoreKey(c, k) ==
    /\ pc[c] = "store"
    /\ k \in todo[c]
    /\ heap' = [heap EXCEPT ![c][k] = IF k \in found[c] THEN Found ELSE Absent]
    /\ todo' = [todo EXCEPT ![c] = @ \ {k}]
    /\ UNCHANGED <<pc, job, slot, obj, mu, entries, mine, found, pending, err,
                   hit, owed>>

\* Mutants of FailKey: the failed entry stays in the map; or every key of the
\* call is forgotten, the cached ones among them.
FailKeyKeeps(c, k) ==
    /\ pc[c] = "fail"
    /\ k \in todo[c]
    /\ heap' = [heap EXCEPT ![c][k] = err[c]]
    /\ todo' = [todo EXCEPT ![c] = @ \ {k}]
    /\ UNCHANGED <<pc, job, slot, obj, mu, entries, mine, found, pending, err, hit,
                   owed>>

FailKeyForgetsAll(c, k) ==
    /\ pc[c] = "fail"
    /\ k \in todo[c]
    /\ heap' = [heap EXCEPT ![c][k] = err[c]]
    /\ entries' = [entries EXCEPT ![obj[c]] =
                      [j \in Keys |-> IF j \in job[c].keys THEN None ELSE @[j]]]
    /\ todo' = [todo EXCEPT ![c] = @ \ {k}]
    /\ UNCHANGED <<pc, job, slot, obj, mu, mine, found, pending, err, hit, owed>>

\* One turn of fail: waiters get the error, the map forgets the key.
FailKey(c, k) ==
    LET s == obj[c] IN
    /\ pc[c] = "fail"
    /\ k \in todo[c]
    /\ heap' = [heap EXCEPT ![c][k] = err[c]]
    /\ entries' = [entries EXCEPT ![s][k] = IF @ = c THEN None ELSE @]
    /\ todo' = [todo EXCEPT ![c] = @ \ {k}]
    /\ UNCHANGED <<pc, job, slot, obj, mu, mine, found, pending, err, hit, owed>>

\* The settling loop is over.  A panic goes on unwinding: the pending entries
\* are not waited for.
Unlock(c) ==
    /\ pc[c] \in {"store", "fail"}
    /\ todo[c] = {}
    /\ mu' = [mu EXCEPT ![obj[c]] = None]
    /\ pc' = [pc EXCEPT ![c] = IF err[c] = "errFetchPanicked" THEN "panicked" ELSE "wait"]
    /\ UNCHANGED <<job, slot, obj, entries, heap, mine, todo, found, pending,
                   err, hit, owed>>

\* Get reads the map under the mutex and, when the key has an entry, waits for it.
Lookup(c, k) ==
    LET s == obj[c] IN
    /\ pc[c] = "lock"
    /\ job[c].op = "get"
    /\ k \in job[c].keys
    /\ mu[s] = None
    /\ IF entries[s][k] = None
       THEN /\ pc' = [pc EXCEPT ![c] = "returned"]
            /\ UNCHANGED pending
       ELSE /\ pc' = [pc EXCEPT ![c] = "wait"]
            /\ pending' = [pending EXCEPT ![c] = {<<k, entries[s][k]>>}]
    /\ UNCHANGED <<job, slot, obj, mu, entries, heap, mine, todo, found, err,
                   hit, owed>>

\* Mutants of AwaitEntry: what the entry holds becomes the error unchecked;
\* somebody else's failure is nobody's error; or a failed entry is waited for
\* again.
AwaitEntryUnchecked(c, p) ==
    /\ pc[c] = "wait"
    /\ job[c].op = "warm"
    /\ p \in pending[c]
    /\ IsDone(heap[p[2]][p[1]])
    /\ pending' = [pending EXCEPT ![c] = @ \ {p}]
    /\ err' = [err EXCEPT ![c] = IF @ = NoErr THEN heap[p[2]][p[1]] ELSE @]
    /\ UNCHANGED <<pc, job, slot, obj, mu, entries, heap, mine, todo, found, hit,
                   owed>>

AwaitEntryIgnores(c, p) ==
    /\ pc[c] = "wait"
    /\ job[c].op = "warm"
    /\ p \in pending[c]
    /\ IsDone(heap[p[2]][p[1]])
    /\ pending' = [pending EXCEPT ![c] = @ \ {p}]
    /\ UNCHANGED <<pc, job, slot, obj, mu, entries, heap, mine, todo, found, err,
                   hit, owed>>

AwaitEntryAgain(c, p) ==
    /\ pc[c] = "wait"
    /\ job[c].op = "warm"
    /\ p \in pending[c]
    /\ IsDone(heap[p[2]][p[1]])
    /\ pending' = [pending EXCEPT ![c] = IF heap[p[2]][p[1]] \in Failed THEN @ ELSE @ \ {p}]
    /\ UNCHANGED <<pc, job, slot, obj, mu, entries, heap, mine, todo, found, err, hit,
                   owed>>

\* <-e.done of a Warm.  The order of the loop is the caller's argument order,
\* hence any order.
AwaitEntry(c, p) ==
    LET e == heap[p[2]][p[1]] IN
    /\ pc[c] = "wait"
    /\ job[c].op = "warm"
    /\ p \in pending[c]
    /\ IsDone(e)
    /\ pending' = [pending EXCEPT ![c] = @ \ {p}]
    /\ err' = [err EXCEPT ![c] = IF e \in Failed /\ @ = NoErr THEN e ELSE @]
    /\ UNCHANGED <<pc, job, slot, obj, mu, entries, heap, mine, todo, found, hit,
                   owed>>

\* A mutant of WarmReturns: it does not wait for the other calls' fetches.
WarmReturnsEarly(c) ==
    /\ pc[c] = "wait"
    /\ job[c].op = "warm"
    /\ pc' = [pc EXCEPT ![c] = "returned"]
    /\ UNCHANGED <<job, slot, obj, mu, entries, heap, mine, todo, found, pending,
                   err, hit, owed>>

WarmReturns(c) ==
    /\ pc[c] = "wait"
    /\ job[c].op = "warm"
    /\ pending[c] = {}
    /\ pc' = [pc EXCEPT ![c] = "returned"]
    /\ UNCHANGED <<job, slot, obj, mu, entries, heap, mine, todo, found, pending,
                   err, hit, owed>>

\* <-e.done of a Get: an error or an absent key is a miss.
GetReturns(c, p) ==
    LET e == heap[p[2]][p[1]] IN
    /\ pc[c] = "wait"
    /\ job[c].op = "get"
    /\ p \in pending[c]
    /\ IsDone(e)
    /\ hit' = [hit EXCEPT ![c] = (e = Found)]
    /\ pc' = [pc EXCEPT ![c] = "returned"]
    /\ UNCHANGED <<job, slot, obj, mu, entries, heap, mine, todo, found, pending,
                   err, owed>>

\* Every call has returned: the request is over or its goroutines do other work.
Rest ==
    /\ \A c \in Calls : ~Running(c)
    /\ UNCHANGED vars

\* What the request's goroutines may choose to do, and what a call then does.
Start(c) == \E l \in Loaders :
    \/ \E ks \in SUBSET Keys : StartWarm(c, l, ks)
    \/ \E k \in Keys : StartGet(c, l, k)

Fetch(c) ==
    \/ \E vals \in SUBSET mine[c] : FetchSucceeds(c, vals)
    \/ \E e \in Failed : FetchFails(c, e)

Settle(c) ==
    \/ \E k \in Keys : StoreKey(c, k) \/ FailKey(c, k)
    \/ Unlock(c)

Await(c) ==
    \/ \E p \in pending[c] : AwaitEntry(c, p) \/ GetReturns(c, p)
    \/ WarmReturns(c)

Proceed(c) ==
    \/ PerRequest(c)
    \/ Claim(c)
    \/ \E k \in Keys : Lookup(c, k)
    \/ Fetch(c)
    \/ Settle(c)
    \/ Await(c)

Next == (\E c \in Calls : Start(c) \/ Proceed(c)) \/ Rest

Spec == Init /\ [][Next]_vars

\* Goroutines are scheduled, and every fetch returns, fails or panics: nothing
\* obliges a call to be made.
FairSpec == Spec /\ \A c \in Calls : WF_vars(Proceed(c))

-----------------------------------------------------------------------------
TypeOK ==
    /\ pc \in [Calls -> Locations]
    /\ job \in [Calls -> Jobs]
    /\ slot \in [Loaders -> Calls \cup {None}]
    /\ obj \in [Calls -> Calls \cup {None}]
    /\ mu \in [Calls -> Calls \cup {None}]
    /\ entries \in [Calls -> [Keys -> Calls \cup {None}]]
    /\ heap \in [Calls -> [Keys -> EntryStates]]
    /\ mine \in [Calls -> SUBSET Keys]
    /\ todo \in [Calls -> SUBSET Keys]
    /\ found \in [Calls -> SUBSET Keys]
    /\ pending \in [Calls -> SUBSET (Keys \X Calls)]
    /\ err \in [Calls -> Errors]
    /\ hit \in [Calls -> BOOLEAN]
    /\ owed \in [Calls -> SUBSET Keys]

\* Single flight: two calls never fetch the same key of the same loader at the
\* same time, whatever batches it arrived in (the claim loop of Warm, over the
\* one state object Ctx.State hands out).
SingleFlight ==
    \A c, d \in Calls :
        /\ pc[c] = "fetch"
        /\ pc[d] = "fetch"
        /\ job[c].loader = job[d].loader
        /\ mine[c] \cap mine[d] # {}
        => c = d

\* A Warm that returned nil has taught the request every key it was given,
\* whether it fetched it, found it cached or waited for somebody else's fetch.
WarmedIsKnown ==
    \A c \in Calls :
        (pc[c] = "returned" /\ job[c].op = "warm" /\ err[c] = NoErr)
        => \A k \in job[c].keys : Known(job[c].loader, k) \in Settled

\* No poisoning: whenever the mutex is free, no key maps to a failed entry, so
\* a later Warm refetches it instead of taking it for cached.
FailuresAreForgotten ==
    \A s \in Calls, k \in Keys : mu[s] = None => EntryOf(s, k) \notin Failed

\* A call that began when the request already knew a value for its key reports
\* that value, whatever ran in between (Get's two phases, the entry never
\* replaced in the map).
KnownIsServed ==
    \A c \in Calls :
        (pc[c] = "returned" /\ job[c].op = "get" /\ owed[c] # {}) => hit[c]

\* What a step may never do: once a key settles, found or absent alike, its
\* outcome stays for the rest of the request and no call claims it again.
SettledKept ==
    \A l \in Loaders, k \in Keys :
        Known(l, k) \in Settled => /\ Known(l, k)' = Known(l, k)
                                   /\ slot'[l] = slot[l]
                                   /\ entries'[slot[l]][k] = entries[slot[l]][k]
SettledForever == [][SettledKept]_vars

\* Every call returns or panics, whoever owns the fetches it waits for, as long
\* as the loaders do not call each other in a circle: failed and panicked
\* fetches release their waiters.
EveryCallReturns == \A c \in Calls : Running(c) ~> ~Running(c)
-----------------------------------------------------------------------------
\* The loader implements the request cache: the state objects, entries and
\* mutexes are one way to keep its promises.
CacheOf(l, k) ==
    CASE Known(l, k) = "none" -> "unknown"
      [] Known(l, k) = "open" -> "loading"
      [] OTHER -> Known(l, k)

ReplyOf(c) ==
    CASE pc[c] = "panicked" -> "panic"
      [] pc[c] = "returned" /\ job[c].op = "warm" ->
             IF err[c] = NoErr THEN "ok" ELSE "error"
      [] pc[c] = "returned" /\ job[c].op = "get" -> IF hit[c] THEN "hit" ELSE "miss"
      [] OTHER -> "none"

Cache == INSTANCE RequestCache WITH
    cache <- [l \in Loaders |-> [k \in Keys |-> CacheOf(l, k)]],
    ask <- job,
    reply <- [c \in Calls |-> ReplyOf(c)]

\* Every step of the loader is a step of the request cache or leaves it alone.
ImplementsRequestCache == Cache!CacheSpec
=============================================================================
