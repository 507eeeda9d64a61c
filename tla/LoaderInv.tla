------------------------------ MODULE LoaderInv ------------------------------
(***************************************************************************)
(* The inductive invariant behind Loader's safety properties.  None of     *)
(* those is inductive: that two calls never fetch the same key follows     *)
(* from what the map points to, which in turn follows from where the       *)
(* owner of every entry is.                                                *)
(***************************************************************************)
EXTENDS Loader

\* The entries that the map of a state object points to.
Live == {"open"} \cup Settled

Before == {"idle", "state", "lock"}
Using == {"lock", "fetch", "store", "fail", "wait"}

\* Ctx.State hands out one state object per loader: every call that got past
\* perRequest works on its loader's.
OneStateObject ==
    /\ \A c \in Calls : pc[c] \in Using => obj[c] \in Calls /\ obj[c] = slot[job[c].loader]
    /\ \A c \in Calls : pc[c] \in {"idle", "state"} => obj[c] = None
    /\ \A c \in Calls : obj[c] \in Calls => obj[c] = slot[job[c].loader]
    /\ \A l \in Loaders : slot[l] \in Calls
            => /\ l \in Built
               /\ pc[slot[l]] \notin {"idle", "state"}
               /\ job[slot[l]].loader = l
    /\ \A c \in Calls : pc[c] \in {"state"} \cup Using =>
            /\ job[c].loader \in Built
            /\ job[c].op \in {"warm", "get"}

\* A call that has not claimed yet owns nothing.
NothingClaimed ==
    \A c \in Calls : pc[c] \in Before =>
        /\ mine[c] = {}
        /\ pending[c] = {}
        /\ err[c] = NoErr
        /\ \A k \in Keys : heap[c][k] = "none"

\* Where the owner of an entry is, seen from the entry.
OwnerPhase ==
    \A c \in Calls :
        /\ pc[c] \in {"fetch", "store"} => err[c] = NoErr
        /\ pc[c] = "fail" => err[c] \in Failed
        /\ pc[c] \in {"fetch", "store", "fail"} => job[c].op = "warm"
        /\ pc[c] = "fetch" => \A k \in mine[c] : heap[c][k] = "open"
        /\ pc[c] \in {"store", "fail"} =>
              /\ \A k \in todo[c] : heap[c][k] = "open"
              /\ \A k \in mine[c] \ todo[c] : heap[c][k] # "open"
        /\ pc[c] \in {"wait", "returned", "panicked"} =>
              \A k \in mine[c] : heap[c][k] # "open"
        /\ \A k \in Keys : heap[c][k] = "open" => k \in mine[c]
        /\ \A k \in mine[c] : heap[c][k] # "none"
        /\ \A k \in mine[c] :
              heap[c][k] \in Failed => pc[c] = "panicked" \/ err[c] # NoErr

\* The map and the heap agree: an entry that is open or settled is the one the
\* map holds for its key, and the map holds no other.
MapMatchesHeap ==
    /\ \A c \in Calls, k \in Keys : heap[c][k] \in Live =>
            obj[c] \in Calls /\ entries[obj[c]][k] = c
    /\ \A s \in Calls, k \in Keys : entries[s][k] # None =>
            heap[entries[s][k]][k] \in Live /\ obj[entries[s][k]] = s

\* A call waits for entries of its own state object only.
PendingEntries ==
    \A c \in Calls : \A p \in pending[c] :
        /\ heap[p[2]][p[1]] # "none"
        /\ obj[p[2]] = obj[c]

\* What a Warm does for each of its keys, from its claim until it returns.
KeysCovered ==
    \A c \in Calls :
        (job[c].op = "warm" /\ pc[c] \notin Before /\ pc[c] # "panicked" /\ err[c] = NoErr)
        => /\ \A k \in job[c].keys :
                \/ k \in mine[c]
                \/ \E p \in pending[c] : p[1] = k
                \/ EntryOf(obj[c], k) \in Settled
           /\ job[c].keys # {} => obj[c] \in Calls
           /\ pc[c] = "returned" => pending[c] = {}

\* A value known when a call began is still the one the map holds, and the one
\* a Get waits for.
OwedIsFound ==
    \A c \in Calls :
        /\ owed[c] \subseteq job[c].keys
        /\ \A k \in owed[c] : Known(job[c].loader, k) = Found
        /\ job[c].op = "get" => \A j, k \in job[c].keys : j = k
        /\ (job[c].op = "get" /\ owed[c] # {}) =>
              /\ \A p \in pending[c] : heap[p[2]][p[1]] = Found
              /\ pc[c] = "returned" => hit[c]

IInv ==
    /\ TypeOK
    /\ OneStateObject
    /\ NothingClaimed
    /\ OwnerPhase
    /\ MapMatchesHeap
    /\ PendingEntries
    /\ KeysCovered
    /\ OwedIsFound
=============================================================================
