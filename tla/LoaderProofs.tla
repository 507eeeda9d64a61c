---------------------------- MODULE LoaderProofs ----------------------------
(***************************************************************************)
(* Proofs about Loader, for any number of calls, loaders and keys and any  *)
(* nesting of fetches: IInv of LoaderInv is inductive, the safety          *)
(* properties of Loader follow from it, and with it every behaviour of     *)
(* Loader is one of RequestCache.                                          *)
(***************************************************************************)
EXTENDS LoaderInv, TLAPS

USE DEF Found, Absent, Settled, Failed, NoErr, Live, Before, Using, Errors,
        EntryStates, Locations, IsDone

-----------------------------------------------------------------------------
\* The invariant holds at the start: nobody has called anything.
LEMMA InitHolds == Init => IInv
<1>. SUFFICES ASSUME Init PROVE IInv
  OBVIOUS
<1>1. NoJob \in Jobs
  BY ConstantsAssumption DEF NoJob, Jobs
<1>2. TypeOK
  BY <1>1 DEF Init, TypeOK
<1>3. OneStateObject
  BY ConstantsAssumption DEF Init, OneStateObject
<1>4. NothingClaimed /\ OwnerPhase /\ PendingEntries
  BY DEF Init, NothingClaimed, OwnerPhase, PendingEntries
<1>5. MapMatchesHeap
  BY DEF Init, MapMatchesHeap
<1>6. KeysCovered /\ OwedIsFound
  BY DEF Init, KeysCovered, OwedIsFound, NoJob
<1>. QED
  BY <1>2, <1>3, <1>4, <1>5, <1>6 DEF IInv

-----------------------------------------------------------------------------
\* One lemma per action: it preserves the invariant, conjunct by conjunct.
\* A Warm that starts owes the keys known to be found, and no other call's debt
\* changes.
LEMMA StartWarmOwed ==
    ASSUME IInv, NEW c \in Calls, NEW l \in Loaders, NEW ks \in SUBSET Keys, StartWarm(c, l, ks)
    PROVE  OwedIsFound'
<1>0. slot' = slot /\ entries' = entries /\ heap' = heap /\ pending' = pending /\ hit' = hit
  BY DEF StartWarm
<1>2. /\ job'[c] = [op |-> "warm", loader |-> l, keys |-> ks]
      /\ owed'[c] = {k \in ks : Known(l, k) = Found}
  BY DEF IInv, TypeOK, StartWarm
<1>3. ASSUME NEW d \in Calls, d # c
      PROVE  job'[d] = job[d] /\ owed'[d] = owed[d] /\ pc'[d] = pc[d]
  BY <1>3 DEF IInv, TypeOK, StartWarm
<1>4. \A d \in Calls : d # c =>
        /\ owed'[d] \subseteq job'[d].keys
        /\ \A k \in owed'[d] : Known(job'[d].loader, k) = Found
        /\ job'[d].op = "get" => \A j, k \in job'[d].keys : j = k
        /\ (job'[d].op = "get" /\ owed'[d] # {}) =>
              /\ \A p \in pending[d] : heap[p[2]][p[1]] = Found
              /\ pc'[d] = "returned" => hit[d]
  BY <1>3 DEF IInv, OwedIsFound
<1>5. /\ owed'[c] \subseteq job'[c].keys
      /\ \A k \in owed'[c] : Known(job'[c].loader, k) = Found
      /\ job'[c].op # "get"
  BY <1>2
<1>6. QED
  BY <1>0, <1>4, <1>5 DEF OwedIsFound, Known, EntryOf

LEMMA StartWarmStep ==
    ASSUME IInv, NEW c \in Calls, NEW l \in Loaders, NEW ks \in SUBSET Keys, StartWarm(c, l, ks)
    PROVE  IInv'
<1>1. TypeOK'
  BY DEF IInv, TypeOK, StartWarm, Jobs
<1>2. OneStateObject'
  BY ConstantsAssumption DEF IInv, OneStateObject, StartWarm, TypeOK
<1>3. NothingClaimed'
  BY DEF IInv, NothingClaimed, StartWarm, TypeOK
<1>4. OwnerPhase'
  BY DEF IInv, OwnerPhase, StartWarm, NothingClaimed
<1>5. MapMatchesHeap'
  BY DEF IInv, MapMatchesHeap, StartWarm
<1>6. PendingEntries'
  BY DEF IInv, PendingEntries, StartWarm
<1>7. KeysCovered'
  BY DEF IInv, KeysCovered, StartWarm, TypeOK, NothingClaimed, EntryOf
<1>8. OwedIsFound'
  BY StartWarmOwed
<1>. QED
  BY <1>1, <1>2, <1>3, <1>4, <1>5, <1>6, <1>7, <1>8 DEF IInv

LEMMA StartGetStep ==
    ASSUME IInv, NEW c \in Calls, NEW l \in Loaders, NEW k \in Keys, StartGet(c, l, k)
    PROVE  IInv'
<1>1. TypeOK'
  BY DEF IInv, TypeOK, StartGet, Jobs
<1>2. OneStateObject'
  BY ConstantsAssumption DEF IInv, OneStateObject, StartGet, TypeOK
<1>3. NothingClaimed'
  BY DEF IInv, NothingClaimed, StartGet
<1>4. OwnerPhase'
  BY DEF IInv, OwnerPhase, StartGet, NothingClaimed
<1>5. MapMatchesHeap'
  BY DEF IInv, MapMatchesHeap, StartGet
<1>6. PendingEntries'
  BY DEF IInv, PendingEntries, StartGet
<1>7. KeysCovered'
  BY DEF IInv, KeysCovered, StartGet, TypeOK, EntryOf, Known
<1>8. OwedIsFound'
  BY ConstantsAssumption DEF IInv, OwedIsFound, StartGet, TypeOK, OneStateObject, NothingClaimed, KeysCovered, EntryOf, Known
<1>. QED
  BY <1>1, <1>2, <1>3, <1>4, <1>5, <1>6, <1>7, <1>8 DEF IInv

LEMMA PerRequestStep ==
    ASSUME IInv, NEW c \in Calls, PerRequest(c)
    PROVE  IInv'
<1>1. TypeOK'
  BY DEF IInv, TypeOK, PerRequest, Jobs
<1>2. OneStateObject'
  BY ConstantsAssumption DEF IInv, OneStateObject, PerRequest, TypeOK
<1>3. NothingClaimed'
  BY DEF IInv, NothingClaimed, PerRequest
<1>4. OwnerPhase'
  BY DEF IInv, OwnerPhase, PerRequest
<1>5. MapMatchesHeap'
  BY DEF IInv, MapMatchesHeap, PerRequest, NothingClaimed
<1>6. PendingEntries'
  BY DEF IInv, PendingEntries, PerRequest, TypeOK, NothingClaimed
<1>7. KeysCovered'
  BY DEF IInv, KeysCovered, PerRequest, TypeOK, EntryOf, Known
<1>8. OwedIsFound'
  BY DEF IInv, OwedIsFound, PerRequest, TypeOK, EntryOf, Known
<1>. QED
  BY <1>1, <1>2, <1>3, <1>4, <1>5, <1>6, <1>7, <1>8 DEF IInv

\* A claim leaves every settled key alone: it takes keys without an entry only.
LEMMA ClaimKeepsSettled ==
    ASSUME IInv, NEW c \in Calls, Claim(c), NEW s \in Calls, NEW k \in Keys, EntryOf(s, k) \in Settled
    PROVE  EntryOf(s, k)' = EntryOf(s, k)
<1>1. entries[s][k] \in Calls /\ heap[entries[s][k]][k] \in Settled
  BY DEF EntryOf, IInv, TypeOK
<1>2. entries[s][k] # c
  BY <1>1 DEF IInv, NothingClaimed, Claim
<1>3. entries'[s][k] = entries[s][k] /\ heap'[entries[s][k]][k] = heap[entries[s][k]][k]
  BY <1>1, <1>2, ConstantsAssumption DEF Claim, IInv, TypeOK, ToFetch
<1>4. QED
  BY <1>3 DEF EntryOf

\* After its claim, each key of a Warm is claimed, awaited or settled; the other
\* calls' keys stay covered, as settled keys stay settled.
LEMMA ClaimCovers ==
    ASSUME IInv, NEW c \in Calls, Claim(c)
    PROVE  KeysCovered'
<1>0. obj' = obj
  BY DEF Claim
<1>1. ASSUME NEW s \in Calls, NEW k \in Keys, EntryOf(s, k) \in Settled
      PROVE  EntryOf(s, k)' = EntryOf(s, k)
  BY <1>1, ClaimKeepsSettled
<1>2. ASSUME NEW k \in job[c].keys
      PROVE  \/ k \in mine'[c]
             \/ \E p \in pending'[c] : p[1] = k
             \/ EntryOf(obj[c], k)' \in Settled
  <2>0. k \in Keys /\ obj[c] \in Calls
    BY DEF IInv, TypeOK, Jobs, OneStateObject, Claim
  <2>1. CASE entries[obj[c]][k] = None
    BY <2>0, <2>1 DEF Claim, ToFetch, IInv, TypeOK
  <2>2. CASE EntryOf(obj[c], k) = "open"
    <3>1. <<k, entries[obj[c]][k]>> \in pending'[c]
      BY <2>0, <2>2 DEF Claim, ToAwait, IInv, TypeOK
    <3>2. QED BY <3>1
  <2>3. CASE EntryOf(obj[c], k) \in Settled
    BY <1>0, <1>1, <2>0, <2>3
  <2>4. QED
    BY <2>0, <2>1, <2>2, <2>3 DEF EntryOf, IInv, MapMatchesHeap
<1>3. ASSUME NEW d \in Calls, d # c, NEW j \in job[d].keys,
             job[d].op = "warm", pc[d] \notin Before, pc[d] # "panicked", err[d] = NoErr
      PROVE  \/ j \in mine[d]
             \/ \E p \in pending[d] : p[1] = j
             \/ EntryOf(obj[d], j)' \in Settled
  <2>1. obj[d] \in Calls /\ j \in Keys
    BY <1>3 DEF IInv, KeysCovered, TypeOK, Jobs
  <2>2. PICK s \in Calls : s = obj[d]
    BY <2>1
  <2>3. EntryOf(s, j) \in Settled => EntryOf(s, j)' \in Settled
    BY <1>1, <2>1
  <2>4. EntryOf(obj[d], j)' = EntryOf(s, j)'
    BY <1>0, <2>2 DEF EntryOf
  <2>5. QED
    BY <1>3, <2>2, <2>3, <2>4 DEF IInv, KeysCovered
<1>4. QED
  BY <1>2, <1>3 DEF KeysCovered, Claim, IInv, TypeOK, OneStateObject

LEMMA ClaimStep ==
    ASSUME IInv, NEW c \in Calls, Claim(c)
    PROVE  IInv'
<1>1. TypeOK'
  BY DEF IInv, TypeOK, Claim, OneStateObject, EntryOf, Jobs, ToFetch, ToAwait
<1>2. OneStateObject'
  BY DEF IInv, OneStateObject, Claim
<1>3. NothingClaimed'
  BY DEF IInv, NothingClaimed, Claim, TypeOK
<1>4. OwnerPhase'
  BY DEF IInv, OwnerPhase, Claim, TypeOK, NothingClaimed, Jobs, ToFetch
<1>5. MapMatchesHeap'
  BY ConstantsAssumption DEF IInv, MapMatchesHeap, Claim, TypeOK, OneStateObject, ToFetch
<1>6. PendingEntries'
  BY DEF IInv, PendingEntries, Claim, TypeOK, OneStateObject, MapMatchesHeap, EntryOf, Jobs, ToAwait
<1>7. KeysCovered'
  BY ClaimCovers
<1>8. OwedIsFound'
  BY ConstantsAssumption DEF IInv, OwedIsFound, Claim, TypeOK, MapMatchesHeap, EntryOf, Known, ToFetch
<1>. QED
  BY <1>1, <1>2, <1>3, <1>4, <1>5, <1>6, <1>7, <1>8 DEF IInv

\* A Get waits for a pointer that is one.
LEMMA LookupType ==
    ASSUME IInv, NEW c \in Calls, NEW k \in Keys, Lookup(c, k)
    PROVE  TypeOK'
<1>1. obj[c] \in Calls
  BY DEF IInv, OneStateObject, Lookup
<1>2. entries[obj[c]][k] # None => <<k, entries[obj[c]][k]>> \in Keys \X Calls
  BY <1>1 DEF IInv, TypeOK
<1>3. pending' \in [Calls -> SUBSET (Keys \X Calls)]
  <2>1. CASE entries[obj[c]][k] = None
    BY <2>1 DEF IInv, TypeOK, Lookup
  <2>2. CASE entries[obj[c]][k] # None
    <3>1. pending' = [pending EXCEPT ![c] = {<<k, entries[obj[c]][k]>>}]
      BY <2>2 DEF Lookup
    <3>2. QED
      BY <1>2, <2>2, <3>1 DEF IInv, TypeOK
  <2>3. QED BY <2>1, <2>2
<1>4. QED
  BY <1>3 DEF IInv, TypeOK, Lookup, Locations

\* A Get waits for an entry of its own state object.
LEMMA LookupPending ==
    ASSUME IInv, NEW c \in Calls, NEW k \in Keys, Lookup(c, k)
    PROVE  PendingEntries'
<1>1. obj[c] \in Calls
  BY DEF IInv, OneStateObject, Lookup
<1>2. ASSUME NEW p \in pending'[c]
      PROVE  heap[p[2]][p[1]] # "none" /\ obj[p[2]] = obj[c]
  <2>1. CASE entries[obj[c]][k] = None
    BY <2>1 DEF IInv, PendingEntries, Lookup
  <2>2. CASE entries[obj[c]][k] # None
    <3>1. p = <<k, entries[obj[c]][k]>>
      BY <2>2 DEF IInv, TypeOK, Lookup
    <3>2. QED
      BY <1>1, <2>2, <3>1 DEF IInv, MapMatchesHeap
  <2>3. QED BY <2>1, <2>2
<1>3. QED
  BY <1>2 DEF IInv, TypeOK, PendingEntries, Lookup

\* A lookup changes nothing a Warm counts on.
LEMMA LookupCovers ==
    ASSUME IInv, NEW c \in Calls, NEW k \in Keys, Lookup(c, k)
    PROVE  KeysCovered'
<1>1. \A s \in Calls, j \in Keys : EntryOf(s, j)' = EntryOf(s, j)
  BY DEF Lookup, EntryOf
<1>2. ASSUME NEW d \in Calls, job[d].op = "warm"
      PROVE  pc'[d] = pc[d] /\ pending'[d] = pending[d]
  BY <1>2 DEF Lookup, IInv, TypeOK
<1>3. QED
  BY <1>1, <1>2 DEF KeysCovered, IInv, Lookup, EntryOf

\* A Get that may count on its key finds a found entry to wait for.
LEMMA LookupOwed ==
    ASSUME IInv, NEW c \in Calls, NEW k \in Keys, Lookup(c, k)
    PROVE  OwedIsFound'
<1>1. \A m \in Loaders, j \in Keys : Known(m, j)' = Known(m, j)
  BY DEF Lookup, Known, EntryOf
<1>2. ASSUME owed[c] # {}
      PROVE  pc'[c] = "wait" /\ \A p \in pending'[c] : heap[p[2]][p[1]] = Found
  <2>1. Known(job[c].loader, k) = Found
    BY <1>2 DEF IInv, OwedIsFound, Lookup
  <2>2. entries[obj[c]][k] # None /\ heap[entries[obj[c]][k]][k] = Found
    BY <2>1, ConstantsAssumption DEF Known, EntryOf, IInv, OneStateObject, Lookup
  <2>3. pc'[c] = "wait" /\ pending'[c] = {<<k, entries[obj[c]][k]>>}
    BY <2>2 DEF Lookup, IInv, TypeOK
  <2>4. QED
    BY <2>2, <2>3
<1>3. ASSUME NEW d \in Calls, d # c
      PROVE  pc'[d] = pc[d] /\ pending'[d] = pending[d]
  BY <1>3 DEF Lookup, IInv, TypeOK
<1>4. QED
  BY <1>1, <1>2, <1>3 DEF OwedIsFound, IInv, TypeOK, Jobs, Lookup

LEMMA LookupStep ==
    ASSUME IInv, NEW c \in Calls, NEW k \in Keys, Lookup(c, k)
    PROVE  IInv'
<1>1. TypeOK'
  BY LookupType
<1>2. OneStateObject'
  BY DEF IInv, OneStateObject, Lookup, TypeOK
<1>3. NothingClaimed'
  BY DEF IInv, NothingClaimed, Lookup, TypeOK
<1>4. OwnerPhase'
  BY DEF IInv, OwnerPhase, Lookup, TypeOK, NothingClaimed
<1>5. MapMatchesHeap'
  BY DEF IInv, MapMatchesHeap, Lookup
<1>6. PendingEntries'
  BY LookupPending
<1>7. KeysCovered'
  BY LookupCovers
<1>8. OwedIsFound'
  BY LookupOwed
<1>. QED
  BY <1>1, <1>2, <1>3, <1>4, <1>5, <1>6, <1>7, <1>8 DEF IInv

LEMMA FetchSucceedsStep ==
    ASSUME IInv, NEW c \in Calls, NEW vals \in SUBSET mine[c], FetchSucceeds(c, vals)
    PROVE  IInv'
<1>1. TypeOK'
  BY DEF IInv, TypeOK, FetchSucceeds, OneStateObject
<1>2. OneStateObject'
  BY DEF IInv, OneStateObject, FetchSucceeds
<1>3. NothingClaimed'
  BY DEF IInv, NothingClaimed, FetchSucceeds
<1>4. OwnerPhase'
  BY DEF IInv, OwnerPhase, FetchSucceeds, TypeOK
<1>5. MapMatchesHeap'
  BY DEF IInv, MapMatchesHeap, FetchSucceeds
<1>6. PendingEntries'
  BY DEF IInv, PendingEntries, FetchSucceeds
<1>7. KeysCovered'
  BY DEF IInv, KeysCovered, FetchSucceeds, EntryOf
<1>8. OwedIsFound'
  BY DEF IInv, OwedIsFound, FetchSucceeds, TypeOK, EntryOf, Known
<1>. QED
  BY <1>1, <1>2, <1>3, <1>4, <1>5, <1>6, <1>7, <1>8 DEF IInv

LEMMA FetchFailsStep ==
    ASSUME IInv, NEW c \in Calls, NEW e \in Failed, FetchFails(c, e)
    PROVE  IInv'
<1>1. TypeOK'
  BY DEF IInv, TypeOK, FetchFails, OneStateObject
<1>2. OneStateObject'
  BY DEF IInv, OneStateObject, FetchFails
<1>3. NothingClaimed'
  BY DEF IInv, NothingClaimed, FetchFails
<1>4. OwnerPhase'
  BY DEF IInv, OwnerPhase, FetchFails, TypeOK
<1>5. MapMatchesHeap'
  BY DEF IInv, MapMatchesHeap, FetchFails
<1>6. PendingEntries'
  BY DEF IInv, PendingEntries, FetchFails
<1>7. KeysCovered'
  BY DEF IInv, KeysCovered, FetchFails, TypeOK, EntryOf, Known
<1>8. OwedIsFound'
  BY DEF IInv, OwedIsFound, FetchFails, TypeOK, EntryOf, Known
<1>. QED
  BY <1>1, <1>2, <1>3, <1>4, <1>5, <1>6, <1>7, <1>8 DEF IInv

LEMMA StoreKeyStep ==
    ASSUME IInv, NEW c \in Calls, NEW k \in Keys, StoreKey(c, k)
    PROVE  IInv'
<1>1. TypeOK'
  BY DEF IInv, TypeOK, StoreKey
<1>2. OneStateObject'
  BY DEF IInv, OneStateObject, StoreKey
<1>3. NothingClaimed'
  BY DEF IInv, NothingClaimed, StoreKey
<1>4. OwnerPhase'
  BY DEF IInv, OwnerPhase, StoreKey, TypeOK
<1>5. MapMatchesHeap'
  BY DEF IInv, MapMatchesHeap, StoreKey, TypeOK, OwnerPhase
<1>6. PendingEntries'
  BY DEF IInv, PendingEntries, StoreKey
<1>7. KeysCovered'
  BY DEF IInv, KeysCovered, StoreKey, EntryOf
<1>8. OwedIsFound'
  BY DEF IInv, OwedIsFound, StoreKey, OwnerPhase, EntryOf, Known
<1>. QED
  BY <1>1, <1>2, <1>3, <1>4, <1>5, <1>6, <1>7, <1>8 DEF IInv

\* What FailKey does, once it is known that the entry is the one in the map.
LEMMA FailedEntry ==
    ASSUME IInv, NEW c \in Calls, NEW k \in Keys, FailKey(c, k)
    PROVE  /\ obj[c] \in Calls
           /\ entries[obj[c]][k] = c
           /\ heap[c][k] = "open"
           /\ entries' = [entries EXCEPT ![obj[c]][k] = None]
           /\ heap' = [heap EXCEPT ![c][k] = err[c]]
           /\ err[c] \in Failed
           /\ obj' = obj
<1>1. heap[c][k] = "open" /\ err[c] \in Failed
  BY DEF FailKey, IInv, OwnerPhase
<1>2. obj[c] \in Calls /\ entries[obj[c]][k] = c
  BY <1>1 DEF IInv, MapMatchesHeap
<1>3. QED
  BY <1>1, <1>2 DEF FailKey, IInv, TypeOK

\* FailKey takes the failed entry out of the map and leaves the others.
LEMMA FailMapMatches ==
    ASSUME IInv, NEW c \in Calls, NEW k \in Keys, FailKey(c, k)
    PROVE  MapMatchesHeap'
<1>0. /\ obj[c] \in Calls
           /\ entries[obj[c]][k] = c
           /\ heap[c][k] = "open"
           /\ entries' = [entries EXCEPT ![obj[c]][k] = None]
           /\ heap' = [heap EXCEPT ![c][k] = err[c]]
           /\ err[c] \in Failed
           /\ obj' = obj
  BY FailedEntry
<1>1. ASSUME NEW d \in Calls, NEW j \in Keys, heap'[d][j] \in Live
      PROVE  obj[d] \in Calls /\ entries'[obj[d]][j] = d
  <2>1. ~(d = c /\ j = k)
    BY <1>1, <1>0 DEF IInv, TypeOK
  <2>2. heap[d][j] \in Live
    BY <1>1, <2>1, <1>0 DEF IInv, TypeOK
  <2>3. obj[d] \in Calls /\ entries[obj[d]][j] = d
    BY <2>2 DEF IInv, MapMatchesHeap
  <2>4. QED
    BY <2>1, <2>3, <1>0 DEF IInv, TypeOK
<1>2. ASSUME NEW s \in Calls, NEW j \in Keys, entries'[s][j] # None
      PROVE  heap'[entries'[s][j]][j] \in Live /\ obj[entries'[s][j]] = s
  <2>1. ~(s = obj[c] /\ j = k) /\ entries'[s][j] = entries[s][j]
    BY <1>2, <1>0 DEF IInv, TypeOK
  <2>2. heap[entries[s][j]][j] \in Live /\ obj[entries[s][j]] = s
    BY <1>2, <2>1 DEF IInv, MapMatchesHeap
  <2>3. heap'[entries[s][j]][j] = heap[entries[s][j]][j]
    BY <2>1, <2>2, <1>0 DEF IInv, TypeOK
  <2>4. QED
    BY <2>1, <2>2, <2>3
<1>3. QED
  BY <1>1, <1>2 DEF MapMatchesHeap, FailKey

\* FailKey leaves the waiters their entries.
LEMMA FailPending ==
    ASSUME IInv, NEW c \in Calls, NEW k \in Keys, FailKey(c, k)
    PROVE  PendingEntries'
<1>0. /\ obj[c] \in Calls
           /\ entries[obj[c]][k] = c
           /\ heap[c][k] = "open"
           /\ entries' = [entries EXCEPT ![obj[c]][k] = None]
           /\ heap' = [heap EXCEPT ![c][k] = err[c]]
           /\ err[c] \in Failed
           /\ obj' = obj
  BY FailedEntry
<1>1. ASSUME NEW d \in Calls, NEW p \in pending[d]
      PROVE  heap'[p[2]][p[1]] # "none"
  <2>1. p \in Keys \X Calls
    BY DEF IInv, TypeOK
  <2>2. QED
  BY <1>1, <2>1, <1>0 DEF IInv, TypeOK, PendingEntries
<1>2. QED
  BY <1>1 DEF IInv, PendingEntries, FailKey

\* FailKey leaves every settled key alone.
LEMMA FailKeepsSettled ==
    ASSUME IInv, NEW c \in Calls, NEW k \in Keys, FailKey(c, k), NEW s \in Calls, NEW j \in Keys, EntryOf(s, j) \in Settled
    PROVE  EntryOf(s, j)' = EntryOf(s, j)
<1>0. /\ obj[c] \in Calls
           /\ entries[obj[c]][k] = c
           /\ heap[c][k] = "open"
           /\ entries' = [entries EXCEPT ![obj[c]][k] = None]
           /\ heap' = [heap EXCEPT ![c][k] = err[c]]
           /\ err[c] \in Failed
           /\ obj' = obj
  BY FailedEntry
<1>1. entries[s][j] \in Calls /\ heap[entries[s][j]][j] \in Settled
  BY DEF EntryOf, IInv, TypeOK
<1>2. ~(s = obj[c] /\ j = k)
  BY <1>1, <1>0
<1>3. ~(entries[s][j] = c /\ j = k)
  BY <1>1, <1>0
<1>4. entries'[s][j] = entries[s][j] /\ heap'[entries[s][j]][j] = heap[entries[s][j]][j]
  BY <1>1, <1>2, <1>3, <1>0 DEF IInv, TypeOK
<1>5. QED
  BY <1>4 DEF EntryOf

\* No Warm without an error loses a key to FailKey.
LEMMA FailCovers ==
    ASSUME IInv, NEW c \in Calls, NEW k \in Keys, FailKey(c, k)
    PROVE  KeysCovered'
<1>0. /\ obj[c] \in Calls
           /\ entries[obj[c]][k] = c
           /\ heap[c][k] = "open"
           /\ entries' = [entries EXCEPT ![obj[c]][k] = None]
           /\ heap' = [heap EXCEPT ![c][k] = err[c]]
           /\ err[c] \in Failed
           /\ obj' = obj
  BY FailedEntry
<1>1. ASSUME NEW s \in Calls, NEW j \in Keys, EntryOf(s, j) \in Settled
      PROVE  EntryOf(s, j)' = EntryOf(s, j)
  BY <1>1, FailKeepsSettled
<1>2. ASSUME NEW d \in Calls, NEW j \in job[d].keys,
             job[d].op = "warm", pc[d] \notin Before, pc[d] # "panicked", err[d] = NoErr
      PROVE  \/ j \in mine[d]
             \/ \E p \in pending[d] : p[1] = j
             \/ EntryOf(obj[d], j)' \in Settled
  <2>1. obj[d] \in Calls /\ j \in Keys
    BY <1>2 DEF IInv, KeysCovered, TypeOK, Jobs
  <2>2. PICK s \in Calls : s = obj[d]
    BY <2>1
  <2>3. EntryOf(s, j) \in Settled => EntryOf(s, j)' \in Settled
    BY <1>1, <2>1
  <2>4. EntryOf(obj[d], j)' = EntryOf(s, j)'
    BY <1>0, <2>2 DEF EntryOf
  <2>5. QED
    BY <1>2, <2>2, <2>3, <2>4 DEF IInv, KeysCovered
<1>3. QED
  BY <1>2 DEF KeysCovered, FailKey, IInv

LEMMA FailKeyStep ==
    ASSUME IInv, NEW c \in Calls, NEW k \in Keys, FailKey(c, k)
    PROVE  IInv'
<1>1. TypeOK'
  BY DEF IInv, TypeOK, FailKey, OwnerPhase, MapMatchesHeap
<1>2. OneStateObject'
  BY DEF IInv, OneStateObject, FailKey
<1>3. NothingClaimed'
  BY DEF IInv, NothingClaimed, FailKey
<1>4. OwnerPhase'
  BY DEF IInv, OwnerPhase, FailKey, TypeOK
<1>5. MapMatchesHeap'
  BY FailMapMatches
<1>6. PendingEntries'
  BY FailPending
<1>7. KeysCovered'
  BY FailCovers
<1>8. OwedIsFound'
  BY DEF IInv, OwedIsFound, FailKey, OwnerPhase, EntryOf, Known
<1>. QED
  BY <1>1, <1>2, <1>3, <1>4, <1>5, <1>6, <1>7, <1>8 DEF IInv

LEMMA UnlockStep ==
    ASSUME IInv, NEW c \in Calls, Unlock(c)
    PROVE  IInv'
<1>1. TypeOK'
  BY DEF IInv, TypeOK, Unlock, OneStateObject
<1>2. OneStateObject'
  BY DEF IInv, OneStateObject, Unlock
<1>3. NothingClaimed'
  BY DEF IInv, NothingClaimed, Unlock
<1>4. OwnerPhase'
  BY DEF IInv, OwnerPhase, Unlock
<1>5. MapMatchesHeap'
  BY DEF IInv, MapMatchesHeap, Unlock
<1>6. PendingEntries'
  BY DEF IInv, PendingEntries, Unlock
<1>7. KeysCovered'
  BY DEF IInv, KeysCovered, Unlock, EntryOf
<1>8. OwedIsFound'
  BY DEF IInv, OwedIsFound, Unlock, TypeOK, EntryOf, Known
<1>. QED
  BY <1>1, <1>2, <1>3, <1>4, <1>5, <1>6, <1>7, <1>8 DEF IInv

LEMMA AwaitEntryStep ==
    ASSUME IInv, NEW c \in Calls, NEW p \in pending[c], AwaitEntry(c, p)
    PROVE  IInv'
<1>1. TypeOK'
  BY DEF IInv, TypeOK, AwaitEntry
<1>2. OneStateObject'
  BY DEF IInv, OneStateObject, AwaitEntry
<1>3. NothingClaimed'
  BY DEF IInv, NothingClaimed, AwaitEntry
<1>4. OwnerPhase'
  BY DEF IInv, OwnerPhase, AwaitEntry
<1>5. MapMatchesHeap'
  BY DEF IInv, MapMatchesHeap, AwaitEntry
<1>6. PendingEntries'
  BY DEF IInv, PendingEntries, AwaitEntry
<1>7. KeysCovered'
  BY ConstantsAssumption DEF IInv, KeysCovered, AwaitEntry, TypeOK, MapMatchesHeap, PendingEntries, EntryOf
<1>8. OwedIsFound'
  BY DEF IInv, OwedIsFound, AwaitEntry, TypeOK, EntryOf, Known
<1>. QED
  BY <1>1, <1>2, <1>3, <1>4, <1>5, <1>6, <1>7, <1>8 DEF IInv

\* A Get that may count on its key hits.
LEMMA GetReturnsOwed ==
    ASSUME IInv, NEW c \in Calls, NEW p \in pending[c], GetReturns(c, p)
    PROVE  OwedIsFound'
<1>1. \A m \in Loaders, j \in Keys : Known(m, j)' = Known(m, j)
  BY DEF GetReturns, Known, EntryOf
<1>2. owed[c] # {} => hit'[c] = TRUE
  BY DEF GetReturns, IInv, OwedIsFound, TypeOK
<1>3. ASSUME NEW d \in Calls, d # c
      PROVE  pc'[d] = pc[d] /\ hit'[d] = hit[d]
  BY <1>3 DEF GetReturns, IInv, TypeOK
<1>4. QED
  BY <1>1, <1>2, <1>3 DEF OwedIsFound, IInv, TypeOK, Jobs, GetReturns

LEMMA GetReturnsStep ==
    ASSUME IInv, NEW c \in Calls, NEW p \in pending[c], GetReturns(c, p)
    PROVE  IInv'
<1>1. TypeOK'
  BY DEF IInv, TypeOK, GetReturns
<1>2. OneStateObject'
  BY DEF IInv, OneStateObject, GetReturns
<1>3. NothingClaimed'
  BY DEF IInv, NothingClaimed, GetReturns
<1>4. OwnerPhase'
  BY DEF IInv, OwnerPhase, GetReturns
<1>5. MapMatchesHeap'
  BY DEF IInv, MapMatchesHeap, GetReturns
<1>6. PendingEntries'
  BY DEF IInv, PendingEntries, GetReturns
<1>7. KeysCovered'
  BY DEF IInv, KeysCovered, GetReturns, EntryOf
<1>8. OwedIsFound'
  BY GetReturnsOwed
<1>. QED
  BY <1>1, <1>2, <1>3, <1>4, <1>5, <1>6, <1>7, <1>8 DEF IInv

LEMMA WarmReturnsStep ==
    ASSUME IInv, NEW c \in Calls, WarmReturns(c)
    PROVE  IInv'
<1>1. TypeOK'
  BY DEF IInv, TypeOK, WarmReturns
<1>2. OneStateObject'
  BY DEF IInv, OneStateObject, WarmReturns
<1>3. NothingClaimed'
  BY DEF IInv, NothingClaimed, WarmReturns
<1>4. OwnerPhase'
  BY DEF IInv, OwnerPhase, WarmReturns
<1>5. MapMatchesHeap'
  BY DEF IInv, MapMatchesHeap, WarmReturns
<1>6. PendingEntries'
  BY DEF IInv, PendingEntries, WarmReturns
<1>7. KeysCovered'
  BY DEF IInv, KeysCovered, WarmReturns, EntryOf
<1>8. OwedIsFound'
  BY DEF IInv, OwedIsFound, WarmReturns, TypeOK, EntryOf, Known
<1>. QED
  BY <1>1, <1>2, <1>3, <1>4, <1>5, <1>6, <1>7, <1>8 DEF IInv
-----------------------------------------------------------------------------
\* Every step preserves the invariant.
LEMMA NextStep == IInv /\ [Next]_vars => IInv'
<1>. SUFFICES ASSUME IInv, [Next]_vars PROVE IInv'
  OBVIOUS
<1>1. CASE UNCHANGED vars
  BY <1>1 DEF vars, IInv, TypeOK, OneStateObject, NothingClaimed, OwnerPhase,
              MapMatchesHeap, PendingEntries, KeysCovered, OwedIsFound, EntryOf, Known
<1>2. ASSUME NEW c \in Calls, Start(c) PROVE IInv'
  BY <1>2, StartWarmStep, StartGetStep DEF Start
<1>3. ASSUME NEW c \in Calls, Proceed(c) PROVE IInv'
  <2>1. CASE PerRequest(c) \/ Claim(c) \/ \E k \in Keys : Lookup(c, k)
    BY <2>1, PerRequestStep, ClaimStep, LookupStep
  <2>2. CASE Fetch(c)
    BY <2>2, FetchSucceedsStep, FetchFailsStep DEF Fetch
  <2>3. CASE Settle(c)
    BY <2>3, StoreKeyStep, FailKeyStep, UnlockStep DEF Settle
  <2>4. CASE Await(c)
    BY <2>4, AwaitEntryStep, GetReturnsStep, WarmReturnsStep DEF Await
  <2>. QED
    BY <1>3, <2>1, <2>2, <2>3, <2>4 DEF Proceed
<1>. QED
  BY <1>1, <1>2, <1>3 DEF Next, Rest

\* The inductive invariant holds in every reachable state.
THEOREM Invariance == Spec => []IInv
<1>1. Init => IInv
  BY InitHolds
<1>2. IInv /\ [Next]_vars => IInv'
  BY NextStep
<1>. QED
  BY <1>1, <1>2, PTL DEF Spec

-----------------------------------------------------------------------------
\* Every variable keeps its type.
THEOREM TypeCorrect == Spec => []TypeOK
<1>1. IInv => TypeOK
  BY DEF IInv
<1>. QED
  BY <1>1, Invariance, PTL

\* Single flight: no key of a loader is in two fetches at once.  Both fetching
\* calls work on the loader's one state object, whose map names one owner.
THEOREM NeverFetchedTwice == Spec => []SingleFlight
<1>1. IInv => SingleFlight
  <2>. SUFFICES ASSUME IInv, NEW c \in Calls, NEW d \in Calls,
                       pc[c] = "fetch", pc[d] = "fetch",
                       job[c].loader = job[d].loader,
                       NEW k \in mine[c] \cap mine[d]
                PROVE  c = d
    BY DEF SingleFlight
  <2>1. obj[c] = obj[d] /\ obj[c] \in Calls /\ k \in Keys
    BY DEF IInv, OneStateObject, TypeOK
  <2>2. heap[c][k] = "open" /\ heap[d][k] = "open"
    BY DEF IInv, OwnerPhase
  <2>. QED
    BY <2>1, <2>2 DEF IInv, MapMatchesHeap
<1>. QED
  BY <1>1, Invariance, PTL

\* A Warm that returned nil leaves every one of its keys settled in the map.
THEOREM WarmTeaches == Spec => []WarmedIsKnown
<1>1. IInv => WarmedIsKnown
  <2>. SUFFICES ASSUME IInv, NEW c \in Calls, pc[c] = "returned",
                       job[c].op = "warm", err[c] = NoErr, NEW k \in job[c].keys
                PROVE  Known(job[c].loader, k) \in Settled
    BY DEF WarmedIsKnown
  <2>1. k \in Keys /\ obj[c] \in Calls /\ obj[c] = slot[job[c].loader]
    BY DEF IInv, KeysCovered, OneStateObject, TypeOK, Jobs
  <2>2. k \in mine[c] \/ EntryOf(obj[c], k) \in Settled
    BY DEF IInv, KeysCovered
  <2>3. ASSUME k \in mine[c] PROVE heap[c][k] \in Settled
    <3>1. heap[c][k] \in EntryStates
      BY <2>1 DEF IInv, TypeOK
    <3>2. heap[c][k] \notin {"none", "open"} \cup Failed
      BY <2>3 DEF IInv, OwnerPhase
    <3>. QED
      BY <3>1, <3>2
  <2>4. EntryOf(obj[c], k) \in Settled
    BY <2>1, <2>2, <2>3, ConstantsAssumption DEF EntryOf, IInv, MapMatchesHeap
  <2>. QED
    BY <2>1, <2>4, ConstantsAssumption DEF Known
<1>. QED
  BY <1>1, Invariance, PTL

\* A free mutex guards a map without failed entries.
THEOREM FailuresForgotten == Spec => []FailuresAreForgotten
<1>1. IInv => FailuresAreForgotten
  BY DEF IInv, MapMatchesHeap, FailuresAreForgotten, EntryOf
<1>. QED
  BY <1>1, Invariance, PTL

\* A Get that began after its key was found hits.
THEOREM KnownServed == Spec => []KnownIsServed
<1>1. IInv => KnownIsServed
  BY DEF IInv, OwedIsFound, KnownIsServed
<1>. QED
  BY <1>1, Invariance, PTL

-----------------------------------------------------------------------------
\* An entry's outcome moves with its pointer only.
LEMMA SameMap ==
    ASSUME slot' = slot, entries' = entries, heap' = heap
    PROVE  SettledKept
BY DEF SettledKept, Known, EntryOf

\* The state object handed out first is the one handed out ever after.
LEMMA PerRequestKeeps ==
    ASSUME IInv, NEW c \in Calls, PerRequest(c)
    PROVE  SettledKept
<1>1. ASSUME NEW l \in Loaders, slot[l] # None PROVE slot'[l] = slot[l]
  BY <1>1 DEF PerRequest, IInv, TypeOK
<1>2. entries' = entries /\ heap' = heap
  BY DEF PerRequest
<1>. QED
  BY <1>1, <1>2 DEF SettledKept, Known, EntryOf

\* The actions that write the map or the heap leave settled keys alone.
LEMMA WritersKeep ==
    ASSUME IInv, NEW c \in Calls, NEW k \in Keys,
           Claim(c) \/ StoreKey(c, k) \/ FailKey(c, k),
           NEW s \in Calls, NEW j \in Keys, EntryOf(s, j) \in Settled
    PROVE  EntryOf(s, j)' = EntryOf(s, j) /\ entries'[s][j] = entries[s][j]
<1>1. entries[s][j] \in Calls /\ heap[entries[s][j]][j] \in Settled
  BY DEF EntryOf, IInv, TypeOK
<1>2. CASE Claim(c)
  <2>1. entries'[s][j] = entries[s][j]
    BY <1>1, <1>2, ConstantsAssumption DEF Claim, ToFetch, IInv, TypeOK
  <2>. QED
    BY <1>2, <2>1, ClaimKeepsSettled
<1>3. CASE StoreKey(c, k)
  <2>1. heap[c][k] = "open"
    BY <1>3 DEF StoreKey, IInv, OwnerPhase
  <2>2. entries' = entries /\ heap'[entries[s][j]][j] = heap[entries[s][j]][j]
    BY <1>1, <1>3, <2>1 DEF StoreKey, IInv, TypeOK
  <2>. QED
    BY <2>2 DEF EntryOf
<1>4. CASE FailKey(c, k)
  <2>0. /\ obj[c] \in Calls
        /\ entries[obj[c]][k] = c
        /\ heap[c][k] = "open"
        /\ entries' = [entries EXCEPT ![obj[c]][k] = None]
    BY <1>4, FailedEntry
  <2>1. ~(s = obj[c] /\ j = k)
    BY <1>1, <2>0
  <2>2. entries'[s][j] = entries[s][j]
    BY <2>0, <2>1 DEF IInv, TypeOK
  <2>. QED
    BY <1>4, <2>2, FailKeepsSettled
<1>. QED
  BY <1>2, <1>3, <1>4

LEMMA WritersKeepMap ==
    ASSUME IInv, NEW c \in Calls, NEW k \in Keys,
           Claim(c) \/ StoreKey(c, k) \/ FailKey(c, k)
    PROVE  SettledKept
<1>1. slot' = slot
  BY DEF Claim, StoreKey, FailKey
<1>2. ASSUME NEW l \in Loaders, NEW j \in Keys, Known(l, j) \in Settled
      PROVE  /\ Known(l, j)' = Known(l, j)
             /\ entries'[slot[l]][j] = entries[slot[l]][j]
  <2>1. slot[l] \in Calls
    BY <1>2 DEF Known, IInv, TypeOK
  <2>2. PICK s \in Calls : s = slot[l]
    BY <2>1
  <2>3. EntryOf(s, j) \in Settled /\ Known(l, j) = EntryOf(s, j)
    BY <1>2, <2>2, ConstantsAssumption DEF Known
  <2>4. EntryOf(s, j)' = EntryOf(s, j) /\ entries'[s][j] = entries[s][j]
    BY <2>3, WritersKeep
  <2>5. Known(l, j)' = EntryOf(s, j)'
    BY <1>1, <2>2, ConstantsAssumption DEF Known, EntryOf
  <2>. QED
    BY <2>2, <2>3, <2>4, <2>5
<1>. QED
  BY <1>1, <1>2 DEF SettledKept

\* Once a key settles its outcome stays for the rest of the request, and no
\* call claims it again: the entry in the map is never replaced.
THEOREM SettledStays == Spec => SettledForever
<1>1. IInv /\ [Next]_vars => [SettledKept]_vars
  <2>. SUFFICES ASSUME IInv, Next PROVE SettledKept \/ UNCHANGED vars
    OBVIOUS
  <2>1. ASSUME NEW c \in Calls, Start(c) PROVE SettledKept
    BY <2>1, SameMap DEF Start, StartWarm, StartGet
  <2>2. ASSUME NEW c \in Calls, Proceed(c) PROVE SettledKept
    <3>1. CASE PerRequest(c)
      BY <3>1, PerRequestKeeps
    <3>2. CASE Claim(c)
      <4>1. CASE Keys = {}
        BY <4>1 DEF SettledKept
      <4>2. CASE Keys # {}
        BY <3>2, <4>2, WritersKeepMap
      <4>. QED
        BY <4>1, <4>2
    <3>3. CASE \E k \in Keys : Lookup(c, k)
      BY <3>3, SameMap DEF Lookup
    <3>4. CASE Fetch(c)
      BY <3>4, SameMap DEF Fetch, FetchSucceeds, FetchFails
    <3>5. CASE Settle(c)
      BY <3>5, WritersKeepMap, SameMap DEF Settle, Unlock
    <3>6. CASE Await(c)
      BY <3>6, SameMap DEF Await, AwaitEntry, GetReturns, WarmReturns
    <3>. QED
      BY <2>2, <3>1, <3>2, <3>3, <3>4, <3>5, <3>6 DEF Proceed
  <2>. QED
    BY <2>1, <2>2 DEF Next, Rest
<1>. QED
  BY <1>1, Invariance, PTL DEF Spec, SettledForever

-----------------------------------------------------------------------------
(***************************************************************************)
(* Loader implements RequestCache: every step of the loader is a step of   *)
(* the request cache or leaves it as it was.                               *)
(***************************************************************************)

\* What IInv does not say: a call is asked once, it reports a hit only by
\* returning, and it waits for keys it was asked for.
AskedOnce ==
    \A c \in Calls :
        /\ pc[c] = "idle" => job[c].op = "none"
        /\ pc[c] # "returned" => ~hit[c]
        /\ \A p \in pending[c] : p[1] \in job[c].keys

RInv == IInv /\ AskedOnce

\* The parts of a step of the cache, over the refinement mapping.
SameCache == \A l \in Loaders, k \in Keys : CacheOf(l, k)' = CacheOf(l, k)
SameReply == \A c \in Calls : ReplyOf(c)' = ReplyOf(c)
SameAsks == job' = job /\ owed' = owed
OnlyChanges(l, ks, value) ==
    \A m \in Loaders, j \in Keys :
        CacheOf(m, j)' = IF m = l /\ j \in ks THEN value ELSE CacheOf(m, j)

-----------------------------------------------------------------------------
LEMMA Stutters ==
    ASSUME SameCache, SameReply, SameAsks
    PROVE  UNCHANGED Cache!cacheVars
<1>1. [l \in Loaders |-> [k \in Keys |-> CacheOf(l, k)]]'
        = [l \in Loaders |-> [k \in Keys |-> CacheOf(l, k)]]
  BY DEF SameCache
<1>2. [c \in Calls |-> ReplyOf(c)]' = [c \in Calls |-> ReplyOf(c)]
  BY DEF SameReply
<1>. QED
  BY <1>1, <1>2 DEF SameAsks, Cache!cacheVars

LEMMA Loads ==
    ASSUME NEW l \in Loaders, NEW ks \in SUBSET Keys, \A k \in ks : CacheOf(l, k) = "unknown",
           OnlyChanges(l, ks, "loading"), SameReply, SameAsks
    PROVE  Cache!CacheNext
<1>1. [m \in Loaders |-> [k \in Keys |-> CacheOf(m, k)]]'
        = [[m \in Loaders |-> [k \in Keys |-> CacheOf(m, k)]] EXCEPT
              ![l] = [k \in Keys |-> IF k \in ks THEN "loading" ELSE @[k]]]
  BY DEF OnlyChanges
<1>2. [c \in Calls |-> ReplyOf(c)]' = [c \in Calls |-> ReplyOf(c)]
  BY DEF SameReply
<1>3. Cache!Load(l, ks)
  BY <1>1, <1>2 DEF Cache!Load, SameAsks
<1>. QED
  BY <1>3 DEF Cache!CacheNext

LEMMA Settles ==
    ASSUME NEW l \in Loaders, NEW k \in Keys, CacheOf(l, k) = "loading",
           NEW value \in {"found", "absent", "unknown"},
           OnlyChanges(l, {k}, value), SameReply, SameAsks
    PROVE  Cache!CacheNext
<1>1. [m \in Loaders |-> [j \in Keys |-> CacheOf(m, j)]]'
        = [[m \in Loaders |-> [j \in Keys |-> CacheOf(m, j)]] EXCEPT ![l][k] = value]
  BY DEF OnlyChanges
<1>2. [c \in Calls |-> ReplyOf(c)]' = [c \in Calls |-> ReplyOf(c)]
  BY DEF SameReply
<1>3. CASE value = "unknown"
  <2>1. Cache!Forget(l, k)
    BY <1>1, <1>2, <1>3 DEF Cache!Forget, SameAsks
  <2>. QED
    BY <2>1 DEF Cache!CacheNext
<1>4. CASE value # "unknown"
  <2>1. Cache!SettleKey(l, k, value) /\ value \in Cache!Outcomes
    BY <1>1, <1>2, <1>4 DEF Cache!SettleKey, Cache!Outcomes, SameAsks
  <2>. QED
    BY <2>1 DEF Cache!CacheNext
<1>. QED
  BY <1>3, <1>4

\* A call is answered: nothing else changes, and the answer is one it may get.
LEMMA Answers ==
    ASSUME NEW c \in Calls, ReplyOf(c) = "none", SameCache, SameAsks,
           \A d \in Calls \ {c} : ReplyOf(d)' = ReplyOf(d),
           NEW r \in {"ok", "error", "hit", "miss", "panic"}, ReplyOf(c)' = r,
           \/ /\ job[c].op = "warm"
              /\ \/ r \in {"error", "panic"}
                 \/ r = "ok" /\ \A k \in job[c].keys : CacheOf(job[c].loader, k) \in Settled
           \/ /\ job[c].op = "get"
              /\ \/ r = "hit" /\ \A k \in job[c].keys : CacheOf(job[c].loader, k) = Found
                 \/ r = "miss" /\ owed[c] = {},
           job[c].loader \in Loaders, job[c].keys \subseteq Keys
    PROVE  Cache!CacheNext
<1>1. [l \in Loaders |-> [k \in Keys |-> CacheOf(l, k)]]'
        = [l \in Loaders |-> [k \in Keys |-> CacheOf(l, k)]]
  BY DEF SameCache
<1>2. [d \in Calls |-> ReplyOf(d)]' = [[d \in Calls |-> ReplyOf(d)] EXCEPT ![c] = r]
  OBVIOUS
<1>5. \A k \in job[c].keys :
        [l \in Loaders |-> [j \in Keys |-> CacheOf(l, j)]][job[c].loader][k]
            = CacheOf(job[c].loader, k)
  OBVIOUS
<1>6. [d \in Calls |-> ReplyOf(d)][c] = "none"
  OBVIOUS
<1>7. /\ r = "ok" /\ job[c].op = "warm" => Cache!Warmed(c)
      /\ r = "hit" /\ job[c].op = "get" => Cache!Hit(c)
  BY <1>5 DEF Cache!Warmed, Cache!Hit, Cache!Outcomes
<1>3. Cache!Reply(c, r)
  BY <1>1, <1>2, <1>6, <1>7 DEF Cache!Reply, SameAsks
<1>4. r \in Cache!Replies \ {"none"}
  BY DEF Cache!Replies
<1>. QED
  BY <1>3, <1>4 DEF Cache!CacheNext

-----------------------------------------------------------------------------
\* The maps read the cache: every state of Known has its state of a slot, and a
\* state object belongs to one loader.
LEMMA CacheStates ==
    ASSUME IInv, NEW l \in Loaders, NEW k \in Keys
    PROVE  /\ Known(l, k) \in {"none", "open", "found", "absent"}
           /\ Known(l, k) = "none" <=> CacheOf(l, k) = "unknown"
           /\ Known(l, k) = "open" <=> CacheOf(l, k) = "loading"
           /\ Known(l, k) = "found" <=> CacheOf(l, k) = "found"
           /\ Known(l, k) = "absent" <=> CacheOf(l, k) = "absent"
<1>1. Known(l, k) \in {"none", "open", "found", "absent"}
  <2>1. CASE slot[l] = None
    BY <2>1 DEF Known
  <2>2. CASE slot[l] # None
    <3>1. slot[l] \in Calls
      BY <2>2 DEF IInv, TypeOK
    <3>2. entries[slot[l]][k] # None => heap[entries[slot[l]][k]][k] \in Live
      BY <3>1 DEF IInv, MapMatchesHeap
    <3>. QED
      BY <2>2, <3>2 DEF Known, EntryOf
  <2>. QED
    BY <2>1, <2>2
<1>. QED
  BY <1>1 DEF CacheOf

LEMMA OwnMap ==
    ASSUME IInv, NEW l \in Loaders, NEW m \in Loaders, slot[l] \in Calls, slot[m] = slot[l]
    PROVE  m = l
  BY DEF IInv, OneStateObject

\* What the map holds for a key is the entry of the call that claimed it.
LEMMA KnownEntry ==
    ASSUME IInv, NEW c \in Calls, NEW k \in Keys, heap[c][k] \in Live
    PROVE  /\ obj[c] \in Calls /\ obj[c] = slot[job[c].loader] /\ job[c].loader \in Loaders
           /\ entries[obj[c]][k] = c
           /\ Known(job[c].loader, k) = heap[c][k]
<1>1. obj[c] \in Calls /\ entries[obj[c]][k] = c
  BY DEF IInv, MapMatchesHeap
<1>2. obj[c] = slot[job[c].loader] /\ job[c].loader \in Loaders
  BY <1>1 DEF IInv, OneStateObject, TypeOK, Jobs
<1>. QED
  BY <1>1, <1>2, ConstantsAssumption DEF Known, EntryOf

LEMMA SameMapSameCache ==
    ASSUME slot' = slot, entries' = entries, heap' = heap
    PROVE  SameCache
  BY DEF SameCache, CacheOf, Known, EntryOf

\* A call that stays on its way has no answer yet.
LEMMA NoAnswers ==
    ASSUME NEW c \in Calls, pc[c] \notin {"returned", "panicked"},
           pc'[c] \notin {"returned", "panicked"},
           \A d \in Calls \ {c} : pc'[d] = pc[d] /\ err'[d] = err[d] /\ hit'[d] = hit[d],
           job' = job
    PROVE  SameReply
  BY DEF SameReply, ReplyOf

-----------------------------------------------------------------------------
\* One lemma per action.
LEMMA StartWarmAsks ==
    ASSUME RInv, NEW c \in Calls, NEW l \in Loaders, NEW ks \in SUBSET Keys, StartWarm(c, l, ks)
    PROVE  Cache!CacheNext
<1> DEFINE a == [op |-> "warm", loader |-> l, keys |-> ks]
<1>1. SameCache
  BY SameMapSameCache DEF StartWarm
<1>2. a \in Cache!Asks /\ job[c].op = "none" /\ job' = [job EXCEPT ![c] = a]
  BY DEF StartWarm, Cache!Asks, RInv, AskedOnce
<1>3. {k \in ks : Known(l, k) = Found} = {k \in ks : CacheOf(l, k) = "found"}
  BY CacheStates DEF RInv
<1>4. owed' = [owed EXCEPT ![c] = {k \in a.keys : CacheOf(a.loader, k) = "found"}]
  BY <1>3 DEF StartWarm
<1>5. ReplyOf(c)' = Cache!Immediate(a)
  BY DEF StartWarm, ReplyOf, Cache!Immediate, RInv, IInv, TypeOK
<1>6. \A d \in Calls \ {c} : ReplyOf(d)' = ReplyOf(d)
  BY DEF StartWarm, ReplyOf, RInv, IInv, TypeOK
<1>7. [d \in Calls |-> ReplyOf(d)]'
        = [[d \in Calls |-> ReplyOf(d)] EXCEPT ![c] = Cache!Immediate(a)]
  BY <1>5, <1>6
<1>8. [m \in Loaders |-> [k \in Keys |-> CacheOf(m, k)]]'
        = [m \in Loaders |-> [k \in Keys |-> CacheOf(m, k)]]
  BY <1>1 DEF SameCache
<1>9. Cache!Ask(c, a)
  BY <1>2, <1>4, <1>7, <1>8 DEF Cache!Ask
<1>. QED
  BY <1>2, <1>9 DEF Cache!CacheNext

LEMMA StartGetAsks ==
    ASSUME RInv, NEW c \in Calls, NEW l \in Loaders, NEW k \in Keys, StartGet(c, l, k)
    PROVE  Cache!CacheNext
<1> DEFINE a == [op |-> "get", loader |-> l, keys |-> {k}]
<1>1. SameCache
  BY SameMapSameCache DEF StartGet
<1>2. a \in Cache!Asks /\ job[c].op = "none" /\ job' = [job EXCEPT ![c] = a]
  BY DEF StartGet, Cache!Asks, RInv, AskedOnce
<1>3. Known(l, k) = Found <=> CacheOf(l, k) = "found"
  BY CacheStates DEF RInv
<1>4. owed' = [owed EXCEPT ![c] = {j \in a.keys : CacheOf(a.loader, j) = "found"}]
  BY <1>3 DEF StartGet
<1>5. ReplyOf(c)' = Cache!Immediate(a)
  BY DEF StartGet, ReplyOf, Cache!Immediate, RInv, IInv, TypeOK, AskedOnce
<1>6. \A d \in Calls \ {c} : ReplyOf(d)' = ReplyOf(d)
  BY DEF StartGet, ReplyOf, RInv, IInv, TypeOK
<1>7. [d \in Calls |-> ReplyOf(d)]'
        = [[d \in Calls |-> ReplyOf(d)] EXCEPT ![c] = Cache!Immediate(a)]
  BY <1>5, <1>6
<1>8. [m \in Loaders |-> [j \in Keys |-> CacheOf(m, j)]]'
        = [m \in Loaders |-> [j \in Keys |-> CacheOf(m, j)]]
  BY <1>1 DEF SameCache
<1>9. Cache!Ask(c, a)
  BY <1>2, <1>4, <1>7, <1>8 DEF Cache!Ask
<1>. QED
  BY <1>2, <1>9 DEF Cache!CacheNext

\* The state object a call allocates is empty: nobody can have used it yet.
LEMMA PerRequestStutters ==
    ASSUME RInv, NEW c \in Calls, PerRequest(c)
    PROVE  UNCHANGED Cache!cacheVars
<1>0. /\ TypeOK /\ OneStateObject /\ MapMatchesHeap /\ entries' = entries /\ heap' = heap
      /\ job[c].loader \in Loaders
  BY DEF RInv, IInv, TypeOK, Jobs, PerRequest
<1>1. ASSUME NEW k \in Keys PROVE entries[c][k] = None
  <2>. SUFFICES ASSUME entries[c][k] # None PROVE FALSE
    OBVIOUS
  <2>1. entries[c][k] \in Calls /\ obj[entries[c][k]] = c
    BY <1>0 DEF TypeOK, MapMatchesHeap
  <2>2. PICK d \in Calls : obj[d] = c
    BY <2>1
  <2>3. slot[job[d].loader] = c /\ job[d].loader \in Loaders
    BY <1>0, <2>2 DEF OneStateObject, TypeOK, Jobs
  <2>. QED
    BY <1>0, <2>3 DEF OneStateObject, PerRequest
<1>2. ASSUME NEW m \in Loaders, NEW k \in Keys PROVE Known(m, k)' = Known(m, k)
  <2>1. CASE m = job[c].loader /\ slot[m] = None
    <3>1. slot'[m] = c
      BY <1>0, <2>1 DEF PerRequest, TypeOK
    <3>. QED
      BY <1>0, <1>1, <2>1, <3>1, ConstantsAssumption DEF Known, EntryOf
  <2>2. CASE ~(m = job[c].loader /\ slot[m] = None)
    <3>1. slot'[m] = slot[m]
      BY <1>0, <2>2 DEF PerRequest, TypeOK
    <3>. QED
      BY <1>0, <3>1 DEF Known, EntryOf
  <2>. QED
    BY <2>1, <2>2
<1>3. SameCache
  BY <1>2 DEF SameCache, CacheOf
<1>4. SameReply
  BY <1>0 DEF PerRequest, SameReply, ReplyOf, TypeOK
<1>. QED
  BY <1>3, <1>4, Stutters DEF PerRequest, SameAsks

\* A claim loads the keys the map has no entry for, and touches no other map.
LEMMA ClaimLoads ==
    ASSUME RInv, NEW c \in Calls, Claim(c)
    PROVE  Cache!CacheNext
<1>l. PICK l \in Loaders : l = job[c].loader
  BY DEF RInv, IInv, TypeOK, Jobs
<1>0. /\ TypeOK /\ OneStateObject /\ MapMatchesHeap /\ NothingClaimed /\ IInv
      /\ slot[l] \in Calls /\ slot[l] = obj[c]
      /\ slot' = slot /\ ToFetch(c) \in SUBSET Keys
  <2>1. IInv /\ slot' = slot /\ pc[c] = "lock"
    BY DEF RInv, Claim
  <2>2. obj[c] \in Calls /\ obj[c] = slot[job[c].loader]
    BY <2>1 DEF IInv, OneStateObject
  <2>3. ToFetch(c) \in SUBSET Keys
    BY <2>1 DEF IInv, TypeOK, Jobs, ToFetch
  <2>. QED
    BY <1>l, <2>1, <2>2, <2>3 DEF IInv
<1>1. ASSUME NEW k \in ToFetch(c) PROVE CacheOf(l, k) = "unknown"
  BY <1>0, ConstantsAssumption DEF ToFetch, CacheOf, Known, EntryOf
<1>2. ASSUME NEW k \in ToFetch(c) PROVE CacheOf(l, k)' = "loading"
  <2>1. entries'[slot[l]][k] = c /\ heap'[c][k] = "open"
    BY <1>0 DEF Claim, TypeOK
  <2>2. Known(l, k)' = "open"
    BY <1>0, <2>1, ConstantsAssumption DEF Known, EntryOf
  <2>. QED
    BY <2>2 DEF CacheOf
<1>3. ASSUME NEW m \in Loaders, NEW k \in Keys, ~(m = l /\ k \in ToFetch(c))
      PROVE  Known(m, k)' = Known(m, k)
  <2>1. CASE slot[m] = None
    BY <1>0, <2>1 DEF Known
  <2>2. CASE slot[m] # None
    <3>1. slot[m] \in Calls
      BY <1>0, <2>2 DEF TypeOK
    <3>2. slot[m] = obj[c] => m = l
      BY <1>0, <3>1, OwnMap
    <3>3. entries'[slot[m]][k] = entries[slot[m]][k]
      BY <1>0, <1>3, <3>1, <3>2 DEF Claim, TypeOK
    <3>4. entries[slot[m]][k] # None => entries[slot[m]][k] \in Calls \ {c}
      <4>1. heap[c][k] = "none"
        BY <1>0 DEF NothingClaimed, Claim
      <4>2. entries[slot[m]][k] \in Calls \cup {None}
        BY <1>0, <3>1 DEF TypeOK
      <4>3. entries[slot[m]][k] # None => heap[entries[slot[m]][k]][k] \in Live
        BY <1>0, <3>1 DEF MapMatchesHeap
      <4>. QED
        BY <4>1, <4>2, <4>3
    <3>5. \A d \in Calls \ {c} : heap'[d][k] = heap[d][k]
      BY <1>0 DEF Claim, TypeOK
    <3>. QED
      BY <1>0, <2>2, <3>3, <3>4, <3>5 DEF Known, EntryOf
  <2>. QED
    BY <2>1, <2>2
<1>4. OnlyChanges(l, ToFetch(c), "loading")
  <2>1. ASSUME NEW m \in Loaders, NEW k \in Keys, ~(m = l /\ k \in ToFetch(c))
        PROVE  CacheOf(m, k)' = CacheOf(m, k)
    BY <1>3, <2>1 DEF CacheOf
  <2>. QED
    BY <1>2, <2>1 DEF OnlyChanges
<1>5. SameReply
  BY <1>0 DEF Claim, SameReply, ReplyOf, TypeOK
<1>. QED
  BY <1>0, <1>1, <1>4, <1>5, Loads DEF Claim, SameAsks

\* Of all the cache, one settled entry is seen at its own loader and key only.
LEMMA OneEntry ==
    ASSUME IInv, NEW c \in Calls, NEW k \in Keys, heap[c][k] = "open", slot' = slot,
           \A s \in Calls, j \in Keys :
               ~(s = obj[c] /\ j = k) => entries'[s][j] = entries[s][j],
           \A d \in Calls, j \in Keys : ~(d = c /\ j = k) => heap'[d][j] = heap[d][j],
           NEW m \in Loaders, NEW j \in Keys, ~(m = job[c].loader /\ j = k)
    PROVE  CacheOf(m, j)' = CacheOf(m, j)
<1>1. obj[c] \in Calls /\ obj[c] = slot[job[c].loader] /\ job[c].loader \in Loaders
  BY KnownEntry
<1>2. CASE slot[m] = None
  BY <1>2 DEF CacheOf, Known
<1>3. CASE slot[m] # None
  <2>1. slot[m] \in Calls
    BY <1>3 DEF IInv, TypeOK
  <2>2. slot[m] = obj[c] => m = job[c].loader
    BY <1>1, <2>1, OwnMap
  <2>3. entries'[slot[m]][j] = entries[slot[m]][j]
    BY <2>1, <2>2
  <2>4. entries[slot[m]][j] # None =>
          /\ entries[slot[m]][j] \in Calls
          /\ ~(entries[slot[m]][j] = c /\ j = k)
    BY <2>1, <2>2 DEF IInv, TypeOK, MapMatchesHeap
  <2>5. Known(m, j)' = Known(m, j)
    BY <1>3, <2>3, <2>4 DEF Known, EntryOf
  <2>. QED
    BY <2>5 DEF CacheOf
<1>. QED
  BY <1>2, <1>3

LEMMA StoreKeySettles ==
    ASSUME RInv, NEW c \in Calls, NEW k \in Keys, StoreKey(c, k)
    PROVE  Cache!CacheNext
<1>l. PICK l \in Loaders : l = job[c].loader
  BY DEF RInv, IInv, TypeOK, Jobs
<1>v. PICK v \in {"found", "absent"} : v = IF k \in found[c] THEN "found" ELSE "absent"
  OBVIOUS
<1>0. /\ IInv /\ TypeOK /\ heap[c][k] = "open" /\ slot' = slot /\ entries' = entries
      /\ heap' = [heap EXCEPT ![c][k] = v]
  BY <1>v DEF RInv, IInv, OwnerPhase, StoreKey
<1>1. /\ obj[c] \in Calls /\ obj[c] = slot[l]
      /\ entries[obj[c]][k] = c /\ Known(l, k) = "open"
  BY <1>0, <1>l, KnownEntry
<1>2. CacheOf(l, k) = "loading"
  BY <1>1 DEF CacheOf
<1>3. heap'[c][k] = v /\ \A d \in Calls, j \in Keys : ~(d = c /\ j = k) => heap'[d][j] = heap[d][j]
  BY <1>0 DEF TypeOK
<1>4. Known(l, k)' = v
  BY <1>0, <1>1, <1>3, ConstantsAssumption DEF Known, EntryOf
<1>5. CacheOf(l, k)' = v
  BY <1>4 DEF CacheOf
<1>6. OnlyChanges(l, {k}, v)
  <2>1. ASSUME NEW m \in Loaders, NEW j \in Keys, ~(m = l /\ j = k)
        PROVE  CacheOf(m, j)' = CacheOf(m, j)
    BY <1>0, <1>3, <1>l, <2>1, OneEntry
  <2>. QED
    BY <1>5, <2>1 DEF OnlyChanges
<1>7. SameReply
  BY DEF StoreKey, SameReply, ReplyOf
<1>. QED
  BY <1>1, <1>2, <1>6, <1>7, Settles DEF StoreKey, SameAsks

LEMMA FailKeyForgets ==
    ASSUME RInv, NEW c \in Calls, NEW k \in Keys, FailKey(c, k)
    PROVE  Cache!CacheNext
<1>l. PICK l \in Loaders : l = job[c].loader
  BY DEF RInv, IInv, TypeOK, Jobs
<1>0. IInv /\ TypeOK /\ slot' = slot
  BY DEF RInv, IInv, FailKey
<1>1. /\ obj[c] \in Calls
      /\ heap[c][k] = "open"
      /\ entries' = [entries EXCEPT ![obj[c]][k] = None]
      /\ heap' = [heap EXCEPT ![c][k] = err[c]]
  BY <1>0, FailedEntry
<1>2. obj[c] = slot[l] /\ Known(l, k) = "open"
  BY <1>0, <1>1, <1>l, KnownEntry
<1>3. CacheOf(l, k) = "loading"
  BY <1>2 DEF CacheOf
<1>4. /\ entries'[obj[c]][k] = None
      /\ \A s \in Calls, j \in Keys :
             ~(s = obj[c] /\ j = k) => entries'[s][j] = entries[s][j]
      /\ \A d \in Calls, j \in Keys : ~(d = c /\ j = k) => heap'[d][j] = heap[d][j]
  BY <1>0, <1>1 DEF TypeOK
<1>5. Known(l, k)' = "none"
  BY <1>0, <1>2, <1>4 DEF Known, EntryOf
<1>6. CacheOf(l, k)' = "unknown"
  BY <1>5 DEF CacheOf
<1>7. OnlyChanges(l, {k}, "unknown")
  <2>1. ASSUME NEW m \in Loaders, NEW j \in Keys, ~(m = l /\ j = k)
        PROVE  CacheOf(m, j)' = CacheOf(m, j)
    BY <1>0, <1>1, <1>4, <1>l, <2>1, OneEntry
  <2>. QED
    BY <1>6, <2>1 DEF OnlyChanges
<1>8. SameReply
  BY DEF FailKey, SameReply, ReplyOf
<1>. QED
  BY <1>2, <1>3, <1>7, <1>8, Settles DEF FailKey, SameAsks

\* A panicked fetch ends the call; any other settling goes on to the waits.
LEMMA UnlockAnswers ==
    ASSUME RInv, NEW c \in Calls, Unlock(c)
    PROVE  Cache!CacheNext \/ UNCHANGED Cache!cacheVars
<1>0. /\ TypeOK /\ IInv /\ SameCache /\ SameAsks /\ pc[c] \in {"store", "fail"}
      /\ job[c].op = "warm" /\ job[c].loader \in Loaders /\ job[c].keys \subseteq Keys
  BY SameMapSameCache DEF RInv, IInv, TypeOK, Jobs, Unlock, OwnerPhase, SameAsks
<1>1. CASE err[c] = "errFetchPanicked"
  <2>1. ReplyOf(c) = "none" /\ ReplyOf(c)' = "panic"
    BY <1>0, <1>1 DEF Unlock, ReplyOf, TypeOK
  <2>2. \A d \in Calls \ {c} : ReplyOf(d)' = ReplyOf(d)
    BY <1>0 DEF Unlock, ReplyOf, TypeOK
  <2>. QED
    BY <1>0, <2>1, <2>2, Answers
<1>2. CASE err[c] # "errFetchPanicked"
  <2>1. SameReply
    BY <1>0, <1>2 DEF Unlock, SameReply, ReplyOf, TypeOK
  <2>. QED
    BY <1>0, <2>1, Stutters
<1>. QED
  BY <1>1, <1>2

\* A Get that finds no entry misses: had it been owed the key, it would have
\* found one.
LEMMA LookupAnswers ==
    ASSUME RInv, NEW c \in Calls, NEW k \in Keys, Lookup(c, k)
    PROVE  Cache!CacheNext \/ UNCHANGED Cache!cacheVars
<1>0. /\ TypeOK /\ IInv /\ SameCache /\ SameAsks /\ pc[c] = "lock" /\ ~hit[c]
      /\ job[c].op = "get" /\ job[c].loader \in Loaders /\ job[c].keys \subseteq Keys
  BY SameMapSameCache DEF RInv, AskedOnce, IInv, TypeOK, Jobs, Lookup, SameAsks
<1>1. CASE entries[obj[c]][k] = None
  <2>1. ReplyOf(c) = "none" /\ ReplyOf(c)' = "miss"
    BY <1>0, <1>1 DEF Lookup, ReplyOf, TypeOK
  <2>2. \A d \in Calls \ {c} : ReplyOf(d)' = ReplyOf(d)
    BY <1>0, <1>1 DEF Lookup, ReplyOf, TypeOK
  <2>3. Known(job[c].loader, k) = "none"
    BY <1>0, <1>1 DEF Known, EntryOf, IInv, OneStateObject
  <2>4. owed[c] = {}
    BY <1>0, <2>3 DEF IInv, OwedIsFound, Lookup
  <2>. QED
    BY <1>0, <2>1, <2>2, <2>4, Answers
<1>2. CASE entries[obj[c]][k] # None
  <2>1. SameReply
    BY <1>0, <1>2 DEF Lookup, SameReply, ReplyOf, TypeOK
  <2>. QED
    BY <1>0, <2>1, Stutters
<1>. QED
  BY <1>1, <1>2

\* A Warm that returns nil has its keys settled: those it fetched, those it
\* found and those it waited for.
LEMMA WarmReturnsAnswers ==
    ASSUME RInv, NEW c \in Calls, WarmReturns(c)
    PROVE  Cache!CacheNext
<1>0. /\ TypeOK /\ IInv /\ SameCache /\ SameAsks /\ pc[c] = "wait" /\ pending[c] = {}
      /\ job[c].op = "warm" /\ job[c].loader \in Loaders /\ job[c].keys \subseteq Keys
  BY SameMapSameCache DEF RInv, IInv, TypeOK, Jobs, WarmReturns, SameAsks
<1>1. ReplyOf(c) = "none" /\ ReplyOf(c)' = IF err[c] = NoErr THEN "ok" ELSE "error"
  BY <1>0 DEF WarmReturns, ReplyOf, TypeOK
<1>2. \A d \in Calls \ {c} : ReplyOf(d)' = ReplyOf(d)
  BY <1>0 DEF WarmReturns, ReplyOf, TypeOK
<1>3. ASSUME err[c] = NoErr, NEW k \in job[c].keys
      PROVE  CacheOf(job[c].loader, k) \in Settled
  <2>1. k \in Keys /\ obj[c] \in Calls /\ obj[c] = slot[job[c].loader]
    BY <1>0 DEF IInv, OneStateObject
  <2>2. k \in mine[c] \/ EntryOf(obj[c], k) \in Settled
    BY <1>0, <1>3 DEF IInv, KeysCovered
  <2>3. ASSUME k \in mine[c] PROVE heap[c][k] \in Settled
    <3>1. heap[c][k] \in EntryStates
      BY <2>1 DEF RInv, IInv, TypeOK
    <3>2. heap[c][k] \notin {"none", "open"} \cup Failed
      BY <1>0, <1>3, <2>1, <2>3 DEF IInv, OwnerPhase
    <3>. QED
      BY <3>1, <3>2
  <2>4. EntryOf(obj[c], k) \in Settled
    BY <1>0, <2>1, <2>2, <2>3, ConstantsAssumption DEF EntryOf, IInv, MapMatchesHeap
  <2>5. Known(job[c].loader, k) \in Settled
    BY <2>1, <2>4, ConstantsAssumption DEF Known
  <2>. QED
    BY <2>5 DEF CacheOf
<1>. QED
  BY <1>0, <1>1, <1>2, <1>3, Answers

\* A Get hits the found entry of its key, and misses no key it was owed.
LEMMA GetReturnsAnswers ==
    ASSUME RInv, NEW c \in Calls, NEW p \in pending[c], GetReturns(c, p)
    PROVE  Cache!CacheNext
<1>0. /\ TypeOK /\ IInv /\ SameCache /\ SameAsks /\ pc[c] = "wait"
      /\ job[c].op = "get" /\ job[c].loader \in Loaders /\ job[c].keys \subseteq Keys
  BY SameMapSameCache DEF RInv, IInv, TypeOK, Jobs, GetReturns, SameAsks
<1>1. /\ ReplyOf(c) = "none"
      /\ ReplyOf(c)' = IF heap[p[2]][p[1]] = Found THEN "hit" ELSE "miss"
  BY <1>0 DEF GetReturns, ReplyOf, TypeOK
<1>2. \A d \in Calls \ {c} : ReplyOf(d)' = ReplyOf(d)
  BY <1>0 DEF GetReturns, ReplyOf, TypeOK
<1>3. \A k \in job[c].keys : k = p[1]
  BY <1>0 DEF RInv, AskedOnce, IInv, OwedIsFound
<1>4. ASSUME heap[p[2]][p[1]] = Found PROVE CacheOf(job[c].loader, p[1]) = Found
  <2>1. p[1] \in Keys /\ p[2] \in Calls
    BY <1>0 DEF TypeOK
  <2>2. PICK d \in Calls, k \in Keys : d = p[2] /\ k = p[1]
    BY <2>1
  <2>3. heap[d][k] = Found /\ obj[d] = obj[c]
    BY <1>0, <1>4, <2>2 DEF IInv, PendingEntries
  <2>4. /\ obj[d] \in Calls /\ obj[d] = slot[job[d].loader] /\ job[d].loader \in Loaders
        /\ Known(job[d].loader, k) = Found
    BY <1>0, <2>3, KnownEntry
  <2>5. slot[job[c].loader] = obj[c]
    BY <1>0 DEF IInv, OneStateObject
  <2>6. job[d].loader = job[c].loader
    BY <1>0, <2>3, <2>4, <2>5, OwnMap
  <2>7. Known(job[c].loader, p[1]) = Found
    BY <2>2, <2>4, <2>6
  <2>. QED
    BY <2>7 DEF CacheOf
<1>5. heap[p[2]][p[1]] # Found => owed[c] = {}
  BY <1>0 DEF IInv, OwedIsFound
<1>. QED
  BY <1>0, <1>1, <1>2, <1>3, <1>4, <1>5, Answers

\* A fetch that comes back only takes the mutex; a wait that ends answers nobody.
LEMMA QuietSteps ==
    ASSUME RInv, NEW c \in Calls,
           \/ \E vals \in SUBSET mine[c] : FetchSucceeds(c, vals)
           \/ \E e \in Failed : FetchFails(c, e)
           \/ \E p \in pending[c] : AwaitEntry(c, p)
    PROVE  UNCHANGED Cache!cacheVars
<1>0. TypeOK /\ SameCache /\ SameAsks
  BY SameMapSameCache DEF RInv, IInv, FetchSucceeds, FetchFails, AwaitEntry, SameAsks
<1>1. pc[c] \notin {"returned", "panicked"} /\ pc'[c] \notin {"returned", "panicked"}
  BY <1>0 DEF FetchSucceeds, FetchFails, AwaitEntry, TypeOK
<1>2. /\ \A d \in Calls \ {c} : pc'[d] = pc[d] /\ err'[d] = err[d] /\ hit'[d] = hit[d]
      /\ job' = job
  BY <1>0 DEF FetchSucceeds, FetchFails, AwaitEntry, TypeOK
<1>3. SameReply
  BY <1>1, <1>2, NoAnswers
<1>. QED
  BY <1>0, <1>3, Stutters

\* Every step of the loader is a step of the request cache or a stutter.
LEMMA StepImplements ==
    ASSUME RInv, [Next]_vars
    PROVE  [Cache!CacheNext]_(Cache!cacheVars)
<1>1. CASE UNCHANGED vars
  <2>1. SameCache /\ SameAsks /\ SameReply
    BY <1>1, SameMapSameCache DEF vars, SameAsks, SameReply, ReplyOf
  <2>. QED
    BY <2>1, Stutters
<1>2. ASSUME NEW c \in Calls, Start(c) PROVE Cache!CacheNext
  BY <1>2, StartWarmAsks, StartGetAsks DEF Start
<1>3. ASSUME NEW c \in Calls, Proceed(c) PROVE Cache!CacheNext \/ UNCHANGED Cache!cacheVars
  <2>1. CASE PerRequest(c) \/ Claim(c) \/ \E k \in Keys : Lookup(c, k)
    BY <2>1, PerRequestStutters, ClaimLoads, LookupAnswers
  <2>2. CASE Fetch(c)
    BY <2>2, QuietSteps DEF Fetch
  <2>3. CASE Settle(c)
    BY <2>3, StoreKeySettles, FailKeyForgets, UnlockAnswers DEF Settle
  <2>4. CASE Await(c)
    BY <2>4, QuietSteps, GetReturnsAnswers, WarmReturnsAnswers DEF Await
  <2>. QED
    BY <1>3, <2>1, <2>2, <2>3, <2>4 DEF Proceed
<1>. QED
  BY <1>1, <1>2, <1>3 DEF Next, Rest

-----------------------------------------------------------------------------
\* AskedOnce holds from the start and is kept by every step.
LEMMA InitAsked == Init => RInv
<1>1. Init => AskedOnce
  BY DEF Init, AskedOnce, NoJob
<1>. QED
  BY <1>1, InitHolds DEF RInv

LEMMA AskedKept ==
    ASSUME RInv, [Next]_vars
    PROVE  AskedOnce'
<1>0. TypeOK /\ NothingClaimed /\ AskedOnce
  BY DEF RInv, IInv
<1>1. CASE UNCHANGED vars
  BY <1>0, <1>1 DEF vars, AskedOnce
<1>2. ASSUME NEW c \in Calls, Start(c) PROVE AskedOnce'
  <2>1. ASSUME NEW l \in Loaders, NEW ks \in SUBSET Keys, StartWarm(c, l, ks) PROVE AskedOnce'
    BY <1>0, <2>1 DEF StartWarm, AskedOnce, NothingClaimed, TypeOK
  <2>2. ASSUME NEW l \in Loaders, NEW k \in Keys, StartGet(c, l, k) PROVE AskedOnce'
    BY <1>0, <2>2 DEF StartGet, AskedOnce, NothingClaimed, TypeOK
  <2>. QED
    BY <1>2, <2>1, <2>2 DEF Start
<1>3. ASSUME NEW c \in Calls, Proceed(c) PROVE AskedOnce'
  <2>1. CASE PerRequest(c)
    BY <1>0, <2>1 DEF PerRequest, AskedOnce, TypeOK
  <2>2. CASE Claim(c)
    <3>1. \A p \in pending'[c] : p[1] \in job[c].keys
      BY <1>0, <2>2 DEF Claim, ToAwait, TypeOK
    <3>. QED
      BY <1>0, <2>2, <3>1 DEF Claim, AskedOnce, TypeOK
  <2>3. ASSUME NEW k \in Keys, Lookup(c, k) PROVE AskedOnce'
    <3>1. \A p \in pending'[c] : p[1] \in job[c].keys
      BY <1>0, <2>3 DEF Lookup, AskedOnce, TypeOK
    <3>. QED
      BY <1>0, <2>3, <3>1 DEF Lookup, AskedOnce, TypeOK
  <2>4. CASE Fetch(c)
    BY <1>0, <2>4 DEF Fetch, FetchSucceeds, FetchFails, AskedOnce, TypeOK
  <2>5. CASE Settle(c)
    BY <1>0, <2>5 DEF Settle, StoreKey, FailKey, Unlock, AskedOnce, TypeOK
  <2>6. ASSUME NEW p \in pending[c], AwaitEntry(c, p) PROVE AskedOnce'
    BY <1>0, <2>6 DEF AwaitEntry, AskedOnce, TypeOK
  <2>7. ASSUME NEW p \in pending[c], GetReturns(c, p) PROVE AskedOnce'
    BY <1>0, <2>7 DEF GetReturns, AskedOnce, TypeOK
  <2>8. CASE WarmReturns(c)
    BY <1>0, <2>8 DEF WarmReturns, AskedOnce, TypeOK
  <2>. QED
    BY <1>3, <2>1, <2>2, <2>3, <2>4, <2>5, <2>6, <2>7, <2>8 DEF Proceed, Await
<1>. QED
  BY <1>1, <1>2, <1>3 DEF Next, Rest

\* Nothing is cached, asked or answered before the first call.
LEMMA InitImplements == Init => Cache!CacheInit
<1>. SUFFICES ASSUME Init PROVE Cache!CacheInit
  OBVIOUS
<1>1. \A l \in Loaders, k \in Keys : CacheOf(l, k) = "unknown"
  BY DEF Init, CacheOf, Known
<1>2. \A c \in Calls : ReplyOf(c) = "none"
  BY DEF Init, ReplyOf
<1>3. NoJob \in {a \in Cache!Asks : a.op = "none"}
  BY ConstantsAssumption DEF NoJob, Cache!Asks
<1>4. job \in [Calls -> {a \in Cache!Asks : a.op = "none"}]
  BY <1>3 DEF Init
<1>. QED
  BY <1>1, <1>2, <1>4 DEF Init, Cache!CacheInit

\* The loader implements the request cache, for any calls, loaders, keys and
\* nesting: what its locks, entries and channels do is what the cache promises.
THEOREM LoaderIsRequestCache == Spec => ImplementsRequestCache
<1>1. Init => RInv /\ Cache!CacheInit
  BY InitAsked, InitImplements
<1>2. RInv /\ [Next]_vars => RInv'
  BY AskedKept, NextStep DEF RInv
<1>3. RInv /\ [Next]_vars => [Cache!CacheNext]_(Cache!cacheVars)
  BY StepImplements
<1>. QED
  BY <1>1, <1>2, <1>3, PTL DEF Spec, ImplementsRequestCache, Cache!CacheSpec

=============================================================================
