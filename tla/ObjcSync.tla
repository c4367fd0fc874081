-------------------------------- MODULE ObjcSync --------------------------------
(***************************************************************************)
(* @synchronized: objc_sync_enter, objc_sync_try_enter and objc_sync_exit  *)
(* of objc-sync.mm, for objects whose locks share one SyncList.            *)
(*                                                                         *)
(* A SyncData is never freed; one that no thread uses is given to another  *)
(* object.  What a call does to the caches of its own thread is not        *)
(* visible to others, so the lookup in them belongs to the step that       *)
(* begins the call; the list is walked one SyncData at a time, while       *)
(* threads that leave decrement threadCount without the spinlock.          *)
(***************************************************************************)
EXTENDS Integers, Sequences, FiniteSets

CONSTANTS Thread,        \* the threads of the process
          Object,        \* the objects locked
          Nobody,        \* no thread
          LockOrder,     \* <<o, p>>: a thread inside o may go on to enter p
          Misuse,        \* which of "try_enter", "wrong_exit" the program calls
          InitialSlots,  \* SyncCache.allocated at first: 4
          MaxCount       \* bound on lockCount, and on threadCount at a misuse

ASSUME NobodyNotThread == Nobody \notin Thread
ASSUME ThreadAssumption == IsFiniteSet(Thread)
ASSUME LockOrderAssumption == LockOrder \subseteq Object \X Object
ASSUME SlotsAssumption == InitialSlots \in Nat \ {0} /\ MaxCount \in Nat \ {0}

VARIABLES
  list,       \* the SyncData, in the order of allocation; the head is the last
  spinlock,   \* the thread that holds SyncList.lock, or Nobody
  fast,       \* per thread: the fast cache, one SyncCacheItem
  cache,      \* per thread: SyncCache.list, the first SyncCache.used items
  allocated,  \* per thread: SyncCache.allocated, 0 when there is no cache
  pc,         \* per thread: the next step
  call,       \* per thread: the call under way, "enter", "try_enter" or "exit"
  object,     \* per thread: its argument
  p,          \* per thread: the SyncData the walk is at, 0 for NULL
  unused,     \* per thread: firstUnused, 0 for NULL
  data,       \* per thread: the SyncData id2data returned
  inside      \* inside[t][o]: the enters of o that t has not yet left

caches == <<fast, cache, allocated>>
local  == <<pc, call, object, p, unused, data>>
vars   == <<list, spinlock, caches, local, inside>>

NULL   == 0
NoItem == [data |-> NULL, lockCount |-> 0]

\* The mutex is recursive: its owner, and how often it has locked it.
SyncData ==
  [object : Object, threadCount : Nat, owner : Thread \cup {Nobody}, depth : Nat]

SyncCacheItem == [data : DOMAIN list, lockCount : Nat]

NewSyncData(o) == [object |-> o, threadCount |-> 1, owner |-> Nobody, depth |-> 0]

Items(t) ==
  {cache[t][i] : i \in DOMAIN cache[t]} \cup (IF fast[t] = NoItem THEN {} ELSE {fast[t]})

For(item, o) == list[item.data].object = o

Goto(t, l) == pc' = [pc EXCEPT ![t] = l]

--------------------------------------------------------------------------------
(* id2data: the caches of the thread *)

\* Mutant: a recursive enter is not counted.
LockCountAfterFlat(t, item) ==
  IF call'[t] = "exit" THEN item.lockCount - 1 ELSE item.lockCount

LockCountAfter(t, item) ==
  IF call'[t] = "exit" THEN item.lockCount - 1 ELSE item.lockCount + 1

\* OSAtomicDecrement32Barrier: the thread no longer uses the lock.
Leave(item, n) ==
  list' = IF n = 0 THEN [list EXCEPT ![item.data].threadCount = @ - 1] ELSE list

\* The item that lookup finds is used: acquired once more, or released.
Use(t, item) ==
  /\ Leave(item, LockCountAfter(t, item))
  /\ data' = [data EXCEPT ![t] = item.data]
  /\ Goto(t, CASE call'[t] = "enter"     -> "lock"
               [] call'[t] = "try_enter" -> "trylock"
               [] call'[t] = "exit"      -> "unlock")

\* Mutant: the fast cache keeps an item that counts no lock.
LookupFastKeeps(t) ==
  LET n == LockCountAfter(t, fast[t]) IN
  /\ Use(t, fast[t])
  /\ fast' = [fast EXCEPT ![t].lockCount = n]
  /\ UNCHANGED <<cache, allocated>>

LookupFast(t) ==
  LET n == LockCountAfter(t, fast[t]) IN
  /\ Use(t, fast[t])
  /\ fast' = [fast EXCEPT ![t] = IF n = 0 THEN NoItem ELSE [@ EXCEPT !.lockCount = n]]
  /\ UNCHANGED <<cache, allocated>>

\* Mutant: the cache does not grow.
FetchCacheFull(t) == UNCHANGED allocated

\* fetch_cache(NO): one slot of an existing cache is kept open.
FetchCache(t) ==
  allocated' = [allocated EXCEPT ![t] =
                  IF @ = Len(cache[t]) THEN 2 * @ ELSE @]

\* list[i] = list[--used]
Remove(s, i) == SubSeq([s EXCEPT ![i] = s[Len(s)]], 1, Len(s) - 1)

LookupCache(t, i) ==
  LET n == LockCountAfter(t, cache[t][i]) IN
  /\ Use(t, cache[t][i])
  /\ cache' = [cache EXCEPT ![t] = IF n = 0 THEN Remove(@, i)
                                   ELSE [@ EXCEPT ![i].lockCount = n]]
  /\ UNCHANGED fast

Begin(t, o, c) ==
  /\ call' = [call EXCEPT ![t] = c]
  /\ object' = [object EXCEPT ![t] = o]
  /\ IF fast[t] # NoItem /\ For(fast[t], o) THEN
       LookupFast(t)
     ELSE
       /\ FetchCache(t)
       /\ \/ \E i \in DOMAIN cache[t] :
               /\ For(cache[t][i], o)
               /\ \A j \in 1 .. i - 1 : ~For(cache[t][j], o)
               /\ LookupCache(t, i)
          \/ /\ \A i \in DOMAIN cache[t] : ~For(cache[t][i], o)
             /\ Goto(t, "spin")
             /\ UNCHANGED <<list, fast, cache, data>>
  /\ UNCHANGED <<spinlock, p, unused, inside>>

--------------------------------------------------------------------------------
(* The calls a program makes *)

\* The bounds on lockCount and threadCount.
Room(t, o) == \A item \in Items(t) : For(item, o) => item.lockCount < MaxCount

Countable == \A d \in DOMAIN list : list[d].threadCount < MaxCount

Enter(t, o) ==
  /\ pc[t] = "idle" /\ Room(t, o)
  /\ \A q \in Object : inside[t][q] > 0 => <<q, o>> \in LockOrder
  /\ Begin(t, o, "enter")

TryEnter(t, o) ==
  /\ "try_enter" \in Misuse
  /\ pc[t] = "idle" /\ Room(t, o) /\ Countable
  /\ Begin(t, o, "try_enter")

Exit(t, o) ==
  /\ pc[t] = "idle" /\ inside[t][o] > 0
  /\ Begin(t, o, "exit")

\* objc_sync_exit by a thread that is not inside.
WrongExit(t, o) ==
  /\ "wrong_exit" \in Misuse
  /\ pc[t] = "idle" /\ inside[t][o] = 0
  /\ Countable
  /\ Begin(t, o, "exit")

\* The thread ends, outside every lock, and another takes its place:
\* _destroySyncCache.
ThreadExit(t) ==
  /\ pc[t] = "idle" /\ (fast[t] # NoItem \/ allocated[t] # 0)
  /\ \A o \in Object : inside[t][o] = 0
  /\ fast' = [fast EXCEPT ![t] = NoItem]
  /\ cache' = [cache EXCEPT ![t] = <<>>]
  /\ allocated' = [allocated EXCEPT ![t] = 0]
  /\ UNCHANGED <<list, spinlock, local, inside>>

--------------------------------------------------------------------------------
(* id2data: the list of locks in use *)

\* Mutant: the list is walked without the spinlock.
TakeSpinlockAnyway(t) ==
  /\ pc[t] = "spin"
  /\ spinlock' = t
  /\ p' = [p EXCEPT ![t] = Len(list)]
  /\ unused' = [unused EXCEPT ![t] = NULL]
  /\ Goto(t, "walk")
  /\ UNCHANGED <<list, caches, call, object, data, inside>>

TakeSpinlock(t) ==
  /\ pc[t] = "spin" /\ spinlock = Nobody
  /\ spinlock' = t
  /\ p' = [p EXCEPT ![t] = Len(list)]
  /\ unused' = [unused EXCEPT ![t] = NULL]
  /\ Goto(t, "walk")
  /\ UNCHANGED <<list, caches, call, object, data, inside>>

Walk(t) ==
  /\ pc[t] = "walk" /\ p[t] # NULL /\ list[p[t]].object # object[t]
  /\ unused' = [unused EXCEPT ![t] =
                  IF @ = NULL /\ list[p[t]].threadCount = 0 THEN p[t] ELSE @]
  /\ p' = [p EXCEPT ![t] = @ - 1]
  /\ UNCHANGED <<list, spinlock, caches, pc, call, object, data, inside>>

\* The new item goes to the fast cache, or to the cache, made if need be.
Save(t, d) ==
  LET item == [data |-> d, lockCount |-> 1] IN
  /\ IF fast[t] = NoItem THEN
       /\ fast' = [fast EXCEPT ![t] = item]
       /\ UNCHANGED <<cache, allocated>>
     ELSE
       /\ cache' = [cache EXCEPT ![t] = Append(@, item)]
       /\ allocated' = [allocated EXCEPT ![t] = IF @ = 0 THEN InitialSlots ELSE @]
       /\ UNCHANGED fast
  /\ data' = [data EXCEPT ![t] = d]
  /\ Goto(t, IF call[t] = "enter" THEN "lock" ELSE "trylock")

\* A thread that exits without an item of its own is not inside: nil.
NotOwning(t) == Goto(t, "idle") /\ UNCHANGED <<caches, data>>

\* Mutant: a thread that finds the lock of its object is not counted.
FoundUncounted(t) ==
  /\ pc[t] = "walk" /\ p[t] # NULL /\ list[p[t]].object = object[t]
  /\ spinlock' = Nobody
  /\ IF call[t] = "exit" THEN NotOwning(t) ELSE Save(t, p[t])
  /\ UNCHANGED <<list, call, object, p, unused, inside>>

Found(t) ==
  /\ pc[t] = "walk" /\ p[t] # NULL /\ list[p[t]].object = object[t]
  /\ list' = [list EXCEPT ![p[t]].threadCount = @ + 1]
  /\ spinlock' = Nobody
  /\ IF call[t] = "exit" THEN NotOwning(t) ELSE Save(t, p[t])
  /\ UNCHANGED <<call, object, p, unused, inside>>

\* Mutant: the SyncData reused keeps the object it was made for.
ReuseAs(t) == [list EXCEPT ![unused[t]].threadCount = 1]

\* Mutant: the SyncData reused is not marked as used.
ReuseUncounted(t) == [list EXCEPT ![unused[t]].object = object[t]]

Reuse(t) ==
  [list EXCEPT ![unused[t]].object = object[t], ![unused[t]].threadCount = 1]

\* Mutant: the spinlock is kept when there is no SyncData to use.
NotFoundKeepsSpinlock(t) ==
  /\ pc[t] = "walk" /\ p[t] = NULL /\ call[t] # "exit"
  /\ IF unused[t] # NULL THEN
       list' = Reuse(t) /\ Save(t, unused[t]) /\ spinlock' = Nobody
     ELSE
       /\ list' = Append(list, NewSyncData(object[t])) /\ Save(t, Len(list) + 1)
       /\ UNCHANGED spinlock
  /\ UNCHANGED <<call, object, p, unused, inside>>

NotFound(t) ==
  /\ pc[t] = "walk" /\ p[t] = NULL
  /\ spinlock' = Nobody
  /\ IF call[t] = "exit" THEN
       NotOwning(t) /\ UNCHANGED list
     ELSE IF unused[t] # NULL THEN
       list' = Reuse(t) /\ Save(t, unused[t])
     ELSE
       list' = Append(list, NewSyncData(object[t])) /\ Save(t, Len(list) + 1)
  /\ UNCHANGED <<call, object, p, unused, inside>>

--------------------------------------------------------------------------------
(* The mutex of the SyncData *)

Free(t) == list[data[t]].owner \in {Nobody, t}

Acquire(t) ==
  /\ list' = [list EXCEPT ![data[t]].owner = t, ![data[t]].depth = @ + 1]
  /\ inside' = [inside EXCEPT ![t][object[t]] = @ + 1]

MutexLock(t) ==
  /\ pc[t] = "lock" /\ Free(t)
  /\ Acquire(t)
  /\ Goto(t, "idle")
  /\ UNCHANGED <<spinlock, caches, call, object, p, unused, data>>

MutexTryLock(t) ==
  /\ pc[t] = "trylock"
  /\ IF Free(t) THEN Acquire(t) ELSE UNCHANGED <<list, inside>>
  /\ Goto(t, "idle")
  /\ UNCHANGED <<spinlock, caches, call, object, p, unused, data>>

MutexTryUnlock(t) ==
  /\ pc[t] = "unlock"
  /\ IF list[data[t]].owner = t THEN
       /\ list' = [list EXCEPT ![data[t]].owner = IF list[data[t]].depth = 1 THEN Nobody ELSE t,
                               ![data[t]].depth = @ - 1]
       /\ inside' = [inside EXCEPT ![t][object[t]] = @ - 1]
     ELSE UNCHANGED <<list, inside>>
  /\ Goto(t, "idle")
  /\ UNCHANGED <<spinlock, caches, call, object, p, unused, data>>

--------------------------------------------------------------------------------
Init ==
  /\ list = <<>> /\ spinlock = Nobody
  /\ fast = [t \in Thread |-> NoItem]
  /\ cache = [t \in Thread |-> <<>>]
  /\ allocated = [t \in Thread |-> 0]
  /\ pc = [t \in Thread |-> "idle"]
  /\ call = [t \in Thread |-> "enter"]
  /\ object \in [Thread -> Object]
  /\ p = [t \in Thread |-> NULL]
  /\ unused = [t \in Thread |-> NULL]
  /\ data = [t \in Thread |-> NULL]
  /\ inside = [t \in Thread |-> [o \in Object |-> 0]]

Run(t) ==
  \/ TakeSpinlock(t) \/ Walk(t) \/ Found(t) \/ NotFound(t)
  \/ MutexLock(t) \/ MutexTryLock(t) \/ MutexTryUnlock(t)

Next ==
  \E t \in Thread :
    \/ \E o \in Object : Enter(t, o) \/ TryEnter(t, o) \/ Exit(t, o) \/ WrongExit(t, o)
    \/ ThreadExit(t)
    \/ Run(t)

Spec == Init /\ [][Next]_vars

--------------------------------------------------------------------------------
(* Properties *)

\* fetch_cache: SyncCache.list is not written beyond what is allocated.
CacheHasRoom == \A t \in Thread : Len(cache[t]) <= allocated[t]

\* Every variable has its type: threadCount is never negative, and the cache of a
\* thread has room for what is in it (fetch_cache).
TypeOK ==
  /\ list \in Seq(SyncData) /\ spinlock \in Thread \cup {Nobody}
  /\ fast \in [Thread -> SyncCacheItem \cup {NoItem}]
  /\ cache \in [Thread -> Seq(SyncCacheItem)] /\ allocated \in [Thread -> Nat]
  /\ pc \in [Thread -> {"idle", "spin", "walk", "lock", "trylock", "unlock"}]
  /\ call \in [Thread -> {"enter", "try_enter", "exit"}]
  /\ object \in [Thread -> Object]
  /\ p \in [Thread -> {NULL} \cup DOMAIN list]
  /\ unused \in [Thread -> {NULL} \cup DOMAIN list]
  /\ data \in [Thread -> {NULL} \cup DOMAIN list]
  /\ inside \in [Thread -> [Object -> Nat]]
  /\ CacheHasRoom

\* A thread that calls the exit of its last enter has left the object.
Leaving(t, o) == pc[t] = "unlock" /\ object[t] = o /\ inside[t][o] = 1

Holds(t, o) == inside[t][o] > 0 /\ ~Leaving(t, o)

\* objc_sync_enter: @synchronized(o) keeps all other threads out of o, although
\* a SyncData passes from one object to another while threads come and go.
MutualExclusion ==
  \A o \in Object, t, u \in Thread : Holds(t, o) /\ Holds(u, o) => t = u

\* id2data: "Spinlock prevents multiple threads from creating multiple locks
\* for the same new object".
OneLockPerObject ==
  \A d, e \in DOMAIN list : list[d].object = list[e].object => d = e

\* There is one SyncData for an object.  While a thread is inside o, that of o is in
\* use, stays with o and is locked by it as often as it has entered.
LockKept ==
  /\ OneLockPerObject
  /\ \A t \in Thread, o \in Object : Holds(t, o) =>
       \E d \in DOMAIN list :
         /\ list[d].object = o /\ list[d].threadCount > 0
         /\ list[d].owner = t /\ list[d].depth = inside[t][o]

\* id2data's _objc_fatal "fastcache is buggy" and "cache is buggy" are not reached:
\* what a thread has cached is in use and locked.
NotBuggy ==
  \A t \in Thread : \A item \in Items(t) :
    list[item.data].threadCount > 0 /\ item.lockCount > 0

\* A thread that waits for the mutex of a SyncData waits for the object it
\* asked for: the SyncData is not given to another object meanwhile.
WaitsForItsObject ==
  \A t \in Thread : pc[t] \in {"lock", "trylock"} => list[data[t]].object = object[t]

\* objc_sync_exit answers OBJC_SYNC_NOT_OWNING_THREAD_ERROR exactly when the
\* thread is not inside: the caches know every lock it has.
ExitReportsOwnership ==
  \A t \in Thread :
    /\ pc[t] \in {"spin", "walk"} /\ call[t] = "exit" => inside[t][object[t]] = 0
    /\ pc[t] = "unlock" => (list[data[t]].owner = t <=> inside[t][object[t]] > 0)

\* SyncData.threadCount: "number of THREADS using this block".
ThreadCountExact ==
  \A d \in DOMAIN list :
    list[d].threadCount =
      Cardinality({t \in Thread : \E item \in Items(t) : item.data = d})

\* SyncCacheItem.lockCount: "number of times THIS THREAD locked this block".
LockCountExact ==
  \A t \in Thread : pc[t] = "idle" =>
    /\ \A item \in Items(t) : inside[t][list[item.data].object] = item.lockCount
    /\ \A o \in Object : inside[t][o] > 0 => \E item \in Items(t) : For(item, o)

\* The two counters of objc-sync.mm:36 and 42 are what their comments say: the threads
\* that use a SyncData are as many as its threadCount, and the enters of an object that
\* a thread has not left are as many as its lockCount.
CountsExact == ThreadCountExact /\ LockCountExact

\* A call returns once the threads inside its object have left.
EveryCallReturns == \A t \in Thread : pc[t] # "idle" ~> pc[t] = "idle"
================================================================================
