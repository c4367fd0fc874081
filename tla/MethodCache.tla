------------------------------- MODULE MethodCache -------------------------------
(***************************************************************************)
(* objc-cache.mm on x86_64: the method cache of each class, which          *)
(* objc_msgSend reads with no lock, one load at a time, while a thread     *)
(* that holds runtimeLock fills, grows and erases it and frees what no     *)
(* reader can see.                                                         *)
(*                                                                         *)
(* A selector is its address.  The writer's private work is done where it  *)
(* begins; every store that a reader can see is a step of its own.         *)
(***************************************************************************)
EXTENDS Integers, Sequences, FiniteSets, FiniteSetsExt

CONSTANTS Thread, Class, nil,
          Superclass,       \* Superclass[c]: nil for a root class
          SEL,              \* the selectors, above 1; a root class has methods for all
          INIT_CACHE_SIZE, MAX_CACHE_SIZE,
          garbage_threshold,\* in buckets
          RestartableRanges,\* the values shouldUseRestartableRanges may have
          Block,            \* bound: the memory there is for buckets
          MaxSends,         \* bound: messages sent
          MaxChanges        \* bound: methods added or replaced, flushes of all caches

ASSUME ClassAssumption ==
  /\ nil \notin Thread \cup Class
  /\ Superclass \in [Class -> Class \cup {nil}]
  /\ \A c \in Class : Superclass[c] # nil => Superclass[Superclass[c]] = nil
ASSUME SelectorAssumption == SEL \subseteq Nat \ {0, 1}
ASSUME SizeAssumption ==
  /\ INIT_CACHE_SIZE \in Nat /\ INIT_CACHE_SIZE >= 4   \* "minimum size is 4"
  /\ MAX_CACHE_SIZE \in Nat /\ MAX_CACHE_SIZE >= INIT_CACHE_SIZE /\ garbage_threshold \in Nat
  /\ RestartableRanges \subseteq BOOLEAN
  /\ Block \subseteq Nat \ {0}
ASSUME BoundAssumption == MaxSends \in Nat /\ MaxChanges \in Nat

VARIABLES
  heap,      \* per block: its buckets, or Freed
  buckets,   \* per class: the block of its cache
  mask,      \* per class
  occupied,  \* per class
  garbage,   \* garbage_refs
  garbage_size, \* garbage_byte_size
  runtimeLock,  \* the thread that holds it, or nil
  methods,   \* per class and selector: the version of its method, 0 for none
  newest,    \* per class and selector: the newest version that a send or a change
             \* that has returned got or installed
  thread,    \* per thread: where it is
  shouldUseRestartableRanges,
  sends, changes \* how many there were (for the bounds)

vars == <<heap, buckets, mask, occupied, garbage, garbage_size, runtimeLock, methods,
          newest, thread, shouldUseRestartableRanges, sends, changes>>
cache  == <<heap, buckets, mask, occupied, garbage, garbage_size>>
limits == <<shouldUseRestartableRanges, sends, changes>>

--------------------------------------------------------------------------------
(* Blocks of buckets *)

Empty == 0                         \* _objc_empty_cache, and the larger ones like it
NoImp == [sel |-> 0, version |-> 0]
Freed == [sel |-> <<>>, imp |-> <<>>]

CACHE_END_MARKER == 1              \* x86_64: the last bucket ends the list

\* A bucket's sel is 0 when it is free, and 1 in the end marker.
allocateBuckets(capacity) ==
  [sel |-> [i \in 0..(capacity - 1) |-> IF i = capacity - CACHE_END_MARKER THEN 1 ELSE 0],
   imp |-> [i \in 0..(capacity - 1) |-> NoImp]]

emptyBuckets == [sel |-> [i \in 0..(MAX_CACHE_SIZE - 1) |-> 0],
                 imp |-> [i \in 0..(MAX_CACHE_SIZE - 1) |-> NoImp]]

Size(b) == Cardinality(DOMAIN b.sel)

\* Where a scan of b for s that begins at its hash stops, or -1 if it never does.
Scan(b, s) ==
  LET n     == Size(b)
      at(k) == ((s % n) + k) % n
      stops == {k \in 0..(n - 1) : b.sel[at(k)] \in {0, s}} IN
  IF stops = {} THEN -1 ELSE at(Min(stops))

capacity(c) == IF mask[c] = 0 THEN 0 ELSE mask[c] + 1

isConstantEmptyCache(c) == occupied[c] = 0 /\ buckets[c] = Empty

--------------------------------------------------------------------------------
(* The writer: what it does under runtimeLock, as the stores that others can see *)

\* Mutant: the mask first.
setMaskAndBuckets(c, b, m) == <<[op |-> "mask", c |-> c, m |-> m],
                                [op |-> "buckets", c |-> c, b |-> b]>>

\* "It is unsafe for objc_msgSend to see old buckets and new mask."
setBucketsAndMask(c, b, m) == <<[op |-> "buckets", c |-> c, b |-> b],
                                [op |-> "mask", c |-> c, m |-> m]>>

\* "It is unsafe for objc_msgSend to see old imp and new sel."
set(b, i, s, imp) == <<[op |-> "imp", b |-> b, i |-> i, imp |-> imp],
                       [op |-> "sel", b |-> b, i |-> i, s |-> s]>>

collect_free(b, n) == <<[op |-> "collect_free", b |-> b, size |-> n]>>

\* Mutant: the end marker is a bucket like any other.
FitsAll(c) == occupied[c] + 1 <= (capacity(c) \div 4) * 3

\* Less than 3/4 full.
Fits(c) == occupied[c] + 1 + CACHE_END_MARKER <= (capacity(c) \div 4) * 3

newCapacity(c) ==
  LET n == capacity(c) IN
  IF n = 0 THEN INIT_CACHE_SIZE
  ELSE IF isConstantEmptyCache(c) THEN n
  ELSE IF 2 * n > MAX_CACHE_SIZE THEN MAX_CACHE_SIZE ELSE 2 * n

\* cache_t::insert: the new block, if there has to be one, and the stores.
Insert(t, c, s, imp) ==
  LET reallocate == isConstantEmptyCache(c) \/ ~Fits(c)
      new == Min({b \in Block : heap[b] = Freed})
      b   == IF reallocate THEN new ELSE buckets[c]
      n   == newCapacity(c)
      bs  == IF reallocate THEN allocateBuckets(n) ELSE heap[b]
      i   == Scan(bs, s)
      stores ==
        (IF reallocate THEN setBucketsAndMask(c, b, n - 1) ELSE <<>>)
        \o (IF reallocate /\ ~isConstantEmptyCache(c)
            THEN collect_free(buckets[c], capacity(c)) ELSE <<>>)
        \o (IF bs.sel[i] = s THEN <<>> ELSE set(b, i, s, imp)) IN
  /\ reallocate => \E x \in Block : heap[x] = Freed
  /\ heap' = [heap EXCEPT ![b] = bs]
  /\ occupied' = [occupied EXCEPT ![c] = (IF reallocate THEN 0 ELSE @)
                                           + (IF bs.sel[i] = s THEN 0 ELSE 1)]
  /\ thread' = [thread EXCEPT ![t] =
       [pc |-> "write", then |-> "return", c |-> c, s |-> s, floor |-> @.floor, imp |-> imp,
        erase |-> {}, todo |-> stores]]

\* cache_erase_nolock: "This must not shrink the cache".
Erase(c) ==
  IF capacity(c) > 0 /\ occupied[c] > 0
  THEN setBucketsAndMask(c, Empty, capacity(c) - 1) \o collect_free(buckets[c], capacity(c))
  ELSE <<>>

\* Mutant: the class alone.
flushedAlone(c) == {d \in Class : c \in {d, nil}}

\* flushCaches: a class and its subclasses, nil for all.
flushed(c) == {d \in Class : c \in {d, Superclass[d], nil}}

--------------------------------------------------------------------------------
(* Readers *)

\* Past the first load of objc_msgSend's lookup and before its jump: the restartable
\* range, which is also what _collecting_in_critical looks for.
Critical(t) == thread[t].pc \in {"buckets", "compare", "scan", "hit"}

\* What a load finds in a bucket.
SelAt(b, i) == IF i \in DOMAIN heap[b].sel THEN heap[b].sel[i] ELSE 0
ImpAt(b, i) == IF i \in DOMAIN heap[b].imp THEN heap[b].imp[i] ELSE NoImp

Idle == [pc |-> "idle"]

objc_msgSend(t, c, s) ==
  /\ thread[t].pc = "idle" /\ sends < MaxSends
  /\ sends' = sends + 1
  /\ thread' = [thread EXCEPT ![t] = [pc |-> "mask", c |-> c, s |-> s, floor |-> newest[c][s]]]
  /\ UNCHANGED <<cache, runtimeLock, methods, newest, shouldUseRestartableRanges, changes>>

\* "objc_msgSend reads mask first, then buckets."
Load(t) ==
  /\ LET r == thread[t] IN
     \/ /\ r.pc = "mask"
        /\ thread' = [thread EXCEPT ![t] =
             [pc |-> "buckets", c |-> r.c, s |-> r.s, floor |-> r.floor, m |-> mask[r.c]]]
     \/ /\ r.pc = "buckets"
        /\ thread' = [thread EXCEPT ![t] =
             [pc |-> "compare", c |-> r.c, s |-> r.s, floor |-> r.floor, b |-> buckets[r.c],
              i |-> r.s % (r.m + 1), wrapped |-> FALSE]]
  /\ UNCHANGED <<cache, runtimeLock, methods, newest, limits>>

Miss(r) == [pc |-> "miss", c |-> r.c, s |-> r.s, floor |-> r.floor]

Found(r, imp) == [pc |-> "return", c |-> r.c, s |-> r.s, floor |-> r.floor, imp |-> imp]

\* The sel of a bucket is loaded once to compare it ...
Compare(t) ==
  /\ thread[t].pc = "compare"
  /\ LET r == thread[t] IN
     thread' = [thread EXCEPT ![t].pc = IF SelAt(r.b, r.i) = r.s THEN "hit" ELSE "scan"]
  /\ UNCHANGED <<cache, runtimeLock, methods, newest, limits>>

\* ... and again to see whether the scan goes on; the second end marker is a miss.
ScanOn(t) ==
  /\ thread[t].pc = "scan"
  /\ LET r   == thread[t]
         sel == SelAt(r.b, r.i) IN
     thread' = [thread EXCEPT ![t] =
       IF sel = 0 \/ (sel = 1 /\ r.wrapped) THEN Miss(r)
       ELSE [r EXCEPT !.pc = "compare", !.i = IF sel = 1 THEN 0 ELSE r.i + 1,
                      !.wrapped = r.wrapped \/ sel = 1]]
  /\ UNCHANGED <<cache, runtimeLock, methods, newest, limits>>

CacheHit(t) ==
  /\ thread[t].pc = "hit"
  /\ LET r == thread[t] IN
     thread' = [thread EXCEPT ![t] = Found(r, ImpAt(r.b, r.i))]
  /\ UNCHANGED <<cache, runtimeLock, methods, newest, limits>>

\* The method is called.
Return(t) ==
  /\ thread[t].pc = "return"
  /\ LET r == thread[t] IN
     newest' = [newest EXCEPT ![r.c][r.s] = Max({@, r.imp.version})]
  /\ thread' = [thread EXCEPT ![t] = Idle]
  /\ UNCHANGED <<cache, runtimeLock, methods, limits>>

--------------------------------------------------------------------------------
(* Writers *)

cache_getImp(c, s) ==
  LET b == heap[buckets[c]]
      i == Scan(b, s) IN
  IF b.sel[i] = s THEN b.imp[i] ELSE NoImp

\* The search of lookUpImpOrForward: the class, the superclass's cache, the superclass.
LookUp(c, s) ==
  LET up == Superclass[c] IN
  IF methods[c][s] # 0 THEN [sel |-> s, version |-> methods[c][s]]
  ELSE IF cache_getImp(up, s) # NoImp THEN cache_getImp(up, s)
  ELSE [sel |-> s, version |-> methods[up][s]]

\* The miss: lookup and fill are atomic with respect to the addition of methods.
lookUpImpOrForward(t) ==
  /\ thread[t].pc = "miss" /\ runtimeLock = nil
  /\ runtimeLock' = t
  /\ LET r == thread[t] IN Insert(t, r.c, r.s, LookUp(r.c, r.s))
  /\ UNCHANGED <<buckets, mask, garbage, garbage_size, methods, newest, limits>>

Effective(c, s) == IF methods[c][s] # 0 THEN methods[c][s] ELSE methods[Superclass[c]][s]

\* flushCaches begins: the caches of cs are to be erased.
Changed(t, then, cs) ==
  /\ runtimeLock = nil /\ runtimeLock' = t
  /\ thread' = [thread EXCEPT ![t] =
       [pc |-> "write", then |-> then, erase |-> cs, todo |-> <<>>]]

\* class_replaceMethod and the like: a method of the class is added or replaced, and
\* is newer than any.
replaceMethod(t, c, s) ==
  /\ thread[t].pc = "idle" /\ changes < MaxChanges
  /\ changes' = changes + 1
  /\ methods' = [methods EXCEPT ![c][s] = changes' + 1]
  /\ Changed(t, "idle", flushed(c))
  /\ UNCHANGED <<cache, newest, shouldUseRestartableRanges, sends>>

\* _objc_flush_caches(nil) takes the lock again to collect all the garbage.
flush_caches(t) ==
  /\ thread[t].pc = "idle" /\ changes < MaxChanges
  /\ changes' = changes + 1
  /\ Changed(t, "collect", flushed(nil))
  /\ UNCHANGED <<cache, methods, newest, shouldUseRestartableRanges, sends>>

\* flushCaches goes on to the next class; which of them is next does not matter.
EraseNext(t) ==
  /\ thread[t].pc = "write" /\ thread[t].todo = <<>>
  /\ \E c \in thread[t].erase :
       /\ thread' = [thread EXCEPT ![t].todo = Erase(c), ![t].erase = @ \ {c}]
       /\ occupied' = [occupied EXCEPT ![c] = 0]
  /\ UNCHANGED <<heap, buckets, mask, garbage, garbage_size, runtimeLock, methods, newest, limits>>

\* The check of the other threads, and what it allows.
cache_collect(t, collectALot) ==
  <<[op |-> "check", who |-> Thread \ {t}, collectALot |-> collectALot], [op |-> "dispose"]>>

CollectALot(t) ==
  /\ thread[t].pc = "collect" /\ runtimeLock = nil
  /\ runtimeLock' = t
  /\ thread' = [thread EXCEPT ![t] =
       [pc |-> "write", then |-> "idle", erase |-> {}, todo |-> cache_collect(t, TRUE)]]
  /\ UNCHANGED <<cache, methods, newest, limits>>

Writing(t, op) ==
  thread[t].pc = "write" /\ thread[t].todo # <<>> /\ Head(thread[t].todo).op = op
NextWrite(t, more) == thread' = [thread EXCEPT ![t].todo = more \o Tail(@)]

\* The stores of setBucketsAndMask and of bucket_t::set.
WriteStore(t) ==
  /\ \E op \in {"buckets", "mask", "imp", "sel"} : Writing(t, op)
  /\ LET w == Head(thread[t].todo) IN
     /\ buckets' = IF w.op = "buckets" THEN [buckets EXCEPT ![w.c] = w.b] ELSE buckets
     /\ mask' = IF w.op = "mask" THEN [mask EXCEPT ![w.c] = w.m] ELSE mask
     /\ heap' = IF w.op = "imp" THEN [heap EXCEPT ![w.b].imp[w.i] = w.imp]
                ELSE IF w.op = "sel" THEN [heap EXCEPT ![w.b].sel[w.i] = w.s] ELSE heap
  /\ NextWrite(t, <<>>)
  /\ UNCHANGED <<occupied, garbage, garbage_size, runtimeLock, methods, newest, limits>>

\* cache_collect_free: the garbage is not touched before there is enough of it.
CollectFree(t) ==
  /\ Writing(t, "collect_free")
  /\ LET w == Head(thread[t].todo) IN
     /\ garbage' = garbage \cup {w.b}
     /\ garbage_size' = garbage_size + w.size
  /\ NextWrite(t, IF garbage_size' < garbage_threshold THEN <<>> ELSE cache_collect(t, FALSE))
  /\ UNCHANGED <<heap, buckets, mask, occupied, runtimeLock, methods, newest, limits>>

\* _collecting_in_critical: the kernel restarts every reader, or the threads are looked
\* at one by one, until one of them is found in the lookup.
CollectingInCritical(t) ==
  /\ Writing(t, "check")
  /\ LET w == Head(thread[t].todo)
         rest == Tail(thread[t].todo) IN
     \/ /\ shouldUseRestartableRanges
        /\ thread' = [u \in Thread |->
             IF u = t THEN [thread[t] EXCEPT !.todo = rest]
             ELSE IF Critical(u) THEN Miss(thread[u]) ELSE thread[u]]
     \/ /\ ~shouldUseRestartableRanges /\ w.who = {}
        /\ NextWrite(t, <<>>)
     \/ /\ ~shouldUseRestartableRanges
        /\ \E u \in w.who :
             thread' = [thread EXCEPT ![t].todo =
               IF ~Critical(u) THEN <<[w EXCEPT !.who = @ \ {u}]>> \o rest
               ELSE IF w.collectALot THEN cache_collect(t, TRUE) \o Tail(rest) ELSE Tail(rest)]
  /\ UNCHANGED <<cache, runtimeLock, methods, newest, limits>>

Dispose(t) ==
  /\ Writing(t, "dispose")
  /\ heap' = [b \in DOMAIN heap |-> IF b \in garbage THEN Freed ELSE heap[b]]
  /\ garbage' = {} /\ garbage_size' = 0
  /\ NextWrite(t, <<>>)
  /\ UNCHANGED <<buckets, mask, occupied, runtimeLock, methods, newest, limits>>

\* The writer is done: a send has its method, and a change is a promise.
Unlock(t) ==
  /\ thread[t].pc = "write" /\ thread[t].todo = <<>> /\ thread[t].erase = {}
  /\ runtimeLock' = nil
  /\ LET r == thread[t] IN
     IF r.then = "return"
     THEN thread' = [thread EXCEPT ![t] = Found(r, r.imp)] /\ UNCHANGED newest
     ELSE /\ thread' = [thread EXCEPT ![t] = [pc |-> r.then]]
          /\ newest' = [c \in Class |-> [s \in SEL |-> Effective(c, s)]]
  /\ UNCHANGED <<cache, methods, limits>>

--------------------------------------------------------------------------------

Init ==
  /\ heap = [b \in Block \cup {Empty} |-> IF b = Empty THEN emptyBuckets ELSE Freed]
  /\ buckets = [c \in Class |-> Empty]
  /\ mask = [c \in Class |-> 0]
  /\ occupied = [c \in Class |-> 0]
  /\ garbage = {} /\ garbage_size = 0
  /\ runtimeLock = nil
  /\ methods = [c \in Class |-> [s \in SEL |-> IF Superclass[c] = nil THEN 1 ELSE 0]]
  /\ newest = [c \in Class |-> [s \in SEL |-> 1]]
  /\ thread = [t \in Thread |-> Idle]
  /\ shouldUseRestartableRanges \in RestartableRanges
  /\ sends = 0 /\ changes = 0

Next == \E t \in Thread :
  \/ \E c \in Class, s \in SEL : objc_msgSend(t, c, s) \/ replaceMethod(t, c, s)
  \/ flush_caches(t) \/ CollectALot(t)
  \/ Load(t) \/ Compare(t) \/ ScanOn(t) \/ CacheHit(t) \/ Return(t)
  \/ lookUpImpOrForward(t) \/ EraseNext(t)
  \/ WriteStore(t) \/ CollectFree(t) \/ CollectingInCritical(t) \/ Dispose(t) \/ Unlock(t)

Spec == Init /\ [][Next]_vars

--------------------------------------------------------------------------------
(* Properties *)

\* A reader never overruns the buckets it found, nor reads them once they are freed
\* (objc-cache.mm:37-48 and 325-330).
NoStrayRead ==
  \A t \in Thread : thread[t].pc \in {"compare", "scan", "hit"} =>
    thread[t].i \in DOMAIN heap[thread[t].b].sel

\* A message gets a method of its selector that is not older than any change that had
\* returned, and any method a send had got, when it began: the caches never bring back
\* a method that was replaced (objc-runtime-new.mm:6178-6182).
RightMethod ==
  \A t \in Thread : thread[t].pc = "return" =>
    LET r == thread[t] IN
    r.imp.sel = r.s /\ r.imp.version \in r.floor..Effective(r.c, r.s)

\* "There is guaranteed to be an empty slot because the minimum size is 4 and we resized
\* at 3/4 full" (objc-cache.mm:683-685): every scan ends, and bad_cache is not called.
GuaranteedEmptySlot ==
  \A c \in Class : \E i \in DOMAIN heap[buckets[c]].sel : heap[buckets[c]].sel[i] = 0
================================================================================
