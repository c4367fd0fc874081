----------------------------- MODULE MethodCacheInv -----------------------------
(***************************************************************************)
(* The inductive invariant of MethodCache: which blocks a reader may still *)
(* be in, what the stores that a writer has not made yet will change, and  *)
(* that what each cache shows is one version of each method.               *)
(***************************************************************************)
EXTENDS MethodCache

Imp == [sel : Nat, version : Nat]

\* A block of n buckets, and one whose last bucket is the end marker.
IsBlock(b, n) ==
  /\ b = [sel |-> b.sel, imp |-> b.imp]
  /\ b.sel \in [0 .. n - 1 -> SEL \cup {0, 1}] /\ b.imp \in [0 .. n - 1 -> Imp]
  /\ \A i \in 0 .. n - 1 : b.sel[i] \in SEL => b.imp[i].sel = b.sel[i]

IsMarked(b, n) ==
  IsBlock(b, n) /\ n \in 4 .. MAX_CACHE_SIZE /\ \A i \in 0 .. n - 1 : b.sel[i] = 1 <=> i = n - 1

Store ==
  [op : {"buckets"}, c : Class, b : Nat] \cup [op : {"mask"}, c : Class, m : Nat]
  \cup [op : {"imp"}, b : Block, i : Nat, imp : Imp] \cup [op : {"sel"}, b : Block, i : Nat, s : SEL]
  \cup [op : {"collect_free"}, b : Block, size : Nat]
  \cup [op : {"check"}, who : SUBSET Thread, collectALot : BOOLEAN] \cup [op : {"dispose"}]

\* A thread: idle, in the lookup before and in the buckets, past it, and with the lock.
Resting   == [pc : {"idle", "collect"}]
Sending   == [pc : {"mask", "miss"}, c : Class, s : SEL, floor : Nat]
Masked    == [pc : {"buckets"}, c : Class, s : SEL, floor : Nat, m : Nat]
Scanning  == [pc : {"compare", "scan", "hit"}, c : Class, s : SEL, floor : Nat,
              b : Block \cup {Empty}, i : Nat, wrapped : BOOLEAN]
Returning == [pc : {"return"}, c : Class, s : SEL, floor : Nat, imp : Imp]
Filling   == [pc : {"write"}, then : {"return"}, c : Class, s : SEL, floor : Nat, imp : Imp,
              erase : {{}}, todo : Seq(Store)]
Changing  == [pc : {"write"}, then : {"idle", "collect"}, erase : SUBSET Class, todo : Seq(Store)]

TypeInv ==
  /\ DOMAIN heap = Block \cup {Empty}
  /\ buckets \in [Class -> Block \cup {Empty}]
  /\ mask \in [Class -> Nat] /\ occupied \in [Class -> Nat]
  /\ garbage \subseteq Block /\ garbage_size \in Nat
  /\ runtimeLock \in Thread \cup {nil}
  /\ methods \in [Class -> [SEL -> Nat]] /\ newest \in [Class -> [SEL -> Nat]]
  /\ thread \in [Thread -> Resting \cup Sending \cup Masked \cup Scanning \cup Returning
                             \cup Filling \cup Changing]
  /\ shouldUseRestartableRanges \in BOOLEAN /\ sends \in Nat /\ changes \in Nat

\* Every root class has all methods, and no method is newer than the last change.
MethodsInv ==
  \A c \in Class, s \in SEL :
    methods[c][s] <= changes + 1 /\ (Superclass[c] = nil => methods[c][s] # 0)

\* Whoever writes has the lock.
LockInv == \A t \in Thread : thread[t].pc = "write" <=> runtimeLock = t

--------------------------------------------------------------------------------
(* What the holder of the lock has still to do *)

Nobody == [then |-> "idle", erase |-> {}, todo |-> <<>>]
holder == IF runtimeLock = nil THEN Nobody ELSE thread[runtimeLock]

Fills == holder.then = "return"
Next1(op) == holder.todo # <<>> /\ holder.todo[1].op = op
Switches(c) == Next1("buckets") /\ holder.todo[1].c = c

\* The buckets of c once the stores are made.
Target(c) == IF Switches(c) THEN holder.todo[1].b ELSE buckets[c]

\* The blocks some cache has, and those a reader is in.
InUse    == {buckets[c] : c \in Class}
Reads(t) == thread[t].pc \in {"compare", "scan", "hit"}
Scanned  == {thread[t].b : t \in {u \in Thread : Reads(u)}}

\* The stores of the buckets and the mask come first, a check before what it allows,
\* and the imp before its sel.
OrderOK(todo) ==
  \A k \in DOMAIN todo :
    /\ todo[k].op = "buckets" =>
         k = 1 /\ 2 \in DOMAIN todo /\ todo[2].op = "mask" /\ todo[2].c = todo[1].c
    /\ todo[k].op = "mask" /\ k # 1 => k = 2 /\ todo[1].op = "buckets"
    /\ todo[k].op = "collect_free" => \A j \in 1 .. k - 1 : todo[j].op \in {"buckets", "mask"}
    /\ todo[k].op = "check" => k = 1 /\ 2 \in DOMAIN todo /\ todo[2].op = "dispose"
    /\ todo[k].op = "dispose" /\ k # 1 => k = 2 /\ todo[1].op = "check"
    /\ todo[k].op = "sel" =>
         /\ k = Len(todo)
         /\ k # 1 => todo[k - 1].op = "imp" /\ todo[k - 1].b = todo[k].b /\ todo[k - 1].i = todo[k].i

OrderInv == OrderOK(holder.todo)

\* New buckets are nobody's yet, and have no sels.
BucketsInv ==
  Next1("buckets") =>
    LET w == holder.todo[1] IN
    /\ w.b # Empty => w.b \in Block \ (InUse \cup Scanned \cup garbage)
    /\ \A i \in DOMAIN heap[w.b].sel : heap[w.b].sel[i] \in {0, 1}
    /\ IF Fills THEN w.c = holder.c /\ w.b # Empty ELSE w.b = Empty

\* The mask grows, and never beyond the buckets.
StoredMaskInv ==
  \A k \in DOMAIN holder.todo : LET w == holder.todo[k] IN
    w.op = "mask" =>
      /\ mask[w.c] <= w.m /\ w.m >= 3 /\ w.m \in DOMAIN heap[Target(w.c)].sel
      /\ Target(w.c) # Empty => IsMarked(heap[Target(w.c)], w.m + 1)

\* What will be garbage is no longer in a cache, once the buckets are stored.
FreeInv ==
  \A k \in DOMAIN holder.todo : LET w == holder.todo[k] IN
    w.op = "collect_free" =>
      /\ w.b \notin garbage /\ heap[w.b] # Freed
      /\ IF Next1("buckets") THEN w.b = buckets[holder.todo[1].c] ELSE w.b \notin InUse

\* The bucket to be filled is free, and its imp is there before its sel.
SlotInv ==
  \A k \in DOMAIN holder.todo : LET w == holder.todo[k] IN
    w.op \in {"imp", "sel"} =>
      /\ Fills /\ w.b = Target(holder.c)
      /\ w.i \in DOMAIN heap[w.b].sel /\ heap[w.b].sel[w.i] = 0
      /\ w.op = "imp" => w.imp = holder.imp
      /\ w.op = "sel" => w.s = holder.s
      /\ w.op = "sel" /\ k = 1 => heap[w.b].imp[w.i] = holder.imp

\* No reader that the check has passed, or will not look at, is in the garbage.
CheckInv ==
  /\ Next1("check") =>
       \A t \in Thread : Reads(t) /\ thread[t].b \in garbage => t \in holder.todo[1].who
  /\ Next1("dispose") => Scanned \cap garbage = {}

--------------------------------------------------------------------------------
(* The blocks *)

HeapInv ==
  /\ heap[Empty] = emptyBuckets
  /\ \A b \in Block : heap[b] = Freed \/ \E n \in 4 .. MAX_CACHE_SIZE : IsMarked(heap[b], n)
  /\ \A b \in garbage \cup InUse : heap[b] # Freed
  /\ garbage \cap InUse = {}
  /\ \A c, d \in Class : buckets[c] = buckets[d] /\ buckets[c] # Empty => c = d

\* The mask of c, or a sel in its buckets, is still to be stored.
MaskPending(c) == \E k \in DOMAIN holder.todo : holder.todo[k].op = "mask" /\ holder.todo[k].c = c
SelPending(c)  == Fills /\ holder.c = c /\ \E k \in DOMAIN holder.todo : holder.todo[k].op = "sel"

\* No reader overruns the buckets of a class, whichever mask it has found.
MaskInv ==
  \A c \in Class :
    /\ mask[c] \in DOMAIN heap[buckets[c]].sel /\ (mask[c] = 0 \/ mask[c] >= 3)
    /\ buckets[c] # Empty /\ ~MaskPending(c) => IsMarked(heap[buckets[c]], mask[c] + 1)

Used(b) == {i \in DOMAIN b.sel : b.sel[i] # 0}

\* occupied counts the sels in buckets b, and leaves a quarter of b free.
Counts(c, b) ==
  IF b = Empty THEN occupied[c] = 0
  ELSE /\ occupied[c] >= 1
       /\ Cardinality(Used(heap[b])) = occupied[c] + (IF SelPending(c) THEN 0 ELSE CACHE_END_MARKER)
       /\ occupied[c] + CACHE_END_MARKER <= (Size(heap[b]) \div 4) * 3

CountInv == \A c \in Class : Counts(c, Target(c))

--------------------------------------------------------------------------------
(* The readers *)

\* What a reader has found will not fail it; its class has one cache only.
ReaderOK(t) ==
  LET r == thread[t] IN
  /\ r.pc = "buckets" => r.m <= mask[r.c]
  /\ Reads(t) =>
       /\ heap[r.b] # Freed /\ r.i \in DOMAIN heap[r.b].sel
       /\ \A c \in Class : buckets[c] = r.b => c = r.c \/ r.b = Empty
  /\ r.pc = "hit" => heap[r.b].sel[r.i] = r.s

FloorOK(t) ==
  LET r == thread[t] IN
  r.pc \notin {"idle", "collect"} /\ (r.pc = "write" => r.then = "return") =>
    r.floor <= newest[r.c][r.s]

ReaderInv == \A t \in Thread : ReaderOK(t) /\ FloorOK(t)

\* The classes whose caches a change has not erased yet.
Awaiting == IF Fills THEN {} ELSE holder.erase \cup {c \in Class : Switches(c)}

\* All that the buckets b have for s is a version between low and high.
Holds(b, s, low, high) ==
  \A i \in DOMAIN heap[b].sel : heap[b].sel[i] = s => heap[b].imp[i].version \in low .. high

\* A reader of c has found no version newer than v.
Finds(t, c, s, v) ==
  LET r == thread[t] IN
  /\ Reads(t) /\ r.c = c /\ r.s = s => Holds(r.b, s, r.floor, v)
  /\ r.pc = "return" /\ r.c = c /\ r.s = s => r.imp.sel = s /\ r.imp.version \in r.floor .. v

\* The cache of c shows version v of s.
Shows(c, s, v) ==
  /\ c \notin Awaiting => v = Effective(c, s)
  /\ Holds(buckets[c], s, v, v)
  /\ \A t \in Thread : Finds(t, c, s, v)
  /\ Fills /\ holder.c = c /\ holder.s = s => holder.imp = [sel |-> s, version |-> v]

ShowsInv == \A c \in Class, s \in SEL : \E v \in newest[c][s] .. Effective(c, s) : Shows(c, s, v)

IInv ==
  /\ TypeInv /\ MethodsInv /\ LockInv
  /\ OrderInv /\ BucketsInv /\ StoredMaskInv /\ FreeInv /\ SlotInv /\ CheckInv
  /\ HeapInv /\ MaskInv /\ CountInv /\ GuaranteedEmptySlot
  /\ ReaderInv /\ ShowsInv
================================================================================
