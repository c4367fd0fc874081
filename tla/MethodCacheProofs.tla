---------------------------- MODULE MethodCacheProofs ----------------------------
(***************************************************************************)
(* MethodCache, proved for any threads, classes, selectors and sizes.      *)
(***************************************************************************)
EXTENDS MethodCacheInv, FiniteSetTheorems, WellFoundedInduction, TLAPS

--------------------------------------------------------------------------------
(* Numbers *)

\* A set of naturals has a least element: induction, without an operator for the property.
LEMMA Least ==
  ASSUME NEW T \in SUBSET Nat, T # {}
  PROVE  \E x \in T : \A y \in T : x <= y
<1> DEFINE TT == {1 .. n : n \in T}
<1>1. \A n \in T : 1 .. n \in FiniteSubsetsOf(Nat)
  <2>1. \A n \in T : IsFiniteSet(1 .. n)
    BY FS_Interval
  <2> QED BY <2>1 DEF FiniteSubsetsOf
<1>2. TT \subseteq FiniteSubsetsOf(Nat) /\ TT # {}
  BY <1>1
<1>3. PICK X \in TT : \A Y \in TT : <<Y, X>> \notin StrictSubsetOrdering(Nat)
  <2> HIDE DEF TT
  <2>1. IsWellFoundedOn(StrictSubsetOrdering(Nat), FiniteSubsetsOf(Nat))
    BY FS_StrictSubsetOrderingWellFounded
  <2> QED BY <1>2, <2>1, WFMin
<1>4. PICK x \in T : X = 1 .. x
  OBVIOUS
<1>5. ASSUME NEW y \in T, ~(x <= y) PROVE FALSE
  <2>1. 1 .. y \in TT /\ 1 .. y \in FiniteSubsetsOf(Nat) /\ 1 .. x \in FiniteSubsetsOf(Nat)
    BY <1>1
  <2>2. 1 .. y \subseteq 1 .. x /\ x \in 1 .. x /\ x \notin 1 .. y
    BY <1>5
  <2>3. <<1 .. y, 1 .. x>> \in StrictSubsetOrdering(Nat)
    BY <2>1, <2>2 DEF StrictSubsetOrdering
  <2> QED BY <1>3, <1>4, <2>1, <2>3
<1> QED BY <1>5

LEMMA MinIn ==
  ASSUME NEW T \in SUBSET Nat, T # {} PROVE Min(T) \in T
<1>1. PICK x \in T : \A y \in T : x <= y
  BY Least
<1> QED BY <1>1 DEF Min

LEMMA MaxOfTwo ==
  ASSUME NEW a \in Nat, NEW b \in Nat
  PROVE  /\ Max({a, b}) \in {a, b} /\ Max({a, b}) >= a /\ Max({a, b}) >= b
<1>1. \E x \in {a, b} : \A y \in {a, b} : x >= y
  OBVIOUS
<1> QED BY <1>1 DEF Max

--------------------------------------------------------------------------------
(* Blocks *)

LEMMA Constants ==
  /\ \A s \in SEL : s \in Nat /\ s # 0 /\ s # 1
  /\ Block \subseteq Nat /\ Empty \notin Block /\ Empty \in Nat
  /\ MAX_CACHE_SIZE \in Nat /\ MAX_CACHE_SIZE >= 4 /\ INIT_CACHE_SIZE \in 4 .. MAX_CACHE_SIZE
  /\ nil \notin Thread /\ nil \notin Class
<1>1. INIT_CACHE_SIZE \in Nat /\ INIT_CACHE_SIZE >= 4 /\ MAX_CACHE_SIZE \in Nat /\ MAX_CACHE_SIZE >= INIT_CACHE_SIZE
  BY SizeAssumption
<1>2. Block \subseteq Nat \ {0}
  BY SizeAssumption
<1>3. nil \notin Thread \cup Class
  BY ClassAssumption
<1> QED BY <1>1, <1>2, <1>3, SelectorAssumption DEF Empty

LEMMA BlockShape ==
  ASSUME NEW x, NEW n \in Nat, n > 0, IsBlock(x, n)
  PROVE  /\ DOMAIN x.sel = 0 .. n - 1 /\ DOMAIN x.imp = 0 .. n - 1 /\ x # Freed /\ Size(x) = n
         /\ \A i \in 0 .. n - 1 : /\ x.sel[i] \in SEL \cup {0, 1} /\ x.imp[i] \in Imp
                                  /\ x.sel[i] \in SEL => x.imp[i].sel = x.sel[i]
<1>1. DOMAIN x.sel = 0 .. n - 1 /\ DOMAIN x.imp = 0 .. n - 1
  BY DEF IsBlock
<1>2. Size(x) = n
  <2>1. Cardinality(0 .. n - 1) = n
    BY FS_Interval
  <2> QED BY <1>1, <2>1 DEF Size
<1>3. x # Freed
  <2>1. DOMAIN Freed.sel = {}
    BY DEF Freed
  <2>2. 0 \in DOMAIN x.sel
    BY <1>1
  <2> QED BY <2>1, <2>2
<1>4. \A i \in 0 .. n - 1 : /\ x.sel[i] \in SEL \cup {0, 1} /\ x.imp[i] \in Imp
                            /\ x.sel[i] \in SEL => x.imp[i].sel = x.sel[i]
  BY DEF IsBlock
<1> QED BY <1>1, <1>2, <1>3, <1>4

LEMMA EmptyShape ==
  /\ IsBlock(emptyBuckets, MAX_CACHE_SIZE) /\ emptyBuckets # Freed
  /\ DOMAIN emptyBuckets.sel = 0 .. MAX_CACHE_SIZE - 1
  /\ \A i \in 0 .. MAX_CACHE_SIZE - 1 : emptyBuckets.sel[i] = 0
<1>1. IsBlock(emptyBuckets, MAX_CACHE_SIZE)
  <2>1. NoImp \in Imp
    BY DEF NoImp, Imp
  <2> QED BY <2>1, Constants DEF emptyBuckets, IsBlock
<1>2. \A i \in 0 .. MAX_CACHE_SIZE - 1 : emptyBuckets.sel[i] = 0
  BY DEF emptyBuckets
<1> QED BY <1>1, <1>2, BlockShape, Constants

LEMMA MarkedShape ==
  ASSUME NEW x, NEW n, IsMarked(x, n)
  PROVE  /\ n \in Nat /\ n >= 4 /\ n <= MAX_CACHE_SIZE /\ n > 0 /\ IsBlock(x, n)
         /\ DOMAIN x.sel = 0 .. n - 1 /\ DOMAIN x.imp = 0 .. n - 1 /\ x # Freed /\ Size(x) = n
         /\ \A i \in 0 .. n - 1 : /\ x.sel[i] \in SEL \cup {0, 1} /\ x.imp[i] \in Imp
                                  /\ x.sel[i] \in SEL => x.imp[i].sel = x.sel[i]
                                  /\ x.sel[i] = 1 <=> i = n - 1
<1>1. n \in Nat /\ n >= 4 /\ n <= MAX_CACHE_SIZE /\ n > 0 /\ IsBlock(x, n)
      /\ \A i \in 0 .. n - 1 : x.sel[i] = 1 <=> i = n - 1
  BY Constants DEF IsMarked
<1> QED BY <1>1, BlockShape

LEMMA AllocatedShape ==
  ASSUME NEW n \in 4 .. MAX_CACHE_SIZE
  PROVE  /\ IsMarked(allocateBuckets(n), n) /\ Used(allocateBuckets(n)) = {n - 1}
         /\ \A i \in 0 .. n - 1 : allocateBuckets(n).sel[i] \in {0, 1}
<1> DEFINE x == allocateBuckets(n)
<1>1. NoImp \in Imp /\ n \in Nat /\ n >= 4
  BY Constants DEF NoImp, Imp
<1>2. x.sel = [i \in 0 .. n - 1 |-> IF i = n - 1 THEN 1 ELSE 0] /\ x.imp = [i \in 0 .. n - 1 |-> NoImp]
  BY <1>1 DEF allocateBuckets, CACHE_END_MARKER
<1>3. x = [sel |-> x.sel, imp |-> x.imp]
  BY DEF allocateBuckets
<1> HIDE DEF x
<1>4. \A i \in 0 .. n - 1 : x.sel[i] \in {0, 1} /\ (x.sel[i] = 1 <=> i = n - 1)
  BY <1>1, <1>2
<1>5. IsMarked(x, n)
  BY <1>1, <1>2, <1>3, <1>4, Constants DEF IsMarked, IsBlock
<1>6. Used(x) = {n - 1}
  BY <1>1, <1>2 DEF Used
<1> QED BY <1>4, <1>5, <1>6 DEF x

\* A scan of a block with a free bucket finds a bucket that is free or has the selector.
LEMMA ScanFinds ==
  ASSUME NEW x, NEW n \in Nat, n > 0, IsBlock(x, n), NEW s \in SEL,
         \E i \in 0 .. n - 1 : x.sel[i] = 0
  PROVE  Scan(x, s) \in 0 .. n - 1 /\ x.sel[Scan(x, s)] \in {0, s}
<1> DEFINE at(k) == ((s % n) + k) % n
           stops == {k \in 0 .. (n - 1) : x.sel[at(k)] \in {0, s}}
<1>1. Size(x) = n
  BY BlockShape
<1>2. s % n \in 0 .. n - 1
  BY Constants
<1>3. PICK i \in 0 .. n - 1 : x.sel[i] = 0
  OBVIOUS
<1>4. \E k \in 0 .. n - 1 : at(k) = i
  <2>1. CASE i >= s % n
    <3>1. i - (s % n) \in 0 .. n - 1 /\ (s % n) + (i - (s % n)) = i
      BY <1>2, <2>1
    <3>2. i % n = i
      OBVIOUS
    <3> QED BY <3>1, <3>2
  <2>2. CASE i < s % n
    <3>1. i + n - (s % n) \in 0 .. n - 1 /\ (s % n) + (i + n - (s % n)) = i + n
      BY <1>2, <2>2
    <3>2. (i + n) % n = i
      OBVIOUS
    <3> QED BY <3>1, <3>2
  <2> QED BY <1>2, <2>1, <2>2
<1>5. stops # {} /\ stops \in SUBSET Nat
  BY <1>3, <1>4
<1>6. Min(stops) \in stops
  <2> HIDE DEF stops
  <2> QED BY <1>5, MinIn
<1>7. Scan(x, s) = at(Min(stops))
  BY <1>1, <1>5 DEF Scan
<1>8. \A k \in Nat : at(k) \in 0 .. n - 1
  BY <1>2
<1> QED BY <1>5, <1>6, <1>7, <1>8

--------------------------------------------------------------------------------
(* Threads *)

\* What a thread has, by where it is.
LEMMA ThreadShape ==
  ASSUME TypeInv, NEW t \in Thread
  PROVE  LET r == thread[t] IN
         /\ r.pc \in {"idle", "collect"} => r \in Resting
         /\ r.pc \in {"mask", "miss"} => r \in Sending
         /\ r.pc = "buckets" => r \in Masked
         /\ r.pc \in {"compare", "scan", "hit"} => r \in Scanning
         /\ r.pc = "return" => r \in Returning
         /\ r.pc = "write" /\ r.then = "return" => r \in Filling
         /\ r.pc = "write" /\ r.then # "return" => r \in Changing
<1> DEFINE r == thread[t]
<1>1. r \in Resting \cup Sending \cup Masked \cup Scanning \cup Returning \cup Filling \cup Changing
  BY DEF TypeInv
<1> HIDE DEF r
<1>2. /\ r \in Resting => r.pc \in {"idle", "collect"}
      /\ r \in Sending => r.pc \in {"mask", "miss"}
      /\ r \in Masked => r.pc = "buckets"
      /\ r \in Scanning => r.pc \in {"compare", "scan", "hit"}
      /\ r \in Returning => r.pc = "return"
      /\ r \in Filling => r.pc = "write" /\ r.then = "return"
      /\ r \in Changing => r.pc = "write" /\ r.then # "return"
  BY DEF Resting, Sending, Masked, Scanning, Returning, Filling, Changing
<1>3. /\ r.pc \in {"idle", "collect"} => r \in Resting
      /\ r.pc \in {"mask", "miss"} => r \in Sending
      /\ r.pc = "buckets" => r \in Masked
      /\ r.pc \in {"compare", "scan", "hit"} => r \in Scanning
      /\ r.pc = "return" => r \in Returning
      /\ r.pc = "write" /\ r.then = "return" => r \in Filling
      /\ r.pc = "write" /\ r.then # "return" => r \in Changing
  BY <1>1, <1>2
<1> QED BY <1>3 DEF r

\* Who sends a message.
LEMMA SenderShape ==
  ASSUME TypeInv, NEW t \in Thread, thread[t].pc \notin {"idle", "collect"},
         thread[t].pc = "write" => thread[t].then = "return"
  PROVE  thread[t].c \in Class /\ thread[t].s \in SEL /\ thread[t].floor \in Nat
<1> DEFINE r == thread[t]
<1>1. r \in Resting \cup Sending \cup Masked \cup Scanning \cup Returning \cup Filling \cup Changing
  BY DEF TypeInv
<1>2. r \notin Resting /\ r \notin Changing
  BY DEF Resting, Changing
<1> HIDE DEF r
<1>3. r.c \in Class /\ r.s \in SEL /\ r.floor \in Nat
  BY <1>1, <1>2 DEF Sending, Masked, Scanning, Returning, Filling
<1> QED BY <1>3 DEF r

\* What the stores are.
LEMMA StoreShape ==
  ASSUME NEW w \in Store
  PROVE  /\ w.op = "buckets" => w.c \in Class /\ w.b \in Nat
         /\ w.op = "mask" => w.c \in Class /\ w.m \in Nat
         /\ w.op = "imp" => w.b \in Block /\ w.i \in Nat /\ w.imp \in Imp
         /\ w.op = "sel" => w.b \in Block /\ w.i \in Nat /\ w.s \in SEL
         /\ w.op = "collect_free" => w.b \in Block /\ w.size \in Nat
         /\ w.op = "check" => w.who \in SUBSET Thread /\ w.collectALot \in BOOLEAN
         /\ w.op \in {"buckets", "mask", "imp", "sel", "collect_free", "check", "dispose"}
BY DEF Store

LEMMA HolderShape ==
  ASSUME TypeInv, LockInv
  PROVE  /\ holder.todo \in Seq(Store) /\ Len(holder.todo) \in Nat
         /\ DOMAIN holder.todo = 1 .. Len(holder.todo)
         /\ \A k \in DOMAIN holder.todo : holder.todo[k] \in Store
         /\ holder.erase \subseteq Class
         /\ Fills => holder \in Filling /\ holder.erase = {}
         /\ ~Fills /\ runtimeLock # nil => holder \in Changing
<1>1. CASE runtimeLock = nil
  <2>1. holder = Nobody
    BY <1>1 DEF holder
  <2>2. holder.todo = <<>> /\ holder.erase = {} /\ ~Fills
    BY <2>1 DEF Nobody, Fills
  <2> QED BY <1>1, <2>2
<1>2. CASE runtimeLock # nil
  <2>1. PICK t \in Thread : t = runtimeLock /\ holder = thread[t] /\ thread[t].pc = "write"
    BY <1>2 DEF TypeInv, LockInv, holder
  <2>2. Fills => holder \in Filling
    BY <2>1, ThreadShape DEF Fills
  <2>3. ~Fills => holder \in Changing
    BY <2>1, ThreadShape DEF Fills
  <2>4. holder.todo \in Seq(Store) /\ holder.erase \subseteq Class /\ (Fills => holder.erase = {})
    BY <2>2, <2>3 DEF Filling, Changing
  <2> QED BY <2>2, <2>3, <2>4
<1> QED BY <1>1, <1>2

\* A thread that writes is the holder.
LEMMA WriterHolds ==
  ASSUME LockInv, NEW t \in Thread, thread[t].pc = "write"
  PROVE  runtimeLock = t /\ runtimeLock # nil /\ holder = thread[t]
BY Constants DEF LockInv, holder

--------------------------------------------------------------------------------
(* Steps of readers *)

WriterInv == OrderInv /\ BucketsInv /\ StoredMaskInv /\ FreeInv /\ SlotInv
BlockInv  == HeapInv /\ MaskInv /\ CountInv /\ GuaranteedEmptySlot

\* A step of threads without the lock leaves the holder alone.
LEMMA HolderStays ==
  ASSUME TypeInv, LockInv, runtimeLock' = runtimeLock,
         \A t \in Thread : thread[t].pc = "write" => thread'[t] = thread[t]
  PROVE  holder' = holder
BY DEF TypeInv, LockInv, holder, Nobody

LEMMA WriterStays ==
  ASSUME TypeInv, WriterInv, BlockInv, CheckInv, UNCHANGED cache, holder' = holder,
         \A t \in Thread : Reads(t)' => (Reads(t) /\ thread'[t].b = thread[t].b) \/ thread'[t].b \in InUse
  PROVE  WriterInv' /\ BlockInv' /\ CheckInv'
<1>1. /\ heap' = heap /\ buckets' = buckets /\ mask' = mask /\ occupied' = occupied /\ garbage' = garbage
      /\ InUse' = InUse
  BY DEF cache, InUse
<1>2. Fills' = Fills /\ (\A op : Next1(op)' = Next1(op)) /\ (\A c : Switches(c)' = Switches(c) /\ Target(c)' = Target(c))
  BY <1>1 DEF Fills, Next1, Switches, Target
<1>3. OrderInv'
  BY DEF OrderInv, WriterInv
<1>4. Scanned' \subseteq Scanned \cup InUse
  BY DEF Scanned
<1>5. BucketsInv'
  BY <1>1, <1>2, <1>4 DEF BucketsInv, WriterInv
<1>6. StoredMaskInv' /\ FreeInv' /\ SlotInv'
  BY <1>1, <1>2 DEF StoredMaskInv, FreeInv, SlotInv, WriterInv
<1>7. HeapInv' /\ GuaranteedEmptySlot'
  BY <1>1 DEF HeapInv, BlockInv, GuaranteedEmptySlot
<1>8. \A c : MaskPending(c)' = MaskPending(c) /\ SelPending(c)' = SelPending(c)
  BY <1>2 DEF MaskPending, SelPending
<1>9. MaskInv'
  BY <1>1, <1>8 DEF MaskInv, BlockInv
<1>10. \A c, b : Counts(c, b)' = Counts(c, b)
  BY <1>1, <1>8 DEF Counts
<1>11. CountInv'
  BY <1>2, <1>10 DEF CountInv, BlockInv
<1>12. CheckInv'
  <2>1. \A t \in Thread : Reads(t)' /\ thread'[t].b \in garbage => Reads(t) /\ thread'[t].b = thread[t].b
    BY DEF BlockInv, HeapInv
  <2>2. Next1("check")' => \A t \in Thread : Reads(t)' /\ thread'[t].b \in garbage' => t \in holder'.todo[1].who
    BY <1>1, <1>2, <2>1 DEF CheckInv
  <2>3. Next1("dispose")' => Scanned' \cap garbage' = {}
    BY <1>1, <1>2, <1>4 DEF CheckInv, BlockInv, HeapInv
  <2> QED BY <2>2, <2>3 DEF CheckInv
<1> QED BY <1>3, <1>5, <1>6, <1>7, <1>9, <1>11, <1>12 DEF WriterInv, BlockInv

\* A thread without the lock looks at the caches, and newest may grow.
LEMMA ReaderStep ==
  ASSUME IInv, NEW t \in Thread, UNCHANGED <<cache, runtimeLock, methods>>,
         thread[t].pc # "write", thread'[t].pc # "write", TypeInv', MethodsInv',
         \A u \in Thread : u # t => thread'[u] = thread[u],
         Reads(t)' => (Reads(t) /\ thread'[t].b = thread[t].b) \/ thread'[t].b \in InUse,
         ReaderOK(t)', FloorOK(t)',
         \A c \in Class, s \in SEL : newest[c][s] <= newest'[c][s],
         \A c \in Class, s \in SEL, v \in Nat :
           newest[c][s] <= v /\ Shows(c, s, v) => newest'[c][s] <= v /\ Finds(t, c, s, v)'
  PROVE  IInv'
<1>1. heap' = heap /\ buckets' = buckets /\ mask' = mask /\ runtimeLock' = runtimeLock /\ methods' = methods
  BY DEF cache
<1>2. LockInv'
  BY <1>1 DEF IInv, LockInv
<1>3. holder' = holder
  BY <1>1, HolderStays DEF IInv
<1>4. WriterInv' /\ BlockInv' /\ CheckInv'
  <2>1. \A u \in Thread : Reads(u)' => (Reads(u) /\ thread'[u].b = thread[u].b) \/ thread'[u].b \in InUse
    BY DEF Reads
  <2> QED BY <1>3, <2>1, WriterStays DEF IInv, WriterInv, BlockInv
<1>5. ReaderInv'
  <2>1. ASSUME NEW u \in Thread, u # t PROVE ReaderOK(u)' /\ FloorOK(u)'
    <3>1. thread'[u] = thread[u] /\ ReaderOK(u) /\ FloorOK(u)
      BY <2>1 DEF IInv, ReaderInv
    <3>2. ReaderOK(u)'
      BY <1>1, <3>1 DEF ReaderOK, Reads
    <3>3. FloorOK(u)'
      <4>1. SUFFICES ASSUME thread[u].pc \notin {"idle", "collect"}, thread[u].pc = "write" => thread[u].then = "return"
                     PROVE  thread[u].floor <= newest'[thread[u].c][thread[u].s]
        BY <3>1 DEF FloorOK
      <4>2. thread[u].c \in Class /\ thread[u].s \in SEL /\ thread[u].floor \in Nat
        BY <4>1, SenderShape DEF IInv
      <4>3. newest[thread[u].c][thread[u].s] \in Nat /\ newest'[thread[u].c][thread[u].s] \in Nat
        BY <4>2 DEF IInv, TypeInv
      <4> QED BY <3>1, <4>1, <4>2, <4>3 DEF FloorOK
    <3> QED BY <3>2, <3>3
  <2> QED BY <2>1 DEF ReaderInv
<1>6. ShowsInv'
  <2>1. ASSUME NEW c \in Class, NEW s \in SEL
        PROVE  \E v \in (newest[c][s])' .. Effective(c, s)' : Shows(c, s, v)'
    <3>1. PICK v \in newest[c][s] .. Effective(c, s) : Shows(c, s, v)
      BY DEF IInv, ShowsInv
    <3>2. newest[c][s] \in Nat /\ newest'[c][s] \in Nat /\ v \in Nat /\ newest[c][s] <= v /\ v <= Effective(c, s)
      BY <3>1 DEF IInv, TypeInv
    <3>3. newest'[c][s] <= v /\ Finds(t, c, s, v)' /\ Effective(c, s)' = Effective(c, s)
      BY <1>1, <3>1, <3>2 DEF Effective
    <3>4. \A u \in Thread : u # t => Finds(u, c, s, v)'
      BY <1>1, <3>1 DEF Shows, Finds, Reads, Holds
    <3>5. Awaiting' = Awaiting /\ Fills' = Fills
      BY <1>3 DEF Awaiting, Switches, Next1, Fills
    <3>6. Shows(c, s, v)'
      BY <1>1, <1>3, <3>1, <3>3, <3>4, <3>5 DEF Shows, Holds
    <3>7. v \in newest'[c][s] .. Effective(c, s)'
      BY <3>1, <3>2, <3>3
    <3> QED BY <3>6, <3>7
  <2> QED BY <2>1 DEF ShowsInv
<1> QED BY <1>2, <1>4, <1>5, <1>6 DEF IInv, WriterInv, BlockInv

\* A step of one thread in the lookup, with newest as it is.
LEMMA LookupStep ==
  ASSUME IInv, NEW t \in Thread, UNCHANGED <<cache, runtimeLock, methods, newest>>,
         UNCHANGED <<shouldUseRestartableRanges, changes>>, sends' \in Nat,
         NEW r \in Resting \cup Sending \cup Masked \cup Scanning \cup Returning,
         thread[t].pc # "write", thread' = [thread EXCEPT ![t] = r],
         Reads(t)' => (Reads(t) /\ thread'[t].b = thread[t].b) \/ thread'[t].b \in InUse,
         ReaderOK(t)', FloorOK(t)',
         \A c \in Class, s \in SEL, v \in Nat :
           newest[c][s] <= v /\ Shows(c, s, v) => Finds(t, c, s, v)'
  PROVE  IInv'
<1>1. thread \in [Thread -> Resting \cup Sending \cup Masked \cup Scanning \cup Returning \cup Filling \cup Changing]
  BY DEF IInv, TypeInv
<1>2. thread'[t] = r /\ (\A u \in Thread : u # t => thread'[u] = thread[u])
      /\ thread' \in [Thread -> Resting \cup Sending \cup Masked \cup Scanning \cup Returning \cup Filling \cup Changing]
  BY <1>1
<1>3. TypeInv'
  BY <1>2 DEF IInv, TypeInv, cache
<1>4. r.pc # "write"
  BY DEF Resting, Sending, Masked, Scanning, Returning
<1>5. MethodsInv'
  BY DEF IInv, MethodsInv
<1>6. \A c \in Class, s \in SEL : newest[c][s] \in Nat /\ newest'[c][s] = newest[c][s]
  BY DEF IInv, TypeInv
<1>7. /\ \A c \in Class, s \in SEL : newest[c][s] <= newest'[c][s]
      /\ \A c \in Class, s \in SEL, v \in Nat :
           newest[c][s] <= v /\ Shows(c, s, v) => newest'[c][s] <= v /\ Finds(t, c, s, v)'
  BY <1>6
<1> QED BY <1>2, <1>3, <1>4, <1>5, <1>7, ReaderStep

LEMMA SendStep ==
  ASSUME IInv, NEW t \in Thread, NEW c \in Class, NEW s \in SEL, objc_msgSend(t, c, s)
  PROVE  IInv'
<1>1. PICK r : r = [pc |-> "mask", c |-> c, s |-> s, floor |-> newest[c][s]]
  OBVIOUS
<1>2. newest[c][s] \in Nat /\ sends + 1 \in Nat
  BY DEF IInv, TypeInv
<1>3. /\ r \in Sending /\ thread' = [thread EXCEPT ![t] = r] /\ thread[t].pc = "idle"
      /\ UNCHANGED <<cache, runtimeLock, methods, newest, shouldUseRestartableRanges, changes>> /\ sends' = sends + 1
  BY <1>1, <1>2 DEF objc_msgSend, Sending
<1>4. thread'[t] = r /\ r.pc = "mask" /\ r.c = c /\ r.s = s /\ r.floor = newest[c][s]
  BY <1>1, <1>3 DEF IInv, TypeInv
<1>5. ~Reads(t)' /\ ReaderOK(t)' /\ FloorOK(t)' /\ \A d, x, v : Finds(t, d, x, v)'
  BY <1>2, <1>3, <1>4 DEF Reads, ReaderOK, FloorOK, Finds
<1> QED BY <1>2, <1>3, <1>5, LookupStep

\* What a thread in the lookup may rely on.
LEMMA LookupFacts ==
  ASSUME IInv, NEW t \in Thread, thread[t].pc \in {"mask", "buckets", "compare", "scan", "hit"}
  PROVE  /\ thread[t].c \in Class /\ thread[t].s \in SEL /\ thread[t].floor \in Nat
         /\ thread[t].floor <= newest[thread[t].c][thread[t].s]
         /\ mask[thread[t].c] \in Nat /\ buckets[thread[t].c] \in Block \cup {Empty}
         /\ thread[t] \in (IF thread[t].pc = "mask" THEN Sending
                           ELSE IF thread[t].pc = "buckets" THEN Masked ELSE Scanning)
<1>1. thread[t].c \in Class /\ thread[t].s \in SEL /\ thread[t].floor \in Nat
  BY SenderShape DEF IInv
<1>2. thread[t].floor <= newest[thread[t].c][thread[t].s]
  BY DEF IInv, ReaderInv, FloorOK
<1>3. thread[t] \in (IF thread[t].pc = "mask" THEN Sending
                     ELSE IF thread[t].pc = "buckets" THEN Masked ELSE Scanning)
  BY ThreadShape DEF IInv
<1> QED BY <1>1, <1>2, <1>3 DEF IInv, TypeInv

\* A class's buckets, seen by a reader or not.
LEMMA ClassBuckets ==
  ASSUME TypeInv, HeapInv, NEW b \in Block \cup {Empty}, heap[b] # Freed
  PROVE  \E n \in Nat : /\ n > 0 /\ IsBlock(heap[b], n) /\ DOMAIN heap[b].sel = 0 .. n - 1
                        /\ b = Empty \/ IsMarked(heap[b], n)
                        /\ b = Empty => n = MAX_CACHE_SIZE /\ heap[b] = emptyBuckets
<1>1. CASE b = Empty
  BY <1>1, EmptyShape, Constants DEF HeapInv
<1>2. CASE b # Empty
  <2>1. PICK n \in 4 .. MAX_CACHE_SIZE : IsMarked(heap[b], n)
    BY <1>2 DEF HeapInv
  <2> QED BY <1>2, <2>1, MarkedShape
<1> QED BY <1>1, <1>2

LEMMA LoadStep ==
  ASSUME IInv, NEW t \in Thread, Load(t) PROVE IInv'
<1> DEFINE r == thread[t]
<1>1. UNCHANGED <<cache, runtimeLock, methods, newest, limits>>
  BY DEF Load
<1>2. UNCHANGED <<shouldUseRestartableRanges, changes>> /\ sends' \in Nat
  BY <1>1 DEF limits, IInv, TypeInv
<1>3. thread \in [Thread -> Resting \cup Sending \cup Masked \cup Scanning \cup Returning \cup Filling \cup Changing]
  BY DEF IInv, TypeInv
<1>4. CASE r.pc = "mask"
  <2>1. PICK x : x = [pc |-> "buckets", c |-> r.c, s |-> r.s, floor |-> r.floor, m |-> mask[r.c]]
    OBVIOUS
  <2>2. thread' = [thread EXCEPT ![t] = x]
    BY <1>4, <2>1 DEF Load
  <2>3. x \in Masked /\ r.floor <= newest[r.c][r.s] /\ mask[r.c] \in Nat
    BY <1>4, <2>1, LookupFacts DEF Sending, Masked
  <2>4. thread'[t] = x /\ x.pc = "buckets" /\ x.m = mask[x.c] /\ x.floor <= newest[x.c][x.s]
    BY <1>3, <2>1, <2>2, <2>3
  <2>5. ~Reads(t)' /\ ReaderOK(t)' /\ FloorOK(t)' /\ \A d, y, v : Finds(t, d, y, v)'
    BY <1>1, <2>1, <2>3, <2>4 DEF Reads, ReaderOK, FloorOK, Finds, cache
  <2> QED BY <1>1, <1>2, <1>4, <2>2, <2>3, <2>5, LookupStep
<1>5. CASE r.pc = "buckets"
  <2>1. PICK x : x = [pc |-> "compare", c |-> r.c, s |-> r.s, floor |-> r.floor, b |-> buckets[r.c],
                      i |-> r.s % (r.m + 1), wrapped |-> FALSE]
    OBVIOUS
  <2>2. thread' = [thread EXCEPT ![t] = x]
    BY <1>5, <2>1 DEF Load
  <2>3. /\ r \in Masked /\ r.floor <= newest[r.c][r.s] /\ r.c \in Class /\ r.s \in SEL /\ r.floor \in Nat
        /\ mask[r.c] \in Nat /\ buckets[r.c] \in Block \cup {Empty}
    BY <1>5, LookupFacts
  <2>4. r.m \in Nat /\ r.s \in Nat /\ r.m <= mask[r.c]
    BY <1>5, <2>3, Constants DEF Masked, IInv, ReaderInv, ReaderOK
  <2>5. r.s % (r.m + 1) \in 0 .. r.m
    BY <2>4
  <2>6. x \in Scanning
    BY <2>1, <2>3, <2>5 DEF Scanning
  <2>7. thread'[t] = x /\ x.pc = "compare" /\ x.c = r.c /\ x.s = r.s /\ x.floor = r.floor
        /\ x.b = buckets[r.c] /\ x.i = r.s % (r.m + 1)
    BY <1>3, <2>1, <2>2
  <2>8. x.b \in InUse /\ heap[x.b] # Freed
    BY <2>3, <2>7 DEF InUse, IInv, HeapInv
  <2>9. x.i \in DOMAIN heap[x.b].sel
    <3>1. mask[r.c] \in DOMAIN heap[x.b].sel
      BY <2>3, <2>7 DEF IInv, MaskInv
    <3>2. PICK n \in Nat : DOMAIN heap[x.b].sel = 0 .. n - 1
      BY <2>3, <2>7, <2>8, ClassBuckets DEF IInv
    <3> QED BY <2>3, <2>4, <2>5, <2>7, <3>1, <3>2
  <2>10. \A d \in Class : buckets[d] = x.b => d = x.c \/ x.b = Empty
    BY <2>3, <2>7 DEF IInv, HeapInv
  <2>11. ReaderOK(t)' /\ FloorOK(t)'
    BY <1>1, <2>3, <2>7, <2>8, <2>9, <2>10 DEF ReaderOK, FloorOK, Reads, cache
  <2>12. ASSUME NEW c \in Class, NEW s \in SEL, NEW v \in Nat, newest[c][s] <= v, Shows(c, s, v)
         PROVE  Finds(t, c, s, v)'
    <3>1. SUFFICES ASSUME x.c = c, x.s = s PROVE Holds(x.b, s, x.floor, v)'
      BY <2>7 DEF Finds, Reads
    <3>2. x.floor \in Nat /\ newest[c][s] \in Nat /\ x.floor <= newest[c][s]
      BY <2>3, <2>7, <3>1 DEF IInv, TypeInv
    <3>3. v \in x.floor .. v /\ \A u \in v .. v : u = v
      BY <2>12, <3>2
    <3>4. Holds(x.b, s, v, v)
      BY <2>7, <2>12, <3>1 DEF Shows
    <3>5. Holds(x.b, s, x.floor, v)
      BY <3>3, <3>4 DEF Holds
    <3> QED BY <1>1, <3>5 DEF Holds, cache
  <2> QED BY <1>1, <1>2, <1>5, <2>2, <2>6, <2>7, <2>8, <2>11, <2>12, LookupStep
<1> QED BY <1>4, <1>5 DEF Load

\* What a reader in the buckets may rely on.
LEMMA ReadFacts ==
  ASSUME IInv, NEW t \in Thread, Reads(t)
  PROVE  LET r == thread[t] IN
         /\ r \in Scanning /\ r.c \in Class /\ r.s \in SEL /\ r.floor \in Nat
         /\ r.floor <= newest[r.c][r.s] /\ r.b \in Block \cup {Empty}
         /\ heap[r.b] # Freed /\ r.i \in DOMAIN heap[r.b].sel
         /\ (\A c \in Class : buckets[c] = r.b => c = r.c \/ r.b = Empty)
         /\ (r.pc = "hit" => heap[r.b].sel[r.i] = r.s)
         /\ \E n \in Nat : /\ n > 0 /\ IsBlock(heap[r.b], n) /\ DOMAIN heap[r.b].sel = 0 .. n - 1
                           /\ r.b = Empty \/ IsMarked(heap[r.b], n)
                           /\ r.b = Empty => heap[r.b] = emptyBuckets
<1>1. thread[t] \in Scanning
  BY ThreadShape DEF Reads, IInv
<1>2. /\ thread[t].c \in Class /\ thread[t].s \in SEL /\ thread[t].floor \in Nat
      /\ thread[t].floor <= newest[thread[t].c][thread[t].s]
  BY LookupFacts DEF Reads
<1>3. thread[t].b \in Block \cup {Empty}
  BY <1>1 DEF Scanning
<1>4. ReaderOK(t)
  BY DEF IInv, ReaderInv
<1>5. heap[thread[t].b] # Freed
  BY <1>4 DEF ReaderOK
<1>6. \E n \in Nat : /\ n > 0 /\ IsBlock(heap[thread[t].b], n) /\ DOMAIN heap[thread[t].b].sel = 0 .. n - 1
                     /\ thread[t].b = Empty \/ IsMarked(heap[thread[t].b], n)
                     /\ thread[t].b = Empty => heap[thread[t].b] = emptyBuckets
  BY <1>3, <1>5, ClassBuckets DEF IInv
<1> QED BY <1>1, <1>2, <1>3, <1>4, <1>6 DEF ReaderOK

\* A reader goes on in the same block.
LEMMA SameBlockStep ==
  ASSUME IInv, NEW t \in Thread, Reads(t), UNCHANGED <<cache, runtimeLock, methods, newest, limits>>,
         NEW x \in Scanning, thread' = [thread EXCEPT ![t] = x],
         x.c = thread[t].c, x.s = thread[t].s, x.floor = thread[t].floor, x.b = thread[t].b,
         x.i \in DOMAIN heap[x.b].sel, x.pc = "hit" => heap[x.b].sel[x.i] = x.s
  PROVE  IInv'
<1>1. thread'[t] = x /\ x.pc \in {"compare", "scan", "hit"} /\ thread[t].pc # "write"
  BY DEF IInv, TypeInv, Scanning, Reads
<1>2. UNCHANGED <<shouldUseRestartableRanges, changes>> /\ sends' \in Nat
  BY DEF limits, IInv, TypeInv
<1>3. ReaderOK(t)' /\ FloorOK(t)'
  BY <1>1, ReadFacts DEF ReaderOK, FloorOK, Reads, cache
<1>4. ASSUME NEW c \in Class, NEW s \in SEL, NEW v \in Nat, newest[c][s] <= v, Shows(c, s, v)
      PROVE  Finds(t, c, s, v)'
  BY <1>1, <1>4 DEF Shows, Finds, Reads, Holds, cache
<1> QED BY <1>1, <1>2, <1>3, <1>4, LookupStep DEF Reads

LEMMA CompareStep ==
  ASSUME IInv, NEW t \in Thread, Compare(t) PROVE IInv'
<1>1. Reads(t)
  BY DEF Compare, Reads
<1>2. thread[t] \in Scanning /\ thread[t].i \in DOMAIN heap[thread[t].b].sel
  BY <1>1, ReadFacts
<1>3. PICK pc \in {"scan", "hit"} : /\ pc = IF SelAt(thread[t].b, thread[t].i) = thread[t].s THEN "hit" ELSE "scan"
  OBVIOUS
<1>4. PICK x : x = [thread[t] EXCEPT !.pc = pc]
  OBVIOUS
<1>5. thread' = [thread EXCEPT ![t] = x]
  BY <1>3, <1>4 DEF Compare, IInv, TypeInv
<1>6. /\ x \in Scanning /\ x.pc = pc /\ x.c = thread[t].c /\ x.s = thread[t].s /\ x.floor = thread[t].floor
      /\ x.b = thread[t].b /\ x.i = thread[t].i
  BY <1>2, <1>4 DEF Scanning
<1>7. x.pc = "hit" => heap[x.b].sel[x.i] = x.s
  BY <1>2, <1>3, <1>6 DEF SelAt
<1> QED BY <1>1, <1>2, <1>5, <1>6, <1>7, SameBlockStep DEF Compare

\* A reader leaves the lookup.
LEMMA MissStep ==
  ASSUME IInv, NEW t \in Thread, Reads(t), UNCHANGED <<cache, runtimeLock, methods, newest, limits>>,
         thread' = [thread EXCEPT ![t] = Miss(thread[t])]
  PROVE  IInv'
<1>1. PICK x : x = Miss(thread[t])
  OBVIOUS
<1>2. /\ x \in Sending /\ x.pc = "miss" /\ x.c = thread[t].c /\ x.s = thread[t].s /\ x.floor = thread[t].floor
  BY <1>1, ReadFacts DEF Miss, Sending
<1>3. thread'[t] = x /\ thread[t].pc # "write" /\ thread' = [thread EXCEPT ![t] = x]
  BY <1>1 DEF IInv, TypeInv, Reads
<1>4. UNCHANGED <<shouldUseRestartableRanges, changes>> /\ sends' \in Nat
  BY DEF limits, IInv, TypeInv
<1>5. ~Reads(t)' /\ ReaderOK(t)' /\ FloorOK(t)' /\ \A d, y, v : Finds(t, d, y, v)'
  BY <1>2, <1>3, ReadFacts DEF Reads, ReaderOK, FloorOK, Finds
<1> QED BY <1>2, <1>3, <1>4, <1>5, LookupStep

LEMMA ScanOnStep ==
  ASSUME IInv, NEW t \in Thread, ScanOn(t) PROVE IInv'
<1> DEFINE r == thread[t]
           sel == SelAt(r.b, r.i)
<1>1. Reads(t)
  BY DEF ScanOn, Reads
<1>2. r \in Scanning /\ r.i \in DOMAIN heap[r.b].sel /\ sel = heap[r.b].sel[r.i]
  BY <1>1, ReadFacts DEF SelAt
<1>3. PICK n \in Nat : /\ n > 0 /\ DOMAIN heap[r.b].sel = 0 .. n - 1
                       /\ r.b = Empty \/ IsMarked(heap[r.b], n)
                       /\ r.b = Empty => heap[r.b] = emptyBuckets
  BY <1>1, ReadFacts
<1>4. UNCHANGED <<cache, runtimeLock, methods, newest, limits>>
  BY DEF ScanOn
<1>5. CASE sel = 0 \/ (sel = 1 /\ r.wrapped)
  <2>1. thread' = [thread EXCEPT ![t] = Miss(r)]
    BY <1>5 DEF ScanOn
  <2> QED BY <1>1, <1>4, <2>1, MissStep
<1>6. CASE ~(sel = 0 \/ (sel = 1 /\ r.wrapped))
  <2>1. PICK x : x = [r EXCEPT !.pc = "compare", !.i = IF sel = 1 THEN 0 ELSE r.i + 1,
                               !.wrapped = r.wrapped \/ sel = 1]
    OBVIOUS
  <2>2. thread' = [thread EXCEPT ![t] = x]
    BY <1>6, <2>1 DEF ScanOn
  <2>3. sel # 1 => r.i # n - 1
    <3>1. CASE r.b = Empty
      <4>1. r.i \in DOMAIN emptyBuckets.sel /\ sel = emptyBuckets.sel[r.i]
        BY <1>2, <1>3, <3>1
      <4> QED BY <1>6, <4>1, EmptyShape
    <3>2. CASE IsMarked(heap[r.b], n)
      <4>1. n - 1 \in 0 .. n - 1 /\ heap[r.b].sel[n - 1] = 1
        BY <1>3, <3>2, MarkedShape
      <4> QED BY <1>2, <4>1
    <3> QED BY <1>3, <3>1, <3>2
  <2>4. r.i \in 0 .. n - 1 /\ r.i \in Nat /\ r.wrapped \in BOOLEAN
    BY <1>2, <1>3 DEF Scanning
  <2>5. (IF sel = 1 THEN 0 ELSE r.i + 1) \in 0 .. n - 1
    BY <1>3, <2>3, <2>4
  <2>6. (r.wrapped \/ sel = 1) \in BOOLEAN
    BY <2>4
  <2> HIDE DEF sel
  <2>7. /\ x.pc = "compare" /\ x.c = r.c /\ x.s = r.s /\ x.floor = r.floor /\ x.b = r.b
        /\ x.i = IF sel = 1 THEN 0 ELSE r.i + 1
    BY <1>2, <2>1 DEF Scanning
  <2>8. x \in Scanning
    <3>1. PICK k \in Nat : k = IF sel = 1 THEN 0 ELSE r.i + 1
      BY <2>5
    <3>2. PICK w \in BOOLEAN : w = (r.wrapped \/ sel = 1)
      BY <2>6
    <3>3. x = [r EXCEPT !.pc = "compare", !.i = k, !.wrapped = w]
      BY <2>1, <3>1, <3>2
    <3> QED BY <1>2, <3>3 DEF Scanning
  <2> QED BY <1>1, <1>3, <1>4, <2>2, <2>5, <2>7, <2>8, SameBlockStep
<1> QED BY <1>5, <1>6

LEMMA CacheHitStep ==
  ASSUME IInv, NEW t \in Thread, CacheHit(t) PROVE IInv'
<1> DEFINE r == thread[t]
<1>1. Reads(t) /\ r.pc = "hit"
  BY DEF CacheHit, Reads
<1>2. PICK n \in Nat : n > 0 /\ IsBlock(heap[r.b], n) /\ DOMAIN heap[r.b].sel = 0 .. n - 1
  BY <1>1, ReadFacts
<1>3. /\ r.i \in 0 .. n - 1 /\ heap[r.b].sel[r.i] = r.s
      /\ r.c \in Class /\ r.s \in SEL /\ r.floor \in Nat /\ r.floor <= newest[r.c][r.s]
  BY <1>1, <1>2, ReadFacts
<1>4. PICK imp \in Imp : imp = heap[r.b].imp[r.i] /\ imp = ImpAt(r.b, r.i) /\ imp.sel = r.s
  BY <1>2, <1>3, BlockShape DEF ImpAt
<1>5. PICK x : x = Found(r, imp)
  OBVIOUS
<1>6. x \in Returning /\ x.pc = "return" /\ x.c = r.c /\ x.s = r.s /\ x.floor = r.floor /\ x.imp = imp
  BY <1>3, <1>5 DEF Found, Returning
<1>7. thread' = [thread EXCEPT ![t] = x] /\ thread'[t] = x
  BY <1>4, <1>5 DEF CacheHit, IInv, TypeInv
<1>8. UNCHANGED <<cache, runtimeLock, methods, newest>> /\ UNCHANGED <<shouldUseRestartableRanges, changes>>
      /\ sends' \in Nat
  BY DEF CacheHit, limits, IInv, TypeInv
<1>9. ~Reads(t)' /\ ReaderOK(t)' /\ FloorOK(t)'
  BY <1>3, <1>6, <1>7, <1>8 DEF Reads, ReaderOK, FloorOK
<1>10. ASSUME NEW c \in Class, NEW s \in SEL, NEW v \in Nat, newest[c][s] <= v, Shows(c, s, v)
       PROVE  Finds(t, c, s, v)'
  <2>1. SUFFICES ASSUME r.c = c, r.s = s PROVE imp.sel = s /\ imp.version \in r.floor .. v
    BY <1>6, <1>7 DEF Finds, Reads
  <2>2. Holds(r.b, s, r.floor, v)
    BY <1>1, <1>10, <2>1 DEF Shows, Finds
  <2> QED BY <1>2, <1>3, <1>4, <2>1, <2>2 DEF Holds
<1> QED BY <1>1, <1>6, <1>7, <1>8, <1>9, <1>10, LookupStep

LEMMA ReturnStep ==
  ASSUME IInv, NEW t \in Thread, Return(t) PROVE IInv'
<1> DEFINE r == thread[t]
<1>1. r.pc = "return" /\ UNCHANGED <<cache, runtimeLock, methods, limits>>
  BY DEF Return
<1>2. r \in Returning /\ r.c \in Class /\ r.s \in SEL /\ r.imp.version \in Nat
  BY <1>1, ThreadShape DEF IInv, Returning, Imp
<1>3. newest[r.c][r.s] \in Nat /\ newest \in [Class -> [SEL -> Nat]]
  BY <1>2 DEF IInv, TypeInv
<1>4. PICK m \in Nat : /\ m = Max({newest[r.c][r.s], r.imp.version}) /\ m >= newest[r.c][r.s]
                       /\ m \in {newest[r.c][r.s], r.imp.version}
  BY <1>2, <1>3, MaxOfTwo
<1>5. newest' = [newest EXCEPT ![r.c][r.s] = m]
  BY <1>4 DEF Return
<1>6. /\ newest' \in [Class -> [SEL -> Nat]] /\ newest'[r.c][r.s] = m
      /\ \A c \in Class, s \in SEL : c # r.c \/ s # r.s => newest'[c][s] = newest[c][s]
  BY <1>2, <1>3, <1>5
<1>7. thread' = [thread EXCEPT ![t] = Idle] /\ Idle \in Resting /\ Idle.pc = "idle"
  BY DEF Return, Idle, Resting
<1>8. thread'[t] = Idle /\ \A u \in Thread : u # t => thread'[u] = thread[u]
  BY <1>7 DEF IInv, TypeInv
<1>9. TypeInv'
  <2>1. thread' \in [Thread -> Resting \cup Sending \cup Masked \cup Scanning \cup Returning \cup Filling \cup Changing]
    BY <1>7 DEF IInv, TypeInv
  <2> QED BY <1>1, <1>6, <2>1 DEF IInv, TypeInv, cache, limits
<1>10. MethodsInv'
  BY <1>1 DEF IInv, MethodsInv, limits
<1>11. ~Reads(t)' /\ ReaderOK(t)' /\ FloorOK(t)' /\ \A d, y, v : Finds(t, d, y, v)'
  BY <1>7, <1>8 DEF Reads, ReaderOK, FloorOK, Finds
<1>12. \A c \in Class, s \in SEL : newest[c][s] <= newest'[c][s]
  <2>1. \A c \in Class, s \in SEL : newest[c][s] \in Nat
    BY <1>3
  <2> QED BY <1>4, <1>6, <2>1
<1>13. ASSUME NEW c \in Class, NEW s \in SEL, NEW v \in Nat, newest[c][s] <= v, Shows(c, s, v)
       PROVE  newest'[c][s] <= v
  <2>1. CASE c = r.c /\ s = r.s
    <3>1. Finds(t, c, s, v)
      BY <1>13 DEF Shows
    <3>2. r.imp.version \in r.floor .. v
      BY <1>1, <2>1, <3>1 DEF Finds
    <3>3. r.imp.version <= v
      BY <3>2
    <3> QED BY <1>4, <1>6, <1>13, <2>1, <3>3
  <2>2. CASE c # r.c \/ s # r.s
    BY <1>6, <1>13, <2>2
  <2> QED BY <2>1, <2>2
<1> QED BY <1>1, <1>7, <1>8, <1>9, <1>10, <1>11, <1>12, <1>13, ReaderStep

--------------------------------------------------------------------------------
(* Steps of the holder of the lock *)

\* t, which has the lock, has todo left to do.
Moves(t, todo) ==
  thread[t].pc = "write" /\ runtimeLock' = runtimeLock /\ thread' = [thread EXCEPT ![t].todo = todo]

Threads == Resting \cup Sending \cup Masked \cup Scanning \cup Returning \cup Filling \cup Changing

LEMMA MovesFacts ==
  ASSUME TypeInv, LockInv, NEW t \in Thread, NEW todo \in Seq(Store), Moves(t, todo)
  PROVE  /\ holder = thread[t] /\ holder' = thread'[t] /\ LockInv' /\ thread' \in [Thread -> Threads]
         /\ holder'.todo = todo /\ holder'.then = holder.then /\ holder'.erase = holder.erase /\ Fills' = Fills
         /\ Fills => /\ holder'.c = holder.c /\ holder'.s = holder.s /\ holder'.imp = holder.imp
                     /\ holder'.floor = holder.floor
         /\ \A u \in Thread : u # t => thread'[u] = thread[u]
         /\ \A u \in Thread : /\ thread'[u].pc = thread[u].pc /\ Reads(u)' = Reads(u)
                              /\ thread[u].pc # "write" => u # t
         /\ Scanned' = Scanned
<1> DEFINE r == thread[t]
           x == [r EXCEPT !.todo = todo]
<1>1. r.pc = "write" /\ runtimeLock' = runtimeLock
  BY DEF Moves
<1>2. runtimeLock = t /\ runtimeLock # nil /\ holder = r
  BY <1>1, WriterHolds
<1>3. thread \in [Thread -> Threads] /\ thread' = [thread EXCEPT ![t] = x]
  BY DEF TypeInv, Threads, Moves
<1>4. holder' = thread'[t] /\ thread'[t] = x /\ \A u \in Thread : u # t => thread'[u] = thread[u]
  BY <1>1, <1>2, <1>3 DEF holder
<1>5. r \in Filling \cup Changing
  BY <1>1, ThreadShape
<1> HIDE DEF x
<1>6. /\ x \in Filling \cup Changing /\ x.todo = todo /\ x.pc = r.pc /\ x.then = r.then /\ x.erase = r.erase
      /\ r.then = "return" => x.c = r.c /\ x.s = r.s /\ x.imp = r.imp /\ x.floor = r.floor
  <2>1. CASE r \in Filling
    BY <2>1 DEF Filling, x
  <2>2. CASE r \in Changing
    BY <2>2 DEF Changing, x
  <2> QED BY <1>5, <2>1, <2>2
<1>7. Fills' = Fills
  BY <1>2, <1>4, <1>6 DEF Fills
<1>8. \A u \in Thread : thread'[u].pc = thread[u].pc
  BY <1>4, <1>6
<1>9. LockInv'
  BY <1>1, <1>8 DEF LockInv
<1>10. thread' \in [Thread -> Threads]
  BY <1>3, <1>6 DEF Threads
<1>11. \A u \in Thread : Reads(u)' = Reads(u) /\ (Reads(u) => u # t)
  BY <1>1, <1>8 DEF Reads
<1>12. Scanned' = Scanned
  BY <1>4, <1>11 DEF Scanned
<1> QED BY <1>1, <1>2, <1>4, <1>6, <1>7, <1>8, <1>9, <1>10, <1>11, <1>12 DEF Fills

LEMMA TailOf ==
  ASSUME NEW todo \in Seq(Store), todo # <<>>
  PROVE  /\ Head(todo) = todo[1] /\ 1 \in DOMAIN todo /\ todo[1] \in Store
         /\ Tail(todo) \in Seq(Store) /\ <<>> \o Tail(todo) = Tail(todo) /\ Len(Tail(todo)) = Len(todo) - 1
         /\ DOMAIN Tail(todo) = 1 .. Len(Tail(todo)) /\ Len(todo) \in Nat
         /\ \A k \in DOMAIN Tail(todo) : k \in Nat /\ k >= 1 /\ k + 1 \in DOMAIN todo /\ Tail(todo)[k] = todo[k + 1]
         /\ \A k \in DOMAIN todo : k # 1 => k - 1 \in DOMAIN Tail(todo) /\ Tail(todo)[k - 1] = todo[k]
OBVIOUS

\* The order stays when the first store has been made.
LEMMA TailOrder ==
  ASSUME NEW todo \in Seq(Store), todo # <<>>, OrderOK(todo)
  PROVE  /\ OrderOK(Tail(todo))
         /\ \A k \in DOMAIN Tail(todo) :
              /\ Tail(todo)[k].op \notin {"buckets", "check"}
              /\ Tail(todo)[k].op = "mask" => k = 1 /\ todo[1].op = "buckets"
              /\ Tail(todo)[k].op = "dispose" => k = 1 /\ todo[1].op = "check"
              /\ Tail(todo)[k].op = "collect_free" => todo[1].op \in {"buckets", "mask"}
              /\ Tail(todo)[k].op = "sel" /\ k = 1 =>
                   todo[1].op = "imp" /\ todo[1].b = Tail(todo)[1].b /\ todo[1].i = Tail(todo)[1].i
<1> DEFINE s == Tail(todo)
<1>1. /\ Len(s) = Len(todo) - 1 /\ Len(todo) \in Nat /\ DOMAIN todo = 1 .. Len(todo)
      /\ DOMAIN s = 1 .. Len(s)
      /\ \A k \in DOMAIN s : k \in Nat /\ k >= 1 /\ k + 1 \in DOMAIN todo /\ s[k] = todo[k + 1]
      /\ \A k \in DOMAIN todo : k # 1 => k - 1 \in DOMAIN s /\ s[k - 1] = todo[k]
  BY TailOf
<1> HIDE DEF s
<1>2. ASSUME NEW k \in DOMAIN s
      PROVE  /\ s[k].op \notin {"buckets", "check"}
             /\ s[k].op = "mask" => k = 1 /\ todo[1].op = "buckets"
             /\ s[k].op = "dispose" => k = 1 /\ todo[1].op = "check"
             /\ s[k].op = "collect_free" => todo[1].op \in {"buckets", "mask"}
             /\ s[k].op = "sel" /\ k = 1 => todo[1].op = "imp" /\ todo[1].b = s[1].b /\ todo[1].i = s[1].i
  <2>1. PICK j \in DOMAIN todo : j = k + 1
    BY <1>1
  <2>2. k \in Nat /\ k >= 1 /\ s[k] = todo[j] /\ j # 1 /\ (j = 2 <=> k = 1) /\ 1 \in 1 .. j - 1
    BY <1>1, <2>1
  <2>3. /\ todo[j].op \notin {"buckets", "check"}
        /\ todo[j].op = "mask" => j = 2 /\ todo[1].op = "buckets"
        /\ todo[j].op = "dispose" => j = 2 /\ todo[1].op = "check"
        /\ todo[j].op = "collect_free" => todo[1].op \in {"buckets", "mask"}
    BY <2>2 DEF OrderOK
  <2>4. ASSUME s[k].op = "sel", k = 1
        PROVE  todo[1].op = "imp" /\ todo[1].b = s[1].b /\ todo[1].i = s[1].i
    <3>1. todo[j].op = "sel" /\ j - 1 = 1 /\ s[1] = todo[j]
      BY <2>1, <2>2, <2>4
    <3>2. todo[j - 1].op = "imp" /\ todo[j - 1].b = todo[j].b /\ todo[j - 1].i = todo[j].i
      BY <2>2, <3>1 DEF OrderOK
    <3> QED BY <3>1, <3>2
  <2> QED BY <2>2, <2>3, <2>4
<1>3. ASSUME NEW k \in DOMAIN s, s[k].op = "collect_free", NEW j \in 1 .. k - 1
      PROVE  s[j].op \in {"buckets", "mask"}
  <2>1. k + 1 \in DOMAIN todo /\ todo[k + 1].op = "collect_free" /\ k \in Nat /\ k <= Len(s)
    BY <1>1, <1>3
  <2>2. j + 1 \in 1 .. (k + 1) - 1 /\ j \in DOMAIN s
    BY <1>1, <2>1
  <2>3. todo[j + 1].op \in {"buckets", "mask"}
    BY <2>1, <2>2 DEF OrderOK
  <2> QED BY <1>1, <2>2, <2>3
<1>4. ASSUME NEW k \in DOMAIN s, s[k].op = "sel"
      PROVE  k = Len(s) /\ (k # 1 => s[k - 1].op = "imp" /\ s[k - 1].b = s[k].b /\ s[k - 1].i = s[k].i)
  <2>1. k + 1 \in DOMAIN todo /\ todo[k + 1].op = "sel" /\ k \in Nat /\ k >= 1
    BY <1>1, <1>4
  <2>2. k + 1 = Len(todo) /\ todo[k].op = "imp" /\ todo[k].b = todo[k + 1].b /\ todo[k].i = todo[k + 1].i
    BY <2>1 DEF OrderOK
  <2> QED BY <1>1, <2>1, <2>2
<1>5. OrderOK(s)
  BY <1>2, <1>3, <1>4 DEF OrderOK
<1> QED BY <1>2, <1>5 DEF s

\* t has made the store w, the first it had to.
LEMMA StoreMoves ==
  ASSUME IInv, NEW t \in Thread, thread[t].pc = "write", thread[t].todo # <<>>,
         NextWrite(t, <<>>), runtimeLock' = runtimeLock
  PROVE  \E todo \in Seq(Store) :
           /\ todo = Tail(holder.todo) /\ Moves(t, todo) /\ holder = thread[t]
           /\ holder.todo \in Seq(Store) /\ holder.todo # <<>> /\ holder.todo[1] = Head(thread[t].todo)
           /\ holder.todo[1] \in Store /\ 1 \in DOMAIN holder.todo /\ OrderOK(holder.todo)
<1>1. holder = thread[t]
  BY WriterHolds DEF IInv
<1>2. holder.todo \in Seq(Store) /\ OrderOK(holder.todo)
  BY HolderShape DEF IInv, OrderInv
<1>3. /\ Tail(holder.todo) \in Seq(Store) /\ <<>> \o Tail(holder.todo) = Tail(holder.todo)
      /\ Head(holder.todo) = holder.todo[1] /\ holder.todo[1] \in Store /\ 1 \in DOMAIN holder.todo
  BY <1>1, <1>2, TailOf
<1>4. thread' = [thread EXCEPT ![t].todo = <<>> \o Tail(thread[t].todo)]
  BY DEF NextWrite
<1>5. PICK todo \in Seq(Store) : todo = Tail(holder.todo)
  BY <1>3
<1>6. Moves(t, todo)
  BY <1>1, <1>3, <1>4, <1>5 DEF Moves
<1> QED BY <1>1, <1>2, <1>3, <1>5, <1>6

--------------------------------------------------------------------------------
(* What the stores change *)

\* An imp, then its sel, is stored in a free bucket.
LEMMA ImpStored ==
  ASSUME NEW x, NEW n, IsMarked(x, n), NEW i \in DOMAIN x.sel, x.sel[i] = 0, NEW imp \in Imp
  PROVE  LET y == [x EXCEPT !.imp[i] = imp] IN
         IsMarked(y, n) /\ y.sel = x.sel /\ y.imp[i] = imp /\ \A j \in DOMAIN x.sel : j # i => y.imp[j] = x.imp[j]
<1> DEFINE y == [x EXCEPT !.imp[i] = imp]
<1>1. n \in 4 .. MAX_CACHE_SIZE /\ IsBlock(x, n) /\ DOMAIN x.sel = 0 .. n - 1 /\ \A j \in 0 .. n - 1 : x.sel[j] = 1 <=> j = n - 1
  BY MarkedShape DEF IsMarked
<1>2. x = [sel |-> x.sel, imp |-> x.imp] /\ x.imp \in [0 .. n - 1 -> Imp]
  BY <1>1 DEF IsBlock
<1>3. y = [sel |-> x.sel, imp |-> [x.imp EXCEPT ![i] = imp]]
  BY <1>2
<1> HIDE DEF y
<1>4. y.sel = x.sel /\ y.imp = [x.imp EXCEPT ![i] = imp] /\ y = [sel |-> y.sel, imp |-> y.imp]
  BY <1>3
<1>5. y.imp \in [0 .. n - 1 -> Imp] /\ y.imp[i] = imp /\ \A j \in 0 .. n - 1 : j # i => y.imp[j] = x.imp[j]
  BY <1>1, <1>2, <1>4
<1>6. IsBlock(y, n)
  <2>1. \A j \in 0 .. n - 1 : y.sel[j] \in SEL => y.imp[j].sel = y.sel[j]
    BY <1>1, <1>4, <1>5, Constants DEF IsBlock
  <2> QED BY <1>1, <1>4, <1>5, <2>1 DEF IsBlock
<1>7. IsMarked(y, n)
  BY <1>1, <1>4, <1>6 DEF IsMarked
<1> QED BY <1>1, <1>4, <1>5, <1>7 DEF y

LEMMA SelStored ==
  ASSUME NEW x, NEW n, IsMarked(x, n), NEW i \in DOMAIN x.sel, x.sel[i] = 0, NEW s \in SEL, x.imp[i].sel = s
  PROVE  LET y == [x EXCEPT !.sel[i] = s] IN
         /\ IsMarked(y, n) /\ y.imp = x.imp /\ y.sel[i] = s /\ DOMAIN y.sel = DOMAIN x.sel
         /\ \A j \in DOMAIN x.sel : j # i => y.sel[j] = x.sel[j]
         /\ Used(y) = Used(x) \cup {i} /\ i \notin Used(x)
<1> DEFINE y == [x EXCEPT !.sel[i] = s]
<1>1. n \in 4 .. MAX_CACHE_SIZE /\ IsBlock(x, n) /\ DOMAIN x.sel = 0 .. n - 1 /\ \A j \in 0 .. n - 1 : x.sel[j] = 1 <=> j = n - 1
  BY MarkedShape DEF IsMarked
<1>2. x = [sel |-> x.sel, imp |-> x.imp] /\ x.sel \in [0 .. n - 1 -> SEL \cup {0, 1}] /\ x.imp \in [0 .. n - 1 -> Imp]
  BY <1>1 DEF IsBlock
<1>3. y = [sel |-> [x.sel EXCEPT ![i] = s], imp |-> x.imp]
  BY <1>2
<1> HIDE DEF y
<1>4. y.imp = x.imp /\ y.sel = [x.sel EXCEPT ![i] = s] /\ y = [sel |-> y.sel, imp |-> y.imp]
  BY <1>3
<1>5. /\ y.sel \in [0 .. n - 1 -> SEL \cup {0, 1}] /\ y.sel[i] = s /\ DOMAIN y.sel = 0 .. n - 1
      /\ \A j \in 0 .. n - 1 : j # i => y.sel[j] = x.sel[j]
  BY <1>1, <1>2, <1>4
<1>6. IsBlock(y, n)
  <2>1. \A j \in 0 .. n - 1 : y.sel[j] \in SEL => y.imp[j].sel = y.sel[j]
    BY <1>1, <1>4, <1>5 DEF IsBlock
  <2> QED BY <1>1, <1>2, <1>4, <1>5, <2>1 DEF IsBlock
<1>7. s # 0 /\ s # 1
  BY Constants
<1>8. IsMarked(y, n)
  BY <1>1, <1>5, <1>6, <1>7 DEF IsMarked
<1>9. Used(y) = Used(x) \cup {i} /\ i \notin Used(x)
  BY <1>1, <1>5, <1>7 DEF Used
<1> QED BY <1>1, <1>4, <1>5, <1>8, <1>9 DEF y

\* Three quarters of the buckets are not all of them.
LEMMA CountedHasFree ==
  ASSUME NEW x, NEW n, IsMarked(x, n), NEW k \in Nat, k <= (n \div 4) * 3, Cardinality(Used(x)) = k
  PROVE  \E i \in DOMAIN x.sel : x.sel[i] = 0
<1>1. n \in Nat /\ n >= 4 /\ DOMAIN x.sel = 0 .. n - 1
  BY MarkedShape
<1>2. Cardinality(0 .. n - 1) = n
  BY <1>1, FS_Interval
<1>3. PICK q \in Nat : q = n \div 4
  BY <1>1
<1>4. 4 * q <= n /\ q >= 1
  BY <1>1, <1>3
<1>5. k < n
  BY <1>1, <1>3, <1>4
<1>6. Used(x) # 0 .. n - 1
  BY <1>2, <1>5, <1>1
<1> QED BY <1>1, <1>6 DEF Used

\* What readers rely on stays when masks grow, and the blocks they are in keep their sels.
LEMMA ReadersKept ==
  ASSUME TypeInv, LockInv, ReaderInv, newest' = newest, mask' \in [Class -> Nat],
         NEW t \in Thread, ReaderOK(t)', FloorOK(t)',
         \A u \in Thread : u # t => thread'[u] = thread[u],
         \A c \in Class : mask[c] <= mask'[c],
         \A c \in Class : buckets'[c] = buckets[c] \/ buckets'[c] = Empty \/ buckets'[c] \notin Scanned,
         \A b \in Scanned : heap[b] # Freed => /\ heap'[b] # Freed /\ DOMAIN heap'[b].sel = DOMAIN heap[b].sel
                                         /\ \A i \in DOMAIN heap[b].sel : heap[b].sel[i] # 0 => heap'[b].sel[i] = heap[b].sel[i]
  PROVE  ReaderInv'
<1>1. ASSUME NEW u \in Thread, u # t PROVE ReaderOK(u)' /\ FloorOK(u)'
  <2>1. thread'[u] = thread[u] /\ ReaderOK(u) /\ FloorOK(u) /\ Reads(u)' = Reads(u)
    BY <1>1 DEF ReaderInv, Reads
  <2>2. FloorOK(u)'
    BY <2>1 DEF FloorOK
  <2>3. thread[u].pc = "buckets" => thread[u].m <= mask'[thread[u].c]
    <3>1. SUFFICES ASSUME thread[u].pc = "buckets" PROVE thread[u].m <= mask'[thread[u].c]
      OBVIOUS
    <3>2. thread[u].c \in Class /\ thread[u].m \in Nat
      BY <3>1, ThreadShape DEF Masked
    <3>3. mask[thread[u].c] \in Nat /\ mask'[thread[u].c] \in Nat /\ thread[u].m <= mask[thread[u].c]
      BY <2>1, <3>1, <3>2 DEF TypeInv, ReaderOK
    <3> QED BY <3>2, <3>3
  <2>4. ASSUME Reads(u)
        PROVE  /\ heap'[thread[u].b] # Freed /\ thread[u].i \in DOMAIN heap'[thread[u].b].sel
               /\ \A c \in Class : buckets'[c] = thread[u].b => c = thread[u].c \/ thread[u].b = Empty
               /\ thread[u].pc = "hit" => heap'[thread[u].b].sel[thread[u].i] = thread[u].s
    <3>1. thread[u].b \in Scanned /\ thread[u].s \in SEL
      BY <2>4, ThreadShape DEF Scanned, Reads, Scanning
    <3>2. /\ heap[thread[u].b] # Freed /\ thread[u].i \in DOMAIN heap[thread[u].b].sel
          /\ \A c \in Class : buckets[c] = thread[u].b => c = thread[u].c \/ thread[u].b = Empty
          /\ thread[u].pc = "hit" => heap[thread[u].b].sel[thread[u].i] = thread[u].s
      BY <2>1, <2>4 DEF ReaderOK
    <3>3. thread[u].s # 0
      BY <3>1, Constants
    <3> QED BY <3>1, <3>2, <3>3
  <2>5. thread[u].pc = "hit" => Reads(u)
    BY DEF Reads
  <2>6. ReaderOK(u)'
    BY <2>1, <2>3, <2>4, <2>5 DEF ReaderOK
  <2> QED BY <2>2, <2>6
<1> QED BY <1>1 DEF ReaderInv

\* A writer relies on nothing but its floor.
LEMMA WriterFloor ==
  ASSUME IInv, NEW t \in Thread, NEW todo \in Seq(Store), Moves(t, todo), newest' = newest
  PROVE  ReaderOK(t)' /\ FloorOK(t)'
<1>1. thread[t].pc = "write" /\ thread'[t].pc = "write" /\ holder = thread[t] /\ holder' = thread'[t]
  BY MovesFacts DEF IInv, Moves
<1>2. FloorOK(t)
  BY DEF IInv, ReaderInv
<1>3. /\ holder'.then = holder.then
      /\ Fills => holder'.c = holder.c /\ holder'.s = holder.s /\ holder'.floor = holder.floor
  BY MovesFacts DEF IInv
<1>4. FloorOK(t)'
  BY <1>1, <1>2, <1>3 DEF FloorOK, Fills
<1>5. ReaderOK(t)'
  BY <1>1 DEF ReaderOK, Reads
<1> QED BY <1>4, <1>5

LEMMA EffectiveNat ==
  ASSUME TypeInv, MethodsInv, NEW c \in Class, NEW s \in SEL
  PROVE  Effective(c, s) \in Nat /\ Effective(c, s) <= changes + 1
<1>1. CASE methods[c][s] # 0
  BY <1>1 DEF TypeInv, MethodsInv, Effective
<1>2. CASE methods[c][s] = 0
  <2>1. Superclass[c] \in Class
    BY <1>2, ClassAssumption DEF MethodsInv
  <2> QED BY <1>2, <2>1 DEF TypeInv, MethodsInv, Effective
<1> QED BY <1>1, <1>2

\* A version may be taken for a newer one of which a reader has seen nothing.
LEMMA FindsGrow ==
  ASSUME TypeInv, NEW t \in Thread, NEW c, NEW s, NEW v \in Nat, NEW w \in Nat, v <= w, Finds(t, c, s, v)
  PROVE  Finds(t, c, s, w)
<1>1. Reads(t) \/ thread[t].pc = "return" => thread[t].floor \in Nat
  BY SenderShape DEF Reads
<1>2. \A f \in Nat : \A x \in f .. v : x \in f .. w
  OBVIOUS
<1> QED BY <1>1, <1>2 DEF Finds, Holds

\* What is left to do when the first store has been made.
LEMMA AfterStore ==
  ASSUME IInv, NEW t \in Thread, NEW todo \in Seq(Store), Moves(t, todo), todo = Tail(holder.todo),
         holder.todo # <<>>
  PROVE  /\ holder.todo[1] \in Store /\ 1 \in DOMAIN holder.todo /\ OrderInv'
         /\ \A k \in DOMAIN todo :
              /\ todo[k] \in Store /\ todo[k].op \notin {"buckets", "check"}
              /\ todo[k].op = "mask" => k = 1 /\ holder.todo[1].op = "buckets"
              /\ todo[k].op = "dispose" => k = 1 /\ holder.todo[1].op = "check"
              /\ todo[k].op = "collect_free" => holder.todo[1].op \in {"buckets", "mask"}
              /\ todo[k].op = "sel" /\ k = 1 => holder.todo[1].op = "imp" /\ holder.todo[1].b = todo[1].b /\ holder.todo[1].i = todo[1].i
<1>1. holder.todo \in Seq(Store) /\ OrderOK(holder.todo)
  BY HolderShape DEF IInv, OrderInv
<1>2. holder.todo[1] \in Store /\ 1 \in DOMAIN holder.todo /\ \A k \in DOMAIN todo : todo[k] \in Store
  BY <1>1, TailOf
<1>3. /\ OrderOK(todo)
      /\ \A k \in DOMAIN todo :
           /\ todo[k].op \notin {"buckets", "check"}
           /\ todo[k].op = "mask" => k = 1 /\ holder.todo[1].op = "buckets"
           /\ todo[k].op = "dispose" => k = 1 /\ holder.todo[1].op = "check"
           /\ todo[k].op = "collect_free" => holder.todo[1].op \in {"buckets", "mask"}
           /\ todo[k].op = "sel" /\ k = 1 => holder.todo[1].op = "imp" /\ holder.todo[1].b = todo[1].b /\ holder.todo[1].i = todo[1].i
  <2> HIDE DEF OrderOK
  <2> QED BY <1>1, TailOrder
<1>4. holder'.todo = todo
  BY MovesFacts DEF IInv
<1>5. OrderInv'
  BY <1>3, <1>4 DEF OrderInv
<1> QED BY <1>2, <1>3, <1>5

LEMMA AfterStoreSame ==
  ASSUME IInv, NEW t \in Thread, NEW todo \in Seq(Store), Moves(t, todo), todo = Tail(holder.todo), holder.todo # <<>>
  PROVE  /\ \A k \in DOMAIN todo : \E j \in DOMAIN holder.todo : j # 1 /\ todo[k] = holder.todo[j]
         /\ \A k \in DOMAIN holder.todo : k # 1 => k - 1 \in DOMAIN todo /\ todo[k - 1] = holder.todo[k]
<1>1. holder.todo \in Seq(Store) /\ OrderOK(holder.todo)
  BY HolderShape DEF IInv, OrderInv
<1>2. /\ \A k \in DOMAIN todo : k \in Nat /\ k >= 1 /\ k + 1 \in DOMAIN holder.todo /\ todo[k] = holder.todo[k + 1]
      /\ \A k \in DOMAIN holder.todo : k # 1 => k - 1 \in DOMAIN todo /\ todo[k - 1] = holder.todo[k]
  BY <1>1, TailOf
<1>3. ASSUME NEW k \in DOMAIN todo PROVE \E j \in DOMAIN holder.todo : j # 1 /\ todo[k] = holder.todo[j]
  <2>1. k \in Nat /\ k >= 1 /\ k + 1 \in DOMAIN holder.todo /\ todo[k] = holder.todo[k + 1]
    BY <1>2
  <2>2. k + 1 # 1
    BY <2>1
  <2> QED BY <2>1, <2>2
<1> QED BY <1>2, <1>3

LEMMA AfterStoreNext ==
  ASSUME IInv, NEW t \in Thread, NEW todo \in Seq(Store), Moves(t, todo), todo = Tail(holder.todo),
         holder.todo # <<>>, NEW w, w = holder.todo[1]
  PROVE  /\ ~Next1("buckets")' /\ ~Next1("check")' /\ (Next1("dispose")' => w.op = "check")
         /\ Awaiting' = IF Fills THEN {} ELSE holder.erase
         /\ \A c \in Class : Target(c)' = buckets'[c] /\ ~Switches(c)'
<1>1. holder'.todo = todo /\ Fills' = Fills /\ holder'.erase = holder.erase
  BY MovesFacts DEF IInv
<1>2. \A op : Next1(op)' => 1 \in DOMAIN todo /\ todo[1].op = op
  <2>1. todo # <<>> => 1 \in DOMAIN todo
    OBVIOUS
  <2> QED BY <1>1, <2>1 DEF Next1
<1>3. ~Next1("buckets")' /\ ~Next1("check")' /\ (Next1("dispose")' => w.op = "check")
  <2>1. Next1("buckets")' => 1 \in DOMAIN todo /\ todo[1].op = "buckets"
    BY <1>2
  <2>2. Next1("check")' => 1 \in DOMAIN todo /\ todo[1].op = "check"
    BY <1>2
  <2>3. Next1("dispose")' => 1 \in DOMAIN todo /\ todo[1].op = "dispose"
    BY <1>2
  <2>4. \A k \in DOMAIN todo :
              /\ todo[k].op \notin {"buckets", "check"}
              /\ todo[k].op = "dispose" => k = 1 /\ w.op = "check"
    BY AfterStore
  <2> QED BY <2>1, <2>2, <2>3, <2>4
<1>4. \A c : ~Switches(c)' /\ Target(c)' = buckets'[c]
  BY <1>3 DEF Switches, Target
<1>5. Awaiting' = IF Fills THEN {} ELSE holder.erase
  BY <1>1, <1>4 DEF Awaiting
<1> QED BY <1>3, <1>4, <1>5

LEMMA AfterStorePending ==
  ASSUME IInv, NEW t \in Thread, NEW todo \in Seq(Store), Moves(t, todo), todo = Tail(holder.todo),
         holder.todo # <<>>, NEW w, w = holder.todo[1], NEW c \in Class
  PROVE  /\ w.op # "mask" => (MaskPending(c)' <=> MaskPending(c))
         /\ w.op # "sel" => (SelPending(c)' <=> SelPending(c))
         /\ w.op # "buckets" => ~MaskPending(c)'
<1>1. holder'.todo = todo /\ Fills' = Fills /\ (Fills => holder'.c = holder.c)
  BY MovesFacts DEF IInv
<1>2. /\ \A k \in DOMAIN todo : \E j \in DOMAIN holder.todo : j # 1 /\ todo[k] = holder.todo[j]
      /\ \A k \in DOMAIN holder.todo : k # 1 => k - 1 \in DOMAIN todo /\ todo[k - 1] = holder.todo[k]
  BY AfterStoreSame
<1>3. \A k \in DOMAIN todo : todo[k].op = "mask" => w.op = "buckets"
  BY AfterStore
<1>4. MaskPending(c)' => MaskPending(c)
  BY <1>1, <1>2 DEF MaskPending
<1>5. w.op # "mask" => (MaskPending(c) => MaskPending(c)')
  <2>1. SUFFICES ASSUME w.op # "mask", NEW k \in DOMAIN holder.todo, holder.todo[k].op = "mask", holder.todo[k].c = c
                 PROVE  \E j \in DOMAIN todo : todo[j].op = "mask" /\ todo[j].c = c
    BY <1>1 DEF MaskPending
  <2>2. k # 1
    BY <2>1
  <2>3. k - 1 \in DOMAIN todo /\ todo[k - 1] = holder.todo[k]
    BY <1>2, <2>2
  <2> QED BY <2>1, <2>3
<1>6. SelPending(c)' => SelPending(c)
  BY <1>1, <1>2 DEF SelPending
<1>7. w.op # "sel" => (SelPending(c) => SelPending(c)')
  <2>1. SUFFICES ASSUME w.op # "sel", NEW k \in DOMAIN holder.todo, holder.todo[k].op = "sel"
                 PROVE  \E j \in DOMAIN todo : todo[j].op = "sel"
    BY <1>1 DEF SelPending
  <2>2. k # 1
    BY <2>1
  <2>3. k - 1 \in DOMAIN todo /\ todo[k - 1] = holder.todo[k]
    BY <1>2, <2>2
  <2> QED BY <2>1, <2>3
<1>8. w.op # "buckets" => ~MaskPending(c)'
  BY <1>1, <1>3 DEF MaskPending
<1> QED BY <1>4, <1>5, <1>6, <1>7, <1>8

\* A bucket to be filled stays free.
LEMMA SlotKept ==
  ASSUME IInv, NEW todo, holder'.todo = todo, Fills' = Fills,
         Fills => holder'.c = holder.c /\ holder'.s = holder.s /\ holder'.imp = holder.imp,
         \A k \in DOMAIN todo : todo[k].op \in {"imp", "sel"} =>
           (\E j \in DOMAIN holder.todo : todo[k] = holder.todo[j]) /\ (todo[k].op = "sel" => k # 1),
         \A c \in Class : Target(c)' = Target(c) /\ heap'[Target(c)] = heap[Target(c)]
  PROVE  SlotInv'
<1>1. /\ holder'.todo = todo /\ Fills' = Fills
      /\ Fills => holder'.c = holder.c /\ holder'.s = holder.s /\ holder'.imp = holder.imp
  OBVIOUS
<1>2. Fills => holder.c \in Class
  BY HolderShape DEF IInv, Filling
<1>3. ASSUME NEW k \in DOMAIN todo, todo[k].op \in {"imp", "sel"}
      PROVE  /\ Fills /\ todo[k].b = Target(holder.c)'
             /\ todo[k].i \in DOMAIN heap'[todo[k].b].sel /\ heap'[todo[k].b].sel[todo[k].i] = 0
             /\ todo[k].op = "imp" => todo[k].imp = holder'.imp
             /\ todo[k].op = "sel" => todo[k].s = holder'.s
             /\ ~(todo[k].op = "sel" /\ k = 1)
  <2>1. PICK j \in DOMAIN holder.todo : todo[k] = holder.todo[j]
    BY <1>3
  <2>2. /\ Fills /\ todo[k].b = Target(holder.c)
        /\ todo[k].i \in DOMAIN heap[todo[k].b].sel /\ heap[todo[k].b].sel[todo[k].i] = 0
        /\ todo[k].op = "imp" => todo[k].imp = holder.imp
        /\ todo[k].op = "sel" => todo[k].s = holder.s
    BY <1>3, <2>1 DEF IInv, SlotInv
  <2>3. Target(holder.c)' = Target(holder.c) /\ heap'[Target(holder.c)] = heap[Target(holder.c)]
    <3>1. PICK c \in Class : c = holder.c /\ c = holder'.c
      BY <1>1, <1>2, <2>2
    <3> QED BY <3>1
  <2> QED BY <1>1, <1>3, <2>2, <2>3
<1> QED BY <1>1, <1>3 DEF SlotInv

\* The mask is stored.
LEMMA WriteMask ==
  ASSUME IInv, NEW t \in Thread, WriteStore(t), thread[t].todo[1].op = "mask"
  PROVE  IInv'
<1>1. /\ thread[t].pc = "write" /\ thread[t].todo # <<>> /\ runtimeLock' = runtimeLock /\ NextWrite(t, <<>>)
  BY DEF WriteStore, Writing
<1>2. PICK todo \in Seq(Store) :
           /\ todo = Tail(holder.todo) /\ Moves(t, todo) /\ holder = thread[t]
           /\ holder.todo \in Seq(Store) /\ holder.todo # <<>> /\ holder.todo[1] = Head(thread[t].todo)
           /\ holder.todo[1] \in Store /\ 1 \in DOMAIN holder.todo
  BY <1>1, StoreMoves
<1>3. PICK w : w = holder.todo[1]
  OBVIOUS
<1>4. w.op = "mask" /\ w.c \in Class /\ w.m \in Nat /\ w = Head(thread[t].todo)
  BY <1>2, <1>3, StoreShape
<1>5. /\ buckets' = buckets /\ heap' = heap /\ mask' = [mask EXCEPT ![w.c] = w.m]
      /\ UNCHANGED <<occupied, garbage, garbage_size, runtimeLock, methods, newest, limits>>
  BY <1>4 DEF WriteStore
<1>6. /\ holder' = thread'[t] /\ LockInv' /\ thread' \in [Thread -> Threads]
      /\ holder'.todo = todo /\ Fills' = Fills /\ holder'.erase = holder.erase
      /\ Fills => holder'.c = holder.c /\ holder'.s = holder.s /\ holder'.imp = holder.imp
      /\ \A u \in Thread : u # t => thread'[u] = thread[u]
      /\ \A u \in Thread : Reads(u)' = Reads(u) /\ thread'[u].pc = thread[u].pc /\ (Reads(u) \/ thread[u].pc = "return" => u # t)
  BY <1>1, <1>2, MovesFacts DEF IInv, Reads
<1>7. /\ OrderInv' /\ ~Next1("buckets")' /\ ~Next1("check")' /\ ~Next1("dispose")'
      /\ \A k \in DOMAIN todo : \E j \in DOMAIN holder.todo : j # 1 /\ todo[k] = holder.todo[j]
      /\ \A k \in DOMAIN todo : todo[k].op # "mask" /\ (todo[k].op = "sel" => k # 1)
      /\ \A c \in Class : Target(c)' = buckets'[c] /\ (SelPending(c)' <=> SelPending(c)) /\ ~MaskPending(c)'
      /\ Awaiting' = IF Fills THEN {} ELSE holder.erase
  <2>1. OrderInv' /\ \A k \in DOMAIN todo : todo[k].op # "mask" /\ (todo[k].op = "sel" => k # 1)
    BY <1>2, <1>3, <1>4, AfterStore
  <2>2. \A k \in DOMAIN todo : \E j \in DOMAIN holder.todo : j # 1 /\ todo[k] = holder.todo[j]
    BY <1>2, AfterStoreSame
  <2>3. /\ ~Next1("buckets")' /\ ~Next1("check")' /\ ~Next1("dispose")'
        /\ Awaiting' = (IF Fills THEN {} ELSE holder.erase) /\ \A c \in Class : Target(c)' = buckets'[c]
    BY <1>2, <1>3, <1>4, AfterStoreNext
  <2>4. \A c \in Class : (SelPending(c)' <=> SelPending(c)) /\ ~MaskPending(c)'
    BY <1>2, <1>3, <1>4, AfterStorePending
  <2> QED BY <2>1, <2>2, <2>3, <2>4
<1>8. \A c : ~Switches(c) /\ Target(c) = buckets[c]
  BY <1>3, <1>4 DEF Switches, Next1, Target
<1>9. \A c \in Class : c # w.c => ~MaskPending(c)
  <2>1. \A k \in DOMAIN holder.todo : holder.todo[k].op = "mask" => k = 1
    BY <1>3, <1>4 DEF IInv, OrderInv, OrderOK
  <2> QED BY <1>3, <2>1 DEF MaskPending
<1>10. /\ mask[w.c] <= w.m /\ w.m >= 3 /\ w.m \in DOMAIN heap[buckets[w.c]].sel
       /\ buckets[w.c] # Empty => IsMarked(heap[buckets[w.c]], w.m + 1)
  BY <1>2, <1>3, <1>4, <1>8 DEF IInv, StoredMaskInv
<1>11. mask' \in [Class -> Nat] /\ mask'[w.c] = w.m /\ \A c \in Class : c # w.c => mask'[c] = mask[c]
  BY <1>4, <1>5 DEF IInv, TypeInv
<1>12. TypeInv' /\ MethodsInv'
  BY <1>5, <1>6, <1>11 DEF IInv, TypeInv, MethodsInv, limits, Threads
<1>13. WriterInv'
  <2>1. BucketsInv' /\ StoredMaskInv'
    BY <1>6, <1>7 DEF BucketsInv, StoredMaskInv
  <2>2. FreeInv'
    BY <1>3, <1>4, <1>5, <1>6, <1>7 DEF IInv, FreeInv, Next1, InUse
  <2>3. SlotInv'
    BY <1>2, <1>5, <1>6, <1>7, <1>8, SlotKept
  <2> QED BY <1>7, <2>1, <2>2, <2>3 DEF WriterInv
<1>14. CheckInv'
  BY <1>7 DEF CheckInv
<1>15. BlockInv'
  <2>1. HeapInv' /\ GuaranteedEmptySlot'
    BY <1>5 DEF IInv, HeapInv, InUse, GuaranteedEmptySlot
  <2>2. MaskInv'
    BY <1>5, <1>7, <1>9, <1>10, <1>11 DEF IInv, MaskInv
  <2>3. CountInv'
    BY <1>5, <1>7, <1>8 DEF IInv, CountInv, Counts
  <2> QED BY <2>1, <2>2, <2>3 DEF BlockInv
<1>16. ReaderInv'
  <2>1. ReaderOK(t)' /\ FloorOK(t)'
    BY <1>2, <1>5, WriterFloor
  <2>2. \A c \in Class : mask[c] <= mask'[c]
    <3>1. \A c \in Class : mask[c] \in Nat
      BY DEF IInv, TypeInv
    <3> QED BY <1>10, <1>11, <3>1
  <2>3. newest' = newest
    BY <1>5
  <2> QED BY <1>5, <1>6, <1>11, <2>1, <2>2, <2>3, ReadersKept DEF IInv
<1>17. ShowsInv'
  <2>1. \A c \in Class, s \in SEL : newest'[c][s] = newest[c][s] /\ Effective(c, s)' = Effective(c, s)
    BY <1>5 DEF Effective
  <2>2. Awaiting' = Awaiting
    BY <1>7, <1>8 DEF Awaiting
  <2>3. \A u \in Thread : \A c, s, v : Finds(u, c, s, v) => Finds(u, c, s, v)'
    BY <1>5, <1>6 DEF Finds, Holds
  <2>4. \A c \in Class, s \in SEL : \A v : Shows(c, s, v) => Shows(c, s, v)'
    BY <1>5, <1>6, <2>1, <2>2, <2>3 DEF Shows, Holds
  <2> QED BY <2>1, <2>4 DEF IInv, ShowsInv
<1> QED BY <1>6, <1>12, <1>13, <1>14, <1>15, <1>16, <1>17 DEF IInv, WriterInv, BlockInv

\* New buckets are stored: they have nothing to show, and no reader is in them.
LEMMA WriteBuckets ==
  ASSUME IInv, NEW t \in Thread, WriteStore(t), thread[t].todo[1].op = "buckets"
  PROVE  IInv'
<1>1. /\ thread[t].pc = "write" /\ thread[t].todo # <<>> /\ runtimeLock' = runtimeLock /\ NextWrite(t, <<>>)
  BY DEF WriteStore, Writing
<1>2. PICK todo \in Seq(Store) :
           /\ todo = Tail(holder.todo) /\ Moves(t, todo) /\ holder = thread[t]
           /\ holder.todo \in Seq(Store) /\ holder.todo # <<>> /\ holder.todo[1] = Head(thread[t].todo)
           /\ holder.todo[1] \in Store /\ 1 \in DOMAIN holder.todo
  BY <1>1, StoreMoves
<1>3. PICK w : w = holder.todo[1]
  OBVIOUS
<1>4. w.op = "buckets" /\ w.c \in Class /\ w.b \in Nat /\ w = Head(thread[t].todo)
  BY <1>2, <1>3, StoreShape
<1>5. /\ buckets' = [buckets EXCEPT ![w.c] = w.b] /\ heap' = heap /\ mask' = mask
      /\ UNCHANGED <<occupied, garbage, garbage_size, runtimeLock, methods, newest, limits>>
  BY <1>4 DEF WriteStore
<1>6. /\ holder' = thread'[t] /\ LockInv' /\ thread' \in [Thread -> Threads]
      /\ holder'.todo = todo /\ Fills' = Fills /\ holder'.erase = holder.erase
      /\ Fills => holder'.c = holder.c /\ holder'.s = holder.s /\ holder'.imp = holder.imp
      /\ \A u \in Thread : u # t => thread'[u] = thread[u]
      /\ \A u \in Thread : Reads(u)' = Reads(u) /\ thread'[u].pc = thread[u].pc /\ (Reads(u) \/ thread[u].pc = "return" => u # t)
  BY <1>1, <1>2, MovesFacts DEF IInv, Reads
<1>7. /\ OrderInv' /\ ~Next1("buckets")' /\ ~Next1("check")' /\ ~Next1("dispose")'
      /\ \A k \in DOMAIN todo : \E j \in DOMAIN holder.todo : j # 1 /\ todo[k] = holder.todo[j]
      /\ \A k \in DOMAIN todo : todo[k].op = "sel" => k # 1
      /\ \A c \in Class : Target(c)' = buckets'[c] /\ (SelPending(c)' <=> SelPending(c)) /\ (MaskPending(c)' <=> MaskPending(c))
      /\ Awaiting' = IF Fills THEN {} ELSE holder.erase
  <2>1. OrderInv' /\ \A k \in DOMAIN todo : todo[k].op = "sel" => k # 1
    BY <1>2, <1>3, <1>4, AfterStore
  <2>2. \A k \in DOMAIN todo : \E j \in DOMAIN holder.todo : j # 1 /\ todo[k] = holder.todo[j]
    BY <1>2, AfterStoreSame
  <2>3. /\ ~Next1("buckets")' /\ ~Next1("check")' /\ ~Next1("dispose")'
        /\ Awaiting' = (IF Fills THEN {} ELSE holder.erase) /\ \A c \in Class : Target(c)' = buckets'[c]
    BY <1>2, <1>3, <1>4, AfterStoreNext
  <2>4. \A c \in Class : (SelPending(c)' <=> SelPending(c)) /\ (MaskPending(c)' <=> MaskPending(c))
    BY <1>2, <1>3, <1>4, AfterStorePending
  <2> QED BY <2>1, <2>2, <2>3, <2>4
<1>8. /\ Next1("buckets") /\ \A c : (Switches(c) <=> c = w.c)
      /\ Target(w.c) = w.b /\ \A c : c # w.c => Target(c) = buckets[c]
  BY <1>2, <1>3, <1>4 DEF Switches, Next1, Target
<1>9. /\ w.b # Empty => w.b \in Block \ (InUse \cup Scanned \cup garbage)
      /\ \A i \in DOMAIN heap[w.b].sel : heap[w.b].sel[i] \in {0, 1}
      /\ IF Fills THEN w.c = holder.c /\ w.b # Empty ELSE w.b = Empty
  BY <1>3, <1>8 DEF IInv, BucketsInv
<1>10. PICK m \in Nat : /\ mask[w.c] <= m /\ m >= 3 /\ m \in DOMAIN heap[w.b].sel /\ MaskPending(w.c)
                        /\ w.b # Empty => IsMarked(heap[w.b], m + 1)
  <2>1. PICK x : x = holder.todo[2]
    OBVIOUS
  <2>2. 2 \in DOMAIN holder.todo /\ x.op = "mask" /\ x.c = w.c
    BY <1>2, <1>3, <1>4, <2>1 DEF IInv, OrderInv, OrderOK
  <2>3. x \in Store /\ x.m \in Nat
    BY <1>2, <2>1, <2>2, StoreShape
  <2>4. /\ mask[w.c] <= x.m /\ x.m >= 3 /\ x.m \in DOMAIN heap[w.b].sel
        /\ w.b # Empty => IsMarked(heap[w.b], x.m + 1)
    BY <1>8, <2>1, <2>2 DEF IInv, StoredMaskInv
  <2>5. MaskPending(w.c)
    BY <2>1, <2>2 DEF MaskPending
  <2> QED BY <2>3, <2>4, <2>5
<1>11. /\ buckets' \in [Class -> Block \cup {Empty}] /\ buckets'[w.c] = w.b
       /\ \A c \in Class : c # w.c => buckets'[c] = buckets[c]
       /\ \A c \in Class : buckets'[c] = Target(c) /\ Target(c)' = Target(c)
  BY <1>4, <1>5, <1>7, <1>8, <1>9 DEF IInv, TypeInv
<1>12. heap[w.b] # Freed
  BY <1>9, <1>10, MarkedShape, EmptyShape DEF IInv, HeapInv
<1>13. TypeInv' /\ MethodsInv'
  BY <1>5, <1>6, <1>11 DEF IInv, TypeInv, MethodsInv, limits, Threads
<1>14. WriterInv'
  <2>1. BucketsInv'
    BY <1>7 DEF BucketsInv
  <2>2. StoredMaskInv'
    <3>1. ASSUME NEW k \in DOMAIN todo, todo[k].op = "mask"
          PROVE  /\ mask[todo[k].c] <= todo[k].m /\ todo[k].m >= 3
                 /\ todo[k].m \in DOMAIN heap[Target(todo[k].c)].sel
                 /\ Target(todo[k].c) # Empty => IsMarked(heap[Target(todo[k].c)], todo[k].m + 1)
                 /\ todo[k].c \in Class
      <4>1. PICK j \in DOMAIN holder.todo : todo[k] = holder.todo[j]
        BY <1>7
      <4>2. todo[k].c \in Class
        BY <1>2, <3>1, <4>1, StoreShape
      <4> QED BY <3>1, <4>1, <4>2 DEF IInv, StoredMaskInv
    <3>2. \A k \in DOMAIN todo : todo[k].op = "mask" => Target(todo[k].c)' = Target(todo[k].c)
      BY <1>11, <3>1
    <3> QED BY <1>5, <1>6, <3>1, <3>2 DEF StoredMaskInv
  <2>3. FreeInv'
    <3>1. ASSUME NEW k \in DOMAIN todo, todo[k].op = "collect_free"
          PROVE  /\ todo[k].b \notin garbage /\ heap[todo[k].b] # Freed
                 /\ todo[k].b \notin {buckets'[c] : c \in Class}
      <4>1. PICK j \in DOMAIN holder.todo : todo[k] = holder.todo[j]
        BY <1>7
      <4>2. todo[k].b \in Block
        BY <1>2, <3>1, <4>1, StoreShape
      <4>3. todo[k].b \notin garbage /\ heap[todo[k].b] # Freed /\ todo[k].b = buckets[w.c]
        BY <1>3, <1>8, <3>1, <4>1 DEF IInv, FreeInv
      <4>4. w.b # todo[k].b
        BY <1>4, <1>9, <4>2, <4>3, Constants DEF InUse
      <4>5. \A c \in Class : c # w.c => buckets[c] # todo[k].b
        BY <1>4, <4>2, <4>3, Constants DEF IInv, HeapInv
      <4> QED BY <1>11, <4>3, <4>4, <4>5
    <3> QED BY <1>5, <1>6, <1>7, <3>1 DEF FreeInv, InUse
  <2>4. SlotInv'
    <3>1. \A c \in Class : Target(c)' = Target(c) /\ heap'[Target(c)] = heap[Target(c)]
      BY <1>5, <1>11
    <3>2. \A k \in DOMAIN todo : todo[k].op \in {"imp", "sel"} =>
            (\E j \in DOMAIN holder.todo : todo[k] = holder.todo[j]) /\ (todo[k].op = "sel" => k # 1)
      BY <1>7
    <3> QED BY <1>6, <3>1, <3>2, SlotKept
  <2> QED BY <1>7, <2>1, <2>2, <2>3, <2>4 DEF WriterInv
<1>15. CheckInv'
  BY <1>7 DEF CheckInv
<1>16. BlockInv'
  <2>1. HeapInv'
    <3>1. \A c \in Class : heap[buckets'[c]] # Freed /\ buckets'[c] \notin garbage
      <4>1. w.b \notin garbage
        BY <1>9, Constants DEF IInv, TypeInv
      <4> QED BY <1>11, <1>12, <4>1 DEF IInv, HeapInv, InUse
    <3>2. \A c, d \in Class : buckets'[c] = buckets'[d] /\ buckets'[c] # Empty => c = d
      BY <1>9, <1>11 DEF IInv, HeapInv, InUse
    <3>3. InUse' = {buckets'[c] : c \in Class}
      BY DEF InUse
    <3>4. (\A b \in garbage \cup InUse' : heap[b] # Freed) /\ garbage \cap InUse' = {}
      BY <3>1, <3>3 DEF IInv, HeapInv
    <3> QED BY <1>5, <3>2, <3>4 DEF IInv, HeapInv
  <2>2. MaskInv'
    <3>1. mask[w.c] \in DOMAIN heap[w.b].sel
      <4>1. PICK n \in Nat : DOMAIN heap[w.b].sel = 0 .. n - 1
        <5>1. w.b \in Block \cup {Empty}
          BY <1>9
        <5> QED BY <1>12, <5>1, ClassBuckets DEF IInv
      <4>2. mask[w.c] \in Nat
        BY <1>4 DEF IInv, TypeInv
      <4> QED BY <1>10, <4>1, <4>2
    <3>2. \A c \in Class : mask[c] \in DOMAIN heap[buckets'[c]].sel
      BY <1>11, <3>1 DEF IInv, MaskInv
    <3>3. \A c \in Class : buckets'[c] # Empty /\ ~MaskPending(c)' => IsMarked(heap[buckets'[c]], mask[c] + 1)
      BY <1>7, <1>10, <1>11 DEF IInv, MaskInv
    <3> QED BY <1>5, <3>2, <3>3 DEF IInv, MaskInv
  <2>3. CountInv'
    <3>1. \A c \in Class : Counts(c, Target(c))
      BY DEF IInv, CountInv
    <3>2. \A c \in Class : Counts(c, Target(c))'
      BY <1>5, <1>7, <1>11, <3>1 DEF Counts
    <3> QED BY <3>2 DEF CountInv
  <2>4. GuaranteedEmptySlot'
    <3>1. ASSUME w.b = Empty PROVE \E i \in DOMAIN heap[w.b].sel : heap[w.b].sel[i] = 0
      BY <1>10, <3>1, EmptyShape DEF IInv, HeapInv
    <3>2. ASSUME w.b # Empty PROVE \E i \in DOMAIN heap[w.b].sel : heap[w.b].sel[i] = 0
      <4>1. Counts(w.c, w.b)
        BY <1>4, <1>8 DEF IInv, CountInv
      <4>2. IsMarked(heap[w.b], m + 1)
        BY <1>10, <3>2
      <4>3. Size(heap[w.b]) = m + 1 /\ occupied[w.c] \in Nat
        BY <1>4, <4>2, MarkedShape DEF IInv, TypeInv
      <4>4. PICK k \in Nat : k = Cardinality(Used(heap[w.b])) /\ k <= ((m + 1) \div 4) * 3
        BY <3>2, <4>1, <4>3 DEF Counts, CACHE_END_MARKER
      <4> QED BY <4>2, <4>4, CountedHasFree
    <3> QED BY <1>5, <1>11, <3>1, <3>2 DEF IInv, GuaranteedEmptySlot
  <2> QED BY <2>1, <2>2, <2>3, <2>4 DEF BlockInv
<1>17. ReaderInv'
  <2>1. ReaderOK(t)' /\ FloorOK(t)'
    BY <1>2, <1>5, WriterFloor
  <2>2. \A c \in Class : mask[c] <= mask'[c]
    BY <1>5 DEF IInv, TypeInv
  <2>3. newest' = newest /\ mask' \in [Class -> Nat]
    BY <1>5 DEF IInv, TypeInv
  <2>4. \A c \in Class : buckets'[c] = buckets[c] \/ buckets'[c] = Empty \/ buckets'[c] \notin Scanned
    BY <1>9, <1>11
  <2> QED BY <1>5, <1>6, <2>1, <2>2, <2>3, <2>4, ReadersKept DEF IInv
<1>18. ShowsInv'
  <2>1. \A c \in Class, s \in SEL : newest'[c][s] = newest[c][s] /\ Effective(c, s)' = Effective(c, s)
    BY <1>5 DEF Effective
  <2>2. Awaiting' \subseteq Awaiting /\ \A c \in Awaiting : c \in Awaiting' \/ (c = w.c /\ ~Fills)
    BY <1>7, <1>8 DEF Awaiting
  <2>3. \A u \in Thread : \A c, s, v : Finds(u, c, s, v) => Finds(u, c, s, v)'
    BY <1>5, <1>6 DEF Finds, Holds
  <2>4. \A s \in SEL : \A v : Holds(w.b, s, v, v)
    BY <1>9, Constants DEF Holds
  <2>5. ASSUME NEW c \in Class, NEW s \in SEL
        PROVE  \E v \in newest[c][s] .. Effective(c, s) : Shows(c, s, v)'
    <3>1. PICK v \in newest[c][s] .. Effective(c, s) : Shows(c, s, v)
      BY DEF IInv, ShowsInv
    <3>2. CASE c # w.c \/ Fills
      <4>1. c \notin Awaiting' => v = Effective(c, s)'
        BY <2>1, <2>2, <3>1, <3>2 DEF Shows
      <4>2. Holds(buckets'[c], s, v, v)
        BY <1>11, <2>4, <3>1 DEF Shows
      <4>3. Holds(buckets[c], s, v, v)'
        BY <1>5, <4>2 DEF Holds
      <4> QED BY <1>6, <2>3, <3>1, <4>1, <4>3 DEF Shows
    <3>3. CASE c = w.c /\ ~Fills
      <4>1. PICK e \in Nat : e = Effective(c, s)
        BY EffectiveNat DEF IInv
      <4>2. newest[c][s] \in Nat /\ v \in Nat /\ v <= e /\ e \in newest[c][s] .. Effective(c, s)
        BY <3>1, <4>1 DEF IInv, TypeInv
      <4>3. \A u \in Thread : Finds(u, c, s, e)
        BY <3>1, <4>2, FindsGrow DEF Shows, IInv
      <4>4. Holds(buckets'[c], s, e, e)
        BY <1>11, <2>4, <3>3
      <4>5. Holds(buckets[c], s, e, e)'
        BY <1>5, <4>4 DEF Holds
      <4>6. Shows(c, s, e)'
        BY <1>6, <2>1, <2>3, <3>3, <4>1, <4>3, <4>5 DEF Shows
      <4> QED BY <4>2, <4>6
    <3> QED BY <3>2, <3>3
  <2> QED BY <2>1, <2>5 DEF ShowsInv
<1> QED BY <1>6, <1>13, <1>14, <1>15, <1>16, <1>17, <1>18 DEF IInv, WriterInv, BlockInv

\* A store in a bucket of the cache of the holder's class.
LEMMA StoreInSlot ==
  ASSUME IInv, holder.todo # <<>>, NEW w, w = holder.todo[1], w.op \in {"imp", "sel"}
  PROVE  /\ Fills /\ holder.c \in Class /\ holder.s \in SEL /\ holder.imp \in Imp
         /\ w.b \in Block /\ w.b = buckets[holder.c] /\ heap[w.b] # Freed
         /\ \E n \in Nat : IsMarked(heap[w.b], n)
         /\ w.i \in DOMAIN heap[w.b].sel /\ heap[w.b].sel[w.i] = 0
         /\ w.op = "imp" => w.imp = holder.imp
         /\ w.op = "sel" => w.s = holder.s /\ heap[w.b].imp[w.i] = holder.imp
         /\ \A c : ~Switches(c) /\ Target(c) = buckets[c]
         /\ \A c \in Class : buckets[c] = w.b => c = holder.c
<1>1. 1 \in DOMAIN holder.todo /\ w \in Store
  BY HolderShape DEF IInv
<1>2. w.b \in Block
  BY <1>1, StoreShape
<1>3. \A c : ~Switches(c) /\ Target(c) = buckets[c]
  BY DEF Switches, Next1, Target
<1>4. /\ Fills /\ w.b = Target(holder.c) /\ w.i \in DOMAIN heap[w.b].sel /\ heap[w.b].sel[w.i] = 0
      /\ w.op = "imp" => w.imp = holder.imp
      /\ w.op = "sel" => w.s = holder.s /\ heap[w.b].imp[w.i] = holder.imp
  BY <1>1 DEF IInv, SlotInv
<1>5. holder.c \in Class /\ holder.s \in SEL /\ holder.imp \in Imp
  BY <1>4, HolderShape DEF IInv, Filling
<1>6. w.b = buckets[holder.c] /\ w.b # Empty
  BY <1>2, <1>3, <1>4, Constants
<1>7. heap[w.b] # Freed /\ \A c \in Class : buckets[c] = w.b => c = holder.c
  BY <1>5, <1>6 DEF IInv, HeapInv, InUse
<1>8. \E n \in Nat : IsMarked(heap[w.b], n)
  <2>1. PICK n \in 4 .. MAX_CACHE_SIZE : IsMarked(heap[w.b], n)
    BY <1>2, <1>7 DEF IInv, HeapInv
  <2> QED BY <2>1, MarkedShape
<1> QED BY <1>1, <1>2, <1>3, <1>4, <1>5, <1>6, <1>7, <1>8

\* The imp is stored in a free bucket: nobody sees it.
LEMMA WriteImp ==
  ASSUME IInv, NEW t \in Thread, WriteStore(t), thread[t].todo[1].op = "imp"
  PROVE  IInv'
<1>1. /\ thread[t].pc = "write" /\ thread[t].todo # <<>> /\ runtimeLock' = runtimeLock /\ NextWrite(t, <<>>)
  BY DEF WriteStore, Writing
<1>2. PICK todo \in Seq(Store) :
           /\ todo = Tail(holder.todo) /\ Moves(t, todo) /\ holder = thread[t]
           /\ holder.todo \in Seq(Store) /\ holder.todo # <<>> /\ holder.todo[1] = Head(thread[t].todo)
           /\ holder.todo[1] \in Store /\ 1 \in DOMAIN holder.todo
  BY <1>1, StoreMoves
<1>3. PICK w : w = holder.todo[1]
  OBVIOUS
<1>4. w.op = "imp" /\ w = Head(thread[t].todo)
  BY <1>2, <1>3
<1>5. /\ buckets' = buckets /\ mask' = mask /\ heap' = [heap EXCEPT ![w.b].imp[w.i] = w.imp]
      /\ UNCHANGED <<occupied, garbage, garbage_size, runtimeLock, methods, newest, limits>>
  BY <1>4 DEF WriteStore
<1>6. /\ holder' = thread'[t] /\ LockInv' /\ thread' \in [Thread -> Threads]
      /\ holder'.todo = todo /\ Fills' = Fills /\ holder'.erase = holder.erase
      /\ Fills => holder'.c = holder.c /\ holder'.s = holder.s /\ holder'.imp = holder.imp
      /\ \A u \in Thread : u # t => thread'[u] = thread[u]
      /\ \A u \in Thread : Reads(u)' = Reads(u) /\ thread'[u].pc = thread[u].pc /\ (Reads(u) \/ thread[u].pc = "return" => u # t)
  BY <1>1, <1>2, MovesFacts DEF IInv, Reads
<1>7. /\ OrderInv' /\ ~Next1("buckets")' /\ ~Next1("check")' /\ ~Next1("dispose")'
      /\ \A k \in DOMAIN todo : \E j \in DOMAIN holder.todo : j # 1 /\ todo[k] = holder.todo[j]
      /\ \A k \in DOMAIN todo : /\ todo[k].op \notin {"mask", "collect_free"}
                                /\ todo[k].op = "sel" /\ k = 1 => w.b = todo[1].b /\ w.i = todo[1].i
      /\ \A c \in Class : Target(c)' = buckets'[c] /\ (SelPending(c)' <=> SelPending(c)) /\ (MaskPending(c)' <=> MaskPending(c))
      /\ Awaiting' = IF Fills THEN {} ELSE holder.erase
  <2>1. /\ OrderInv'
        /\ \A k \in DOMAIN todo : /\ todo[k].op \notin {"mask", "collect_free"}
                                  /\ todo[k].op = "sel" /\ k = 1 => w.b = todo[1].b /\ w.i = todo[1].i
    BY <1>2, <1>3, <1>4, AfterStore
  <2>2. \A k \in DOMAIN todo : \E j \in DOMAIN holder.todo : j # 1 /\ todo[k] = holder.todo[j]
    BY <1>2, AfterStoreSame
  <2>3. /\ ~Next1("buckets")' /\ ~Next1("check")' /\ ~Next1("dispose")'
        /\ Awaiting' = (IF Fills THEN {} ELSE holder.erase) /\ \A c \in Class : Target(c)' = buckets'[c]
    BY <1>2, <1>3, <1>4, AfterStoreNext
  <2>4. \A c \in Class : (SelPending(c)' <=> SelPending(c)) /\ (MaskPending(c)' <=> MaskPending(c))
    BY <1>2, <1>3, <1>4, AfterStorePending
  <2> QED BY <2>1, <2>2, <2>3, <2>4
<1>8. /\ Fills /\ holder.c \in Class /\ holder.s \in SEL /\ holder.imp \in Imp
      /\ w.b \in Block /\ w.b = buckets[holder.c] /\ heap[w.b] # Freed
      /\ w.i \in DOMAIN heap[w.b].sel /\ heap[w.b].sel[w.i] = 0 /\ w.imp = holder.imp
      /\ \A c : ~Switches(c) /\ Target(c) = buckets[c]
  BY <1>2, <1>3, <1>4, StoreInSlot
<1>9. PICK n \in Nat : IsMarked(heap[w.b], n)
  BY <1>2, <1>3, <1>4, StoreInSlot
<1>10. DOMAIN heap = Block \cup {Empty}
  BY DEF IInv, TypeInv
<1>11. /\ DOMAIN heap' = Block \cup {Empty}
       /\ heap'[w.b] = [heap[w.b] EXCEPT !.imp[w.i] = w.imp]
       /\ \A b \in Block \cup {Empty} : b # w.b => heap'[b] = heap[b]
  BY <1>5, <1>8, <1>10
<1>12. \A m : IsMarked(heap[w.b], m) => IsMarked(heap'[w.b], m)
  BY <1>8, <1>11, ImpStored
<1>13. /\ heap'[w.b].sel = heap[w.b].sel /\ heap'[w.b].imp[w.i] = w.imp
       /\ \A j \in DOMAIN heap[w.b].sel : j # w.i => heap'[w.b].imp[j] = heap[w.b].imp[j]
  <2>1. PICK x, i, e : x = heap[w.b] /\ i = w.i /\ e = w.imp
    OBVIOUS
  <2>2. PICK y : y = [x EXCEPT !.imp[i] = e]
    OBVIOUS
  <2>3. y = heap'[w.b] /\ i \in DOMAIN x.sel /\ x.sel[i] = 0 /\ e \in Imp /\ IsMarked(x, n)
    BY <1>8, <1>9, <1>11, <2>1, <2>2
  <2>4. y.sel = x.sel /\ y.imp[i] = e /\ \A j \in DOMAIN x.sel : j # i => y.imp[j] = x.imp[j]
    <3>1. DOMAIN x.sel = 0 .. n - 1 /\ IsBlock(x, n)
      BY <2>3, MarkedShape
    <3>2. x = [sel |-> x.sel, imp |-> x.imp] /\ x.imp \in [0 .. n - 1 -> Imp]
      BY <3>1 DEF IsBlock
    <3> QED BY <2>2, <2>3, <3>1, <3>2
  <2> QED BY <2>1, <2>3, <2>4
<1>14. /\ \A b \in Block \cup {Empty} : heap'[b].sel = heap[b].sel
       /\ \A b \in Block \cup {Empty} : \A m : IsMarked(heap[b], m) => IsMarked(heap'[b], m)
       /\ \A b \in Block \cup {Empty} : heap'[b] = Freed <=> heap[b] = Freed
  <2>1. IsMarked(heap'[w.b], n) /\ heap'[w.b] # Freed
    BY <1>9, <1>12, MarkedShape
  <2> QED BY <1>8, <1>11, <1>12, <1>13, <2>1
<1>15. \A b \in Block \cup {Empty}, s \in SEL : \A lo, hi : Holds(b, s, lo, hi) => Holds(b, s, lo, hi)'
  <2>1. ASSUME NEW b \in Block \cup {Empty}, NEW s \in SEL, NEW lo, NEW hi, Holds(b, s, lo, hi),
               NEW i \in DOMAIN heap'[b].sel, heap'[b].sel[i] = s
        PROVE  heap'[b].imp[i].version \in lo .. hi
    <3>1. i \in DOMAIN heap[b].sel /\ heap[b].sel[i] = s /\ heap[b].imp[i].version \in lo .. hi
      BY <1>14, <2>1 DEF Holds
    <3>2. b = w.b => i # w.i
      BY <1>8, <3>1, Constants
    <3>3. heap'[b].imp[i] = heap[b].imp[i]
      BY <1>11, <1>13, <3>1, <3>2
    <3> QED BY <3>1, <3>3
  <2> QED BY <2>1 DEF Holds
<1>16. buckets \in [Class -> Block \cup {Empty}] /\ Scanned \subseteq Block \cup {Empty}
  <2>1. \A u \in Thread : Reads(u) => thread[u].b \in Block \cup {Empty}
    BY ReadFacts
  <2> QED BY <2>1 DEF IInv, TypeInv, Scanned
<1>17. TypeInv' /\ MethodsInv'
  BY <1>5, <1>6, <1>11 DEF IInv, TypeInv, MethodsInv, limits, Threads
<1>18. WriterInv'
  <2>1. BucketsInv' /\ StoredMaskInv' /\ FreeInv'
    <3>1. \A k \in DOMAIN todo : todo[k].op # "mask" /\ todo[k].op # "collect_free"
      BY <1>2, <1>3, <1>4, AfterStore
    <3>2. BucketsInv'
      BY <1>7 DEF BucketsInv
    <3> QED BY <1>6, <3>1, <3>2 DEF StoredMaskInv, FreeInv
  <2>2. SlotInv'
    <3>1. Target(holder.c)' = w.b
      BY <1>5, <1>6, <1>7, <1>8
    <3>2. ASSUME NEW k \in DOMAIN todo, todo[k].op \in {"imp", "sel"}
          PROVE  /\ todo[k].b = w.b /\ todo[k].i \in DOMAIN heap'[w.b].sel /\ heap'[w.b].sel[todo[k].i] = 0
                 /\ todo[k].op = "imp" => todo[k].imp = holder.imp
                 /\ todo[k].op = "sel" => todo[k].s = holder.s
      <4>1. PICK j \in DOMAIN holder.todo : todo[k] = holder.todo[j]
        BY <1>7
      <4>2. /\ todo[k].b = Target(holder.c) /\ todo[k].i \in DOMAIN heap[todo[k].b].sel /\ heap[todo[k].b].sel[todo[k].i] = 0
            /\ todo[k].op = "imp" => todo[k].imp = holder.imp
            /\ todo[k].op = "sel" => todo[k].s = holder.s
        BY <3>2, <4>1 DEF IInv, SlotInv
      <4> QED BY <1>8, <1>13, <4>2
    <3>3. \A k \in DOMAIN todo : todo[k].op = "sel" /\ k = 1 => heap'[w.b].imp[todo[k].i] = holder.imp
      BY <1>7, <1>8, <1>13
    <3> QED BY <1>6, <1>8, <3>1, <3>2, <3>3 DEF SlotInv
  <2> QED BY <1>7, <2>1, <2>2 DEF WriterInv
<1>19. CheckInv'
  BY <1>7 DEF CheckInv
<1>20. BlockInv'
  <2>1. HeapInv'
    <3>1. heap'[Empty] = emptyBuckets
      BY <1>8, <1>11, Constants DEF IInv, HeapInv
    <3>2. ASSUME NEW b \in Block PROVE heap'[b] = Freed \/ \E m \in 4 .. MAX_CACHE_SIZE : IsMarked(heap'[b], m)
      <4>1. heap[b] = Freed \/ \E m \in 4 .. MAX_CACHE_SIZE : IsMarked(heap[b], m)
        BY DEF IInv, HeapInv
      <4> QED BY <1>14, <4>1
    <3>3. \A b \in garbage \cup InUse : heap'[b] # Freed
      <4>1. garbage \subseteq Block /\ InUse \subseteq Block \cup {Empty}
        BY <1>16 DEF IInv, TypeInv, InUse
      <4>2. \A b \in garbage \cup InUse : heap[b] # Freed
        BY DEF IInv, HeapInv
      <4> QED BY <1>14, <4>1, <4>2
    <3> QED BY <1>5, <3>1, <3>2, <3>3 DEF IInv, HeapInv, InUse
  <2>2. MaskInv'
    <3>1. ASSUME NEW c \in Class
          PROVE  /\ mask[c] \in DOMAIN heap'[buckets[c]].sel /\ (mask[c] = 0 \/ mask[c] >= 3)
                 /\ buckets[c] # Empty /\ ~MaskPending(c)' => IsMarked(heap'[buckets[c]], mask[c] + 1)
      <4>1. buckets[c] \in Block \cup {Empty} /\ heap'[buckets[c]].sel = heap[buckets[c]].sel
        BY <1>14, <1>16
      <4>2. /\ mask[c] \in DOMAIN heap[buckets[c]].sel /\ (mask[c] = 0 \/ mask[c] >= 3)
            /\ buckets[c] # Empty /\ ~MaskPending(c) => IsMarked(heap[buckets[c]], mask[c] + 1)
        BY DEF IInv, MaskInv
      <4> QED BY <1>7, <1>14, <4>1, <4>2
    <3> QED BY <1>5, <3>1 DEF MaskInv
  <2>3. CountInv'
    <3>1. \A c \in Class : Counts(c, buckets[c])
      BY <1>8 DEF IInv, CountInv
    <3>2. \A c \in Class : Used(heap'[buckets[c]]) = Used(heap[buckets[c]]) /\ Size(heap'[buckets[c]]) = Size(heap[buckets[c]])
      BY <1>14, <1>16 DEF Used, Size
    <3>3. \A c \in Class : Counts(c, Target(c))'
      BY <1>5, <1>7, <3>1, <3>2 DEF Counts
    <3> QED BY <3>3 DEF CountInv
  <2>4. GuaranteedEmptySlot'
    BY <1>5, <1>14, <1>16 DEF IInv, GuaranteedEmptySlot
  <2> QED BY <2>1, <2>2, <2>3, <2>4 DEF BlockInv
<1>21. ReaderInv'
  <2>1. ReaderOK(t)' /\ FloorOK(t)'
    BY <1>2, <1>5, WriterFloor
  <2>2. \A c \in Class : mask[c] <= mask'[c]
    BY <1>5 DEF IInv, TypeInv
  <2>3. newest' = newest /\ mask' \in [Class -> Nat]
    BY <1>5 DEF IInv, TypeInv
  <2>4. \A b \in Scanned : heap[b] # Freed => /\ heap'[b] # Freed /\ DOMAIN heap'[b].sel = DOMAIN heap[b].sel
                                              /\ \A i \in DOMAIN heap[b].sel : heap[b].sel[i] # 0 => heap'[b].sel[i] = heap[b].sel[i]
    BY <1>14, <1>16
  <2>5. \A c \in Class : buckets'[c] = buckets[c]
    BY <1>5
  <2> QED BY <1>6, <2>1, <2>2, <2>3, <2>4, <2>5, ReadersKept DEF IInv
<1>22. ShowsInv'
  <2>1. \A c \in Class, s \in SEL : newest'[c][s] = newest[c][s] /\ Effective(c, s)' = Effective(c, s)
    BY <1>5 DEF Effective
  <2>2. Awaiting' = Awaiting
    BY <1>7, <1>8 DEF Awaiting
  <2>3. ASSUME NEW u \in Thread, NEW c, NEW s \in SEL, NEW v, Finds(u, c, s, v) PROVE Finds(u, c, s, v)'
    <3>1. Reads(u) => thread[u].b \in Block \cup {Empty}
      BY ReadFacts
    <3>2. Reads(u) /\ thread[u].c = c /\ thread[u].s = s => Holds(thread[u].b, s, thread[u].floor, v)'
      <4>1. SUFFICES ASSUME Reads(u), thread[u].c = c, thread[u].s = s
                     PROVE  Holds(thread[u].b, s, thread[u].floor, v)'
        OBVIOUS
      <4>2. PICK b, lo : /\ b = thread[u].b /\ lo = thread[u].floor /\ b = thread'[u].b /\ lo = thread'[u].floor
                         /\ b \in Block \cup {Empty}
        BY <1>6, <3>1, <4>1
      <4>3. Holds(b, s, lo, v)'
        BY <1>15, <2>3, <4>1, <4>2 DEF Finds
      <4> QED BY <4>2, <4>3 DEF Holds
    <3> QED BY <1>6, <2>3, <3>2 DEF Finds
  <2>4. \A c \in Class, s \in SEL : \A v : Shows(c, s, v) => Shows(c, s, v)'
    <3>1. \A c \in Class, s \in SEL : \A v : Holds(buckets[c], s, v, v) => Holds(buckets[c], s, v, v)'
      <4>1. ASSUME NEW c \in Class, NEW s \in SEL, NEW v, Holds(buckets[c], s, v, v) PROVE Holds(buckets[c], s, v, v)'
        <5>1. PICK b \in Block \cup {Empty} : b = buckets[c] /\ b = buckets'[c]
          BY <1>5, <1>16
        <5>2. Holds(b, s, v, v)'
          BY <1>15, <4>1, <5>1
        <5> QED BY <5>1, <5>2 DEF Holds
      <4> QED BY <4>1
    <3> QED BY <1>6, <2>1, <2>2, <2>3, <3>1 DEF Shows
  <2> QED BY <2>1, <2>4 DEF IInv, ShowsInv
<1> QED BY <1>6, <1>17, <1>18, <1>19, <1>20, <1>21, <1>22 DEF IInv, WriterInv, BlockInv

\* The sel is stored: the bucket shows the imp that is already there.
LEMMA WriteSel ==
  ASSUME IInv, NEW t \in Thread, WriteStore(t), thread[t].todo[1].op = "sel"
  PROVE  IInv'
<1>1. /\ thread[t].pc = "write" /\ thread[t].todo # <<>> /\ runtimeLock' = runtimeLock /\ NextWrite(t, <<>>)
  BY DEF WriteStore, Writing
<1>2. PICK todo \in Seq(Store) :
           /\ todo = Tail(holder.todo) /\ Moves(t, todo) /\ holder = thread[t]
           /\ holder.todo \in Seq(Store) /\ holder.todo # <<>> /\ holder.todo[1] = Head(thread[t].todo)
           /\ holder.todo[1] \in Store /\ 1 \in DOMAIN holder.todo
  BY <1>1, StoreMoves
<1>3. PICK w : w = holder.todo[1]
  OBVIOUS
<1>4. w.op = "sel" /\ w = Head(thread[t].todo)
  BY <1>2, <1>3
<1>5. /\ buckets' = buckets /\ mask' = mask /\ heap' = [heap EXCEPT ![w.b].sel[w.i] = w.s]
      /\ UNCHANGED <<occupied, garbage, garbage_size, runtimeLock, methods, newest, limits>>
  BY <1>4 DEF WriteStore
<1>6. /\ holder' = thread'[t] /\ LockInv' /\ thread' \in [Thread -> Threads]
      /\ holder'.todo = todo /\ Fills' = Fills /\ holder'.erase = holder.erase
      /\ Fills => holder'.c = holder.c /\ holder'.s = holder.s /\ holder'.imp = holder.imp
      /\ \A u \in Thread : u # t => thread'[u] = thread[u]
      /\ \A u \in Thread : Reads(u)' = Reads(u) /\ thread'[u].pc = thread[u].pc /\ (Reads(u) \/ thread[u].pc = "return" => u # t)
  BY <1>1, <1>2, MovesFacts DEF IInv, Reads
<1>7. /\ OrderInv' /\ todo = <<>> /\ DOMAIN todo = {}
      /\ ~Next1("buckets")' /\ ~Next1("check")' /\ ~Next1("dispose")'
      /\ \A c \in Class : Target(c)' = buckets'[c] /\ ~SelPending(c)' /\ (MaskPending(c)' <=> MaskPending(c))
      /\ Awaiting' = IF Fills THEN {} ELSE holder.erase
  <2>1. OrderInv'
    BY <1>2, <1>3, <1>4, AfterStore
  <2>2. todo = <<>> /\ DOMAIN todo = {}
    <3>1. Len(holder.todo) = 1
      BY <1>2, <1>3, <1>4 DEF IInv, OrderInv, OrderOK
    <3> QED BY <1>2, <3>1
  <2>3. /\ ~Next1("buckets")' /\ ~Next1("check")' /\ ~Next1("dispose")'
        /\ Awaiting' = (IF Fills THEN {} ELSE holder.erase) /\ \A c \in Class : Target(c)' = buckets'[c]
    BY <1>2, <1>3, <1>4, AfterStoreNext
  <2>4. \A c \in Class : MaskPending(c)' <=> MaskPending(c)
    BY <1>2, <1>3, <1>4, AfterStorePending
  <2>5. \A c \in Class : ~SelPending(c)'
    BY <1>6, <2>2 DEF SelPending
  <2> QED BY <2>1, <2>2, <2>3, <2>4, <2>5
<1>8. /\ Fills /\ holder.c \in Class /\ holder.s \in SEL /\ holder.imp \in Imp
      /\ w.b \in Block /\ w.b = buckets[holder.c] /\ heap[w.b] # Freed
      /\ w.i \in DOMAIN heap[w.b].sel /\ heap[w.b].sel[w.i] = 0
      /\ w.s = holder.s /\ heap[w.b].imp[w.i] = holder.imp
      /\ \A c : ~Switches(c) /\ Target(c) = buckets[c]
      /\ \A c \in Class : buckets[c] = w.b => c = holder.c
  BY <1>2, <1>3, <1>4, StoreInSlot
<1>9. PICK n \in Nat : IsMarked(heap[w.b], n)
  BY <1>2, <1>3, <1>4, StoreInSlot
<1>10. DOMAIN heap = Block \cup {Empty}
  BY DEF IInv, TypeInv
<1>11. /\ DOMAIN heap' = Block \cup {Empty}
       /\ heap'[w.b] = [heap[w.b] EXCEPT !.sel[w.i] = w.s]
       /\ \A b \in Block \cup {Empty} : b # w.b => heap'[b] = heap[b]
  BY <1>5, <1>8, <1>10
<1>12. PICK version \in newest[holder.c][holder.s] .. Effective(holder.c, holder.s) :
         Shows(holder.c, holder.s, version)
  BY <1>8 DEF IInv, ShowsInv
<1>13. /\ holder.imp = [sel |-> holder.s, version |-> version] /\ holder.imp.sel = w.s /\ holder.imp.version = version
       /\ version \in Nat /\ newest[holder.c][holder.s] <= version /\ newest[holder.c][holder.s] \in Nat
  BY <1>8, <1>12 DEF Shows, IInv, TypeInv
<1>14. \A m : IsMarked(heap[w.b], m) => IsMarked(heap'[w.b], m)
  <2>1. ASSUME NEW m, IsMarked(heap[w.b], m) PROVE IsMarked(heap'[w.b], m)
    <3>1. PICK x, i, e : x = heap[w.b] /\ i = w.i /\ e = w.s
      OBVIOUS
    <3>2. i \in DOMAIN x.sel /\ x.sel[i] = 0 /\ e \in SEL /\ x.imp[i].sel = e /\ IsMarked(x, m)
      BY <1>8, <1>13, <2>1, <3>1
    <3>3. IsMarked([x EXCEPT !.sel[i] = e], m)
      BY <3>2, SelStored
    <3> QED BY <1>11, <3>1, <3>3
  <2> QED BY <2>1
<1>15. /\ heap'[w.b].imp = heap[w.b].imp /\ heap'[w.b].sel[w.i] = w.s
       /\ DOMAIN heap'[w.b].sel = DOMAIN heap[w.b].sel
       /\ \A j \in DOMAIN heap[w.b].sel : j # w.i => heap'[w.b].sel[j] = heap[w.b].sel[j]
  <2>1. PICK x, i, e : x = heap[w.b] /\ i = w.i /\ e = w.s
    OBVIOUS
  <2>2. PICK y : y = [x EXCEPT !.sel[i] = e]
    OBVIOUS
  <2>3. y = heap'[w.b] /\ i \in DOMAIN x.sel /\ IsMarked(x, n)
    BY <1>8, <1>9, <1>11, <2>1, <2>2
  <2>4. /\ y.imp = x.imp /\ y.sel[i] = e /\ DOMAIN y.sel = DOMAIN x.sel
        /\ \A j \in DOMAIN x.sel : j # i => y.sel[j] = x.sel[j]
    <3>1. DOMAIN x.sel = 0 .. n - 1 /\ IsBlock(x, n)
      BY <2>3, MarkedShape
    <3>2. x = [sel |-> x.sel, imp |-> x.imp] /\ x.sel \in [0 .. n - 1 -> SEL \cup {0, 1}]
      BY <3>1 DEF IsBlock
    <3> QED BY <2>2, <2>3, <3>1, <3>2
  <2> QED BY <2>1, <2>3, <2>4
<1>16. /\ \A b \in Block \cup {Empty} : DOMAIN heap'[b].sel = DOMAIN heap[b].sel
       /\ \A b \in Block \cup {Empty} : \A i \in DOMAIN heap[b].sel : heap[b].sel[i] # 0 => heap'[b].sel[i] = heap[b].sel[i]
       /\ \A b \in Block \cup {Empty} : \A m : IsMarked(heap[b], m) => IsMarked(heap'[b], m)
       /\ \A b \in Block \cup {Empty} : heap'[b] = Freed <=> heap[b] = Freed
  <2>1. IsMarked(heap'[w.b], n) /\ heap'[w.b] # Freed
    BY <1>9, <1>14, MarkedShape
  <2>2. \A i \in DOMAIN heap[w.b].sel : heap[w.b].sel[i] # 0 => heap'[w.b].sel[i] = heap[w.b].sel[i]
    BY <1>8, <1>15
  <2> QED BY <1>8, <1>11, <1>14, <1>15, <2>1, <2>2
<1>17. ASSUME NEW b \in Block \cup {Empty}, NEW s \in SEL, NEW lo, NEW hi, Holds(b, s, lo, hi),
              b = w.b /\ s = w.s => version \in lo .. hi
       PROVE  Holds(b, s, lo, hi)'
  <2>1. ASSUME NEW i \in DOMAIN heap'[b].sel, heap'[b].sel[i] = s
        PROVE  heap'[b].imp[i].version \in lo .. hi
    <3>1. CASE b = w.b /\ i = w.i
      <4>1. s = w.s /\ heap'[b].imp[i].version = version
        BY <1>8, <1>13, <1>15, <2>1, <3>1
      <4> QED BY <1>17, <3>1, <4>1
    <3>2. CASE ~(b = w.b /\ i = w.i)
      <4>1. i \in DOMAIN heap[b].sel /\ heap'[b].sel[i] = heap[b].sel[i] /\ heap'[b].imp[i] = heap[b].imp[i]
        BY <1>11, <1>15, <1>16, <2>1, <3>2
      <4> QED BY <1>17, <2>1, <4>1 DEF Holds
    <3> QED BY <3>1, <3>2
  <2> QED BY <2>1 DEF Holds
<1>18. buckets \in [Class -> Block \cup {Empty}] /\ Scanned \subseteq Block \cup {Empty}
  <2>1. \A u \in Thread : Reads(u) => thread[u].b \in Block \cup {Empty}
    BY ReadFacts
  <2> QED BY <2>1 DEF IInv, TypeInv, Scanned
<1>19. TypeInv' /\ MethodsInv'
  BY <1>5, <1>6, <1>11 DEF IInv, TypeInv, MethodsInv, limits, Threads
<1>20. WriterInv'
  <2>1. BucketsInv'
    BY <1>7 DEF BucketsInv
  <2>2. StoredMaskInv' /\ FreeInv' /\ SlotInv'
    BY <1>6, <1>7 DEF StoredMaskInv, FreeInv, SlotInv
  <2> QED BY <1>7, <2>1, <2>2 DEF WriterInv
<1>21. CheckInv'
  BY <1>7 DEF CheckInv
<1>22. CountInv'
  <2>1. \A c \in Class : Counts(c, buckets[c])
    BY <1>8 DEF IInv, CountInv
  <2>2. ASSUME NEW c \in Class, c # holder.c PROVE Counts(c, buckets[c])'
    <3>1. buckets[c] # w.b /\ heap'[buckets[c]] = heap[buckets[c]]
      BY <1>8, <1>11, <1>18, <2>2
    <3>2. ~SelPending(c)
      BY <2>2 DEF SelPending
    <3> QED BY <1>5, <1>7, <2>1, <3>1, <3>2 DEF Counts
  <2>3. Counts(holder.c, w.b)'
    <3>1. SelPending(holder.c)
      BY <1>2, <1>3, <1>4, <1>8 DEF SelPending
    <3>2. PICK k \in Nat : k = occupied[holder.c]
      BY <1>8 DEF IInv, TypeInv
    <3>3. k >= 1 /\ Cardinality(Used(heap[w.b])) = k /\ k + 1 <= (Size(heap[w.b]) \div 4) * 3
      BY <1>8, <2>1, <3>1, <3>2, Constants DEF Counts, CACHE_END_MARKER
    <3>4. Size(heap'[w.b]) = Size(heap[w.b])
      BY <1>15 DEF Size
    <3>5. Used(heap'[w.b]) = Used(heap[w.b]) \cup {w.i} /\ w.i \notin Used(heap[w.b])
      BY <1>8, <1>15, Constants DEF Used
    <3>6. IsFiniteSet(Used(heap[w.b]))
      <4>1. DOMAIN heap[w.b].sel = 0 .. n - 1
        BY <1>9, MarkedShape
      <4>2. IsFiniteSet(0 .. n - 1) /\ Used(heap[w.b]) \subseteq 0 .. n - 1
        BY <4>1, FS_Interval DEF Used
      <4> QED BY <4>2, FS_Subset
    <3>7. Cardinality(Used(heap'[w.b])) = k + 1
      BY <3>3, <3>5, <3>6, FS_AddElement
    <3>8. PICK c \in Class : c = holder.c /\ c = holder'.c
      BY <1>6, <1>8
    <3>9. occupied'[c] = k /\ ~SelPending(c)'
      BY <1>5, <1>7, <3>2, <3>8
    <3>10. Counts(c, w.b)'
      BY <1>8, <3>3, <3>4, <3>7, <3>9, Constants DEF Counts, CACHE_END_MARKER
    <3> QED BY <3>8, <3>10
  <2>4. ASSUME NEW c \in Class PROVE Counts(c, Target(c))'
    <3>1. Counts(c, buckets[c])'
      <4>1. PICK d : d = holder.c
        OBVIOUS
      <4>2. CASE c = d
        <5>1. PICK b : b = w.b /\ b = buckets[c] /\ b = buckets'[c]
          BY <1>5, <1>8, <4>1, <4>2
        <5>2. Counts(c, b)'
          BY <1>6, <1>8, <2>3, <4>1, <4>2, <5>1
        <5> QED BY <5>1, <5>2
      <4>3. CASE c # d
        BY <2>2, <4>1, <4>3
      <4> QED BY <4>2, <4>3
    <3> QED BY <1>7, <3>1
  <2> QED BY <2>4 DEF CountInv
<1>23. GuaranteedEmptySlot'
  <2>1. ASSUME NEW c \in Class PROVE \E i \in DOMAIN heap'[buckets[c]].sel : heap'[buckets[c]].sel[i] = 0
    <3>1. CASE buckets[c] # w.b
      <4>1. heap'[buckets[c]] = heap[buckets[c]]
        BY <1>11, <1>18, <3>1
      <4> QED BY <4>1 DEF IInv, GuaranteedEmptySlot
    <3>2. CASE buckets[c] = w.b
      <4>1. Counts(c, buckets[c])'
        BY <1>5, <1>7, <1>22 DEF CountInv
      <4>2. IsMarked(heap'[w.b], n) /\ w.b # Empty /\ Size(heap'[w.b]) = n /\ occupied[c] \in Nat
        <5>1. IsMarked(heap'[w.b], n)
          BY <1>9, <1>14
        <5>2. Size(heap'[w.b]) = n
          BY <5>1, MarkedShape
        <5>3. w.b # Empty
          BY <1>8, Constants
        <5>4. occupied[c] \in Nat
          BY DEF IInv, TypeInv
        <5> QED BY <5>1, <5>2, <5>3, <5>4
      <4>3. PICK k \in Nat : k = Cardinality(Used(heap'[w.b])) /\ k <= (n \div 4) * 3
        BY <1>5, <1>7, <3>2, <4>1, <4>2 DEF Counts, CACHE_END_MARKER
      <4> QED BY <3>2, <4>2, <4>3, CountedHasFree
    <3> QED BY <3>1, <3>2
  <2> QED BY <1>5, <2>1 DEF GuaranteedEmptySlot
<1>24. BlockInv'
  <2>1. HeapInv'
    <3>1. heap'[Empty] = emptyBuckets
      BY <1>8, <1>11, Constants DEF IInv, HeapInv
    <3>2. ASSUME NEW b \in Block PROVE heap'[b] = Freed \/ \E m \in 4 .. MAX_CACHE_SIZE : IsMarked(heap'[b], m)
      <4>1. heap[b] = Freed \/ \E m \in 4 .. MAX_CACHE_SIZE : IsMarked(heap[b], m)
        BY DEF IInv, HeapInv
      <4> QED BY <1>16, <4>1
    <3>3. \A b \in garbage \cup InUse : heap'[b] # Freed
      <4>1. garbage \subseteq Block /\ InUse \subseteq Block \cup {Empty}
        BY <1>18 DEF IInv, TypeInv, InUse
      <4>2. \A b \in garbage \cup InUse : heap[b] # Freed
        BY DEF IInv, HeapInv
      <4> QED BY <1>16, <4>1, <4>2
    <3> QED BY <1>5, <3>1, <3>2, <3>3 DEF IInv, HeapInv, InUse
  <2>2. MaskInv'
    <3>1. ASSUME NEW c \in Class
          PROVE  /\ mask[c] \in DOMAIN heap'[buckets[c]].sel /\ (mask[c] = 0 \/ mask[c] >= 3)
                 /\ buckets[c] # Empty /\ ~MaskPending(c)' => IsMarked(heap'[buckets[c]], mask[c] + 1)
      <4>1. buckets[c] \in Block \cup {Empty} /\ DOMAIN heap'[buckets[c]].sel = DOMAIN heap[buckets[c]].sel
        BY <1>16, <1>18
      <4>2. /\ mask[c] \in DOMAIN heap[buckets[c]].sel /\ (mask[c] = 0 \/ mask[c] >= 3)
            /\ buckets[c] # Empty /\ ~MaskPending(c) => IsMarked(heap[buckets[c]], mask[c] + 1)
        BY DEF IInv, MaskInv
      <4> QED BY <1>7, <1>16, <4>1, <4>2
    <3> QED BY <1>5, <3>1 DEF MaskInv
  <2> QED BY <1>22, <1>23, <2>1, <2>2 DEF BlockInv
<1>25. ReaderInv'
  <2>1. ReaderOK(t)' /\ FloorOK(t)'
    BY <1>2, <1>5, WriterFloor
  <2>2. \A c \in Class : mask[c] <= mask'[c]
    BY <1>5 DEF IInv, TypeInv
  <2>3. newest' = newest /\ mask' \in [Class -> Nat]
    BY <1>5 DEF IInv, TypeInv
  <2>4. \A b \in Scanned : heap[b] # Freed => /\ heap'[b] # Freed /\ DOMAIN heap'[b].sel = DOMAIN heap[b].sel
                                              /\ \A i \in DOMAIN heap[b].sel : heap[b].sel[i] # 0 => heap'[b].sel[i] = heap[b].sel[i]
    BY <1>16, <1>18
  <2>5. \A c \in Class : buckets'[c] = buckets[c]
    BY <1>5
  <2> QED BY <1>6, <2>1, <2>2, <2>3, <2>4, <2>5, ReadersKept DEF IInv
<1>26. ShowsInv'
  <2>1. \A c \in Class, s \in SEL : newest'[c][s] = newest[c][s] /\ Effective(c, s)' = Effective(c, s)
    BY <1>5 DEF Effective
  <2>2. Awaiting' = Awaiting
    BY <1>7, <1>8 DEF Awaiting
  <2>3. ASSUME NEW c \in Class, NEW s \in SEL, NEW v \in Nat, newest[c][s] <= v, Shows(c, s, v),
               c = holder.c /\ s = holder.s => v = version
        PROVE  Shows(c, s, v)'
    <3>1. Holds(buckets[c], s, v, v)'
      <4>1. PICK b \in Block \cup {Empty} : b = buckets[c] /\ b = buckets'[c]
        BY <1>5, <1>18
      <4>2. b = w.b /\ s = w.s => version \in v .. v
        <5>1. SUFFICES ASSUME b = w.b, s = w.s PROVE version \in v .. v
          OBVIOUS
        <5>2. c = holder.c /\ s = holder.s
          BY <1>8, <4>1, <5>1
        <5>3. v = version
          BY <2>3, <5>2
        <5> QED BY <1>13, <5>3
      <4>3. Holds(b, s, v, v)
        BY <2>3, <4>1 DEF Shows
      <4>4. Holds(b, s, v, v)'
        BY <1>17, <4>2, <4>3
      <4> QED BY <4>1, <4>4 DEF Holds
    <3>2. ASSUME NEW u \in Thread PROVE Finds(u, c, s, v)'
      <4>1. Finds(u, c, s, v)
        BY <2>3 DEF Shows
      <4>2. ASSUME Reads(u), thread[u].c = c, thread[u].s = s PROVE Holds(thread[u].b, s, thread[u].floor, v)'
        <5>1. PICK b \in Block \cup {Empty}, lo \in Nat :
                /\ b = thread[u].b /\ lo = thread[u].floor /\ b = thread'[u].b /\ lo = thread'[u].floor
                /\ lo <= newest[c][s]
          BY <1>6, <4>2, ReadFacts
        <5>2. b = w.b /\ s = w.s => version \in lo .. v
          <6>1. SUFFICES ASSUME b = w.b, s = w.s PROVE version \in lo .. v
            OBVIOUS
          <6>2. holder.c = c
            BY <1>8, <4>2, <5>1, <6>1, Constants, ReadFacts
          <6>3. v = version /\ newest[c][s] \in Nat
            BY <1>8, <2>3, <6>1, <6>2 DEF IInv, TypeInv
          <6> QED BY <1>13, <2>3, <5>1, <6>3
        <5>3. Holds(b, s, lo, v)
          BY <4>1, <4>2, <5>1 DEF Finds
        <5>4. Holds(b, s, lo, v)'
          BY <1>17, <5>2, <5>3
        <5> QED BY <5>1, <5>4 DEF Holds
      <4> QED BY <1>6, <4>1, <4>2 DEF Finds
    <3>3. c \notin Awaiting' => v = Effective(c, s)'
      BY <2>1, <2>2, <2>3 DEF Shows
    <3>4. holder'.c = c /\ holder'.s = s => holder'.imp = [sel |-> s, version |-> v]
      BY <1>6, <1>8, <2>3 DEF Shows
    <3> QED BY <3>1, <3>2, <3>3, <3>4 DEF Shows
  <2>4. ASSUME NEW c \in Class, NEW s \in SEL
        PROVE  \E v \in newest[c][s] .. Effective(c, s) : Shows(c, s, v)'
    <3>1. PICK v \in newest[c][s] .. Effective(c, s) :
            Shows(c, s, v) /\ (c = holder.c /\ s = holder.s => v = version)
      BY <1>12 DEF IInv, ShowsInv
    <3>2. v \in Nat /\ newest[c][s] <= v
      BY <3>1 DEF IInv, TypeInv
    <3>3. Shows(c, s, v)'
      BY <2>3, <3>1, <3>2
    <3> QED BY <3>1, <3>3
  <2> QED BY <2>1, <2>4 DEF ShowsInv
<1> QED BY <1>6, <1>19, <1>20, <1>21, <1>24, <1>25, <1>26 DEF IInv, WriterInv, BlockInv

LEMMA WriteStoreStep ==
  ASSUME IInv, NEW t \in Thread, WriteStore(t) PROVE IInv'
<1>1. thread[t].pc = "write" /\ thread[t].todo # <<>> /\ Head(thread[t].todo).op \in {"buckets", "mask", "imp", "sel"}
  BY DEF WriteStore, Writing
<1>2. thread[t].todo[1] = Head(thread[t].todo)
  BY <1>1
<1> QED BY <1>1, <1>2, WriteBuckets, WriteMask, WriteImp, WriteSel

\* t has todo left to do; readers may have been restarted.
MovesOn(t, todo) ==
  /\ thread[t].pc = "write" /\ runtimeLock' = runtimeLock /\ thread' \in [Thread -> Threads]
  /\ thread'[t] = [thread[t] EXCEPT !.todo = todo]
  /\ \A u \in Thread : u # t => thread'[u] = thread[u] \/ (Critical(u) /\ thread'[u] = Miss(thread[u]))

LEMMA MovesOnFacts ==
  ASSUME TypeInv, LockInv, NEW t \in Thread, NEW todo \in Seq(Store), MovesOn(t, todo)
  PROVE  /\ holder = thread[t] /\ holder' = thread'[t] /\ LockInv'
         /\ holder'.todo = todo /\ holder'.then = holder.then /\ holder'.erase = holder.erase /\ Fills' = Fills
         /\ Fills => /\ holder'.c = holder.c /\ holder'.s = holder.s /\ holder'.imp = holder.imp
                     /\ holder'.floor = holder.floor
         /\ thread'[t].pc = "write"
         /\ \A u \in Thread : Reads(u)' => Reads(u) /\ u # t /\ thread'[u] = thread[u]
         /\ \A u \in Thread : thread'[u].pc = "return" => u # t /\ thread'[u] = thread[u]
         /\ Scanned' \subseteq Scanned
<1> DEFINE r == thread[t]
           x == [r EXCEPT !.todo = todo]
<1>1. r.pc = "write" /\ runtimeLock' = runtimeLock /\ thread'[t] = x
  BY DEF MovesOn
<1>2. runtimeLock = t /\ runtimeLock # nil /\ holder = r
  BY <1>1, WriterHolds
<1>3. holder' = thread'[t]
  BY <1>1, <1>2 DEF holder
<1>4. r \in Filling \cup Changing
  BY <1>1, ThreadShape
<1> HIDE DEF x
<1>5. /\ x.todo = todo /\ x.pc = r.pc /\ x.then = r.then /\ x.erase = r.erase
      /\ r.then = "return" => x.c = r.c /\ x.s = r.s /\ x.imp = r.imp /\ x.floor = r.floor
  <2>1. CASE r \in Filling
    BY <2>1 DEF Filling, x
  <2>2. CASE r \in Changing
    BY <2>2 DEF Changing, x
  <2> QED BY <1>4, <2>1, <2>2
<1>6. Fills' = Fills
  BY <1>1, <1>2, <1>3, <1>5 DEF Fills
<1>7. ASSUME NEW u \in Thread, u # t
      PROVE  thread'[u] = thread[u] \/ (Critical(u) /\ thread'[u].pc = "miss")
  BY <1>7 DEF MovesOn, Miss
<1>8. \A u \in Thread : Reads(u)' => Reads(u) /\ u # t /\ thread'[u] = thread[u]
  BY <1>1, <1>5, <1>7 DEF Reads
<1>9. \A u \in Thread : thread'[u].pc = "return" => u # t /\ thread'[u] = thread[u]
  BY <1>1, <1>5, <1>7
<1>10. LockInv'
  <2>1. \A u \in Thread : thread'[u].pc = "write" <=> thread[u].pc = "write"
    BY <1>1, <1>5, <1>7 DEF Critical
  <2> QED BY <1>1, <2>1 DEF LockInv
<1>11. Scanned' \subseteq Scanned
  BY <1>8 DEF Scanned
<1> QED BY <1>1, <1>2, <1>3, <1>5, <1>6, <1>8, <1>9, <1>10, <1>11 DEF Fills

\* Readers that were restarted, or were not, rely on as little as before.
LEMMA ReadersMissed ==
  ASSUME IInv, NEW t \in Thread, NEW todo \in Seq(Store), MovesOn(t, todo), UNCHANGED <<buckets, mask, newest>>,
         \A b \in Scanned' : heap'[b] = heap[b]
  PROVE  ReaderInv'
<1>1. /\ holder = thread[t] /\ holder' = thread'[t] /\ thread[t].pc = "write" /\ thread'[t].pc = "write"
      /\ holder'.then = holder.then
      /\ Fills => holder'.c = holder.c /\ holder'.s = holder.s /\ holder'.floor = holder.floor
  BY MovesOnFacts DEF IInv, MovesOn
<1>2. ReaderOK(t)' /\ FloorOK(t)'
  <2>1. FloorOK(t)
    BY DEF IInv, ReaderInv
  <2>2. FloorOK(t)'
    BY <1>1, <2>1 DEF FloorOK, Fills
  <2>3. ReaderOK(t)'
    BY <1>1 DEF ReaderOK, Reads
  <2> QED BY <2>2, <2>3
<1>3. ASSUME NEW u \in Thread, u # t PROVE ReaderOK(u)' /\ FloorOK(u)'
  <2>1. ReaderOK(u) /\ FloorOK(u)
    BY DEF IInv, ReaderInv
  <2>2. CASE thread'[u] = thread[u]
    <3>1. Reads(u) => thread[u].b \in Scanned'
      BY <2>2 DEF Reads, Scanned
    <3>2. Reads(u)' = Reads(u) /\ (thread[u].pc = "hit" => Reads(u))
      BY <2>2 DEF Reads
    <3>3. Reads(u) => heap'[thread[u].b] = heap[thread[u].b]
      BY <3>1
    <3> QED BY <2>1, <2>2, <3>2, <3>3 DEF ReaderOK, FloorOK
  <2>3. CASE Critical(u) /\ thread'[u] = Miss(thread[u])
    <3>1. /\ thread'[u].pc = "miss" /\ thread'[u].c = thread[u].c /\ thread'[u].s = thread[u].s
          /\ thread'[u].floor = thread[u].floor
      BY <2>3 DEF Miss
    <3> QED BY <2>1, <2>3, <3>1 DEF ReaderOK, FloorOK, Reads, Critical
  <2> QED BY <1>3, <2>2, <2>3 DEF MovesOn
<1> QED BY <1>2, <1>3 DEF ReaderInv

\* A step that collects garbage, or looks whether it may: no cache and no reader is in it.
LEMMA GarbageStep ==
  ASSUME IInv, NEW t \in Thread, NEW todo \in Seq(Store), MovesOn(t, todo),
         UNCHANGED <<buckets, mask, occupied, methods, newest, limits>>,
         DOMAIN heap' = Block \cup {Empty}, garbage' \subseteq Block, garbage_size' \in Nat,
         \A b \in InUse \cup Scanned' \cup {Empty} : heap'[b] = heap[b],
         \A b \in Block : heap'[b] \in {heap[b], Freed},
         garbage' \cap InUse = {}, \A b \in garbage' : heap'[b] # Freed,
         ~Next1("buckets"), \A c \in Class : ~MaskPending(c),
         OrderOK(todo), CheckInv',
         \A k \in DOMAIN todo : todo[k].op \notin {"buckets", "mask", "collect_free"},
         \A k \in DOMAIN todo : todo[k].op \in {"imp", "sel"} =>
           (\E j \in DOMAIN holder.todo : todo[k] = holder.todo[j]) /\ (todo[k].op = "sel" => k # 1),
         \A j \in DOMAIN holder.todo : holder.todo[j].op = "sel" => \E k \in DOMAIN todo : todo[k].op = "sel"
  PROVE  IInv'
<1>1. /\ buckets' = buckets /\ mask' = mask /\ occupied' = occupied /\ methods' = methods /\ newest' = newest
      /\ runtimeLock' = runtimeLock /\ thread' \in [Thread -> Threads]
  BY DEF MovesOn
<1>2. /\ holder = thread[t] /\ holder' = thread'[t] /\ LockInv'
      /\ holder'.todo = todo /\ holder'.then = holder.then /\ holder'.erase = holder.erase /\ Fills' = Fills
      /\ Fills => holder'.c = holder.c /\ holder'.s = holder.s /\ holder'.imp = holder.imp
  BY MovesOnFacts DEF IInv
<1>3. /\ \A u \in Thread : Reads(u)' => Reads(u) /\ thread'[u] = thread[u]
      /\ \A u \in Thread : thread'[u].pc = "return" => thread'[u] = thread[u]
  BY MovesOnFacts DEF IInv
<1>4. InUse' = InUse /\ InUse \subseteq Block \cup {Empty}
  BY <1>1 DEF InUse, IInv, TypeInv
<1>5. ~Next1("buckets")' /\ \A c : ~Switches(c)' /\ ~Switches(c) /\ Target(c) = buckets[c] /\ Target(c)' = buckets[c]
  <2>1. ~Next1("buckets")'
    <3>1. todo # <<>> => 1 \in DOMAIN todo
      OBVIOUS
    <3> QED BY <1>2, <3>1 DEF Next1
  <2> QED BY <1>1, <2>1 DEF Switches, Target
<1>6. \A c \in Class : ~MaskPending(c)' /\ (SelPending(c)' <=> SelPending(c))
  <2>1. (\E k \in DOMAIN todo : todo[k].op = "sel") <=> \E k \in DOMAIN holder.todo : holder.todo[k].op = "sel"
    OBVIOUS
  <2> QED BY <1>2, <2>1 DEF MaskPending, SelPending
<1>7. \A c \in Class : heap'[buckets[c]] = heap[buckets[c]]
  BY DEF InUse
<1>8. TypeInv' /\ MethodsInv'
  BY <1>1 DEF IInv, TypeInv, MethodsInv, limits, Threads
<1>9. WriterInv'
  <2>1. OrderInv'
    BY <1>2 DEF OrderInv
  <2>2. BucketsInv'
    BY <1>5 DEF BucketsInv
  <2>3. StoredMaskInv' /\ FreeInv'
    BY <1>2 DEF StoredMaskInv, FreeInv
  <2>4. SlotInv'
    <3>1. \A c \in Class : Target(c)' = Target(c) /\ heap'[Target(c)] = heap[Target(c)]
      BY <1>5, <1>7
    <3> QED BY <1>2, <3>1, SlotKept
  <2> QED BY <2>1, <2>2, <2>3, <2>4 DEF WriterInv
<1>10. BlockInv'
  <2>1. HeapInv'
    <3>1. heap'[Empty] = emptyBuckets
      BY DEF IInv, HeapInv
    <3>2. \A b \in Block : heap'[b] = Freed \/ \E n \in 4 .. MAX_CACHE_SIZE : IsMarked(heap'[b], n)
      BY DEF IInv, HeapInv
    <3>3. \A b \in garbage' \cup InUse : heap'[b] # Freed
      BY DEF IInv, HeapInv
    <3>4. \A c, d \in Class : buckets[c] = buckets[d] /\ buckets[c] # Empty => c = d
      BY DEF IInv, HeapInv
    <3> QED BY <1>1, <1>4, <3>1, <3>2, <3>3, <3>4 DEF HeapInv
  <2>2. MaskInv'
    BY <1>1, <1>6, <1>7 DEF IInv, MaskInv
  <2>3. CountInv'
    <3>1. \A c \in Class : Counts(c, buckets[c])
      BY <1>5 DEF IInv, CountInv
    <3>2. \A c \in Class : Counts(c, Target(c))'
      BY <1>1, <1>5, <1>6, <1>7, <3>1 DEF Counts
    <3> QED BY <3>2 DEF CountInv
  <2>4. GuaranteedEmptySlot'
    BY <1>1, <1>7 DEF IInv, GuaranteedEmptySlot
  <2> QED BY <2>1, <2>2, <2>3, <2>4 DEF BlockInv
<1>11. ReaderInv'
  BY <1>1, ReadersMissed
<1>12. ShowsInv'
  <2>1. \A c \in Class, s \in SEL : newest'[c][s] = newest[c][s] /\ Effective(c, s)' = Effective(c, s)
    BY <1>1 DEF Effective
  <2>2. Awaiting' = Awaiting
    <3>1. {c \in Class : Switches(c)} = {} /\ {c \in Class : Switches(c)'} = {}
      BY <1>5
    <3> QED BY <1>2, <3>1 DEF Awaiting
  <2>3. \A u \in Thread : Reads(u)' => heap'[thread[u].b] = heap[thread[u].b]
    BY <1>3 DEF Scanned
  <2>4. \A u \in Thread : \A c, s, v : Finds(u, c, s, v) => Finds(u, c, s, v)'
    BY <1>3, <2>3 DEF Finds, Holds
  <2>5. \A c \in Class, s \in SEL : \A v : Shows(c, s, v) => Shows(c, s, v)'
    BY <1>1, <1>2, <1>7, <2>1, <2>2, <2>4 DEF Shows, Holds
  <2> QED BY <2>1, <2>5 DEF IInv, ShowsInv
<1> QED BY <1>2, <1>8, <1>9, <1>10, <1>11, <1>12 DEF IInv, WriterInv, BlockInv

\* The stores in a bucket, all that is left to do behind a collection.
Slots(rest) ==
  /\ rest \in Seq(Store) /\ OrderOK(rest)
  /\ \A k \in DOMAIN rest : /\ rest[k].op \in {"imp", "sel"} /\ (rest[k].op = "sel" => k # 1)
                            /\ \E j \in DOMAIN holder.todo : rest[k] = holder.todo[j]
  /\ \A j \in DOMAIN holder.todo : holder.todo[j].op = "sel" => \E k \in DOMAIN rest : rest[k].op = "sel"

LEMMA SlotsBehind ==
  ASSUME IInv, NEW s, s = holder.todo, s # <<>>, s[1].op \in {"collect_free", "check", "dispose"}
  PROVE  /\ s \in Seq(Store) /\ 1 \in DOMAIN s /\ s[1] \in Store /\ Tail(s) \in Seq(Store)
         /\ ~Next1("buckets") /\ \A c \in Class : ~MaskPending(c)
         /\ s[1].op \in {"collect_free", "dispose"} => Slots(Tail(s))
         /\ s[1].op = "check" => /\ Slots(Tail(Tail(s))) /\ 1 \in DOMAIN Tail(s) /\ Tail(s) # <<>>
                                 /\ Tail(s)[1].op = "dispose" /\ Tail(s)[1] \in Store
<1>1. s \in Seq(Store) /\ OrderOK(s)
  BY HolderShape DEF IInv, OrderInv
<1>2. PICK q : q = Tail(s)
  OBVIOUS
<1>3. /\ 1 \in DOMAIN s /\ s[1] \in Store /\ q \in Seq(Store)
      /\ \A k \in DOMAIN q : k + 1 \in DOMAIN s /\ q[k] = s[k + 1]
      /\ \A k \in DOMAIN s : k # 1 => k - 1 \in DOMAIN q /\ q[k - 1] = s[k]
  BY <1>1, <1>2, TailOf
<1>4. /\ OrderOK(q)
      /\ \A k \in DOMAIN q : /\ q[k].op \notin {"buckets", "check", "mask", "collect_free"}
                             /\ q[k].op = "dispose" => k = 1 /\ s[1].op = "check"
                             /\ q[k].op = "sel" => k # 1
  <2>1. /\ OrderOK(q)
        /\ \A k \in DOMAIN q :
              /\ q[k].op \notin {"buckets", "check"}
              /\ q[k].op = "mask" => k = 1 /\ s[1].op = "buckets"
              /\ q[k].op = "dispose" => k = 1 /\ s[1].op = "check"
              /\ q[k].op = "collect_free" => s[1].op \in {"buckets", "mask"}
              /\ q[k].op = "sel" /\ k = 1 => s[1].op = "imp" /\ s[1].b = q[1].b /\ s[1].i = q[1].i
    <3> HIDE DEF OrderOK
    <3> QED BY <1>1, <1>2, TailOrder
  <2> QED BY <2>1
<1>5. \A k \in DOMAIN q : q[k].op \in {"imp", "sel", "dispose"}
  <2>1. \A k \in DOMAIN q : q[k] \in Store
    BY <1>3
  <2>2. ASSUME NEW k \in DOMAIN q PROVE q[k].op \in {"imp", "sel", "dispose"}
    <3>1. q[k].op \in {"buckets", "mask", "imp", "sel", "collect_free", "check", "dispose"}
      BY <2>1, StoreShape
    <3>2. q[k].op \notin {"buckets", "check", "mask", "collect_free"}
      BY <1>4
    <3> QED BY <3>1, <3>2
  <2> QED BY <2>2
<1>6. ~Next1("buckets") /\ \A c \in Class : ~MaskPending(c)
  <2>1. ASSUME NEW k \in DOMAIN s PROVE s[k].op # "mask"
    <3>1. CASE k = 1
      BY <3>1
    <3>2. CASE k # 1
      <4>1. k - 1 \in DOMAIN q /\ q[k - 1] = s[k]
        BY <1>3, <3>2
      <4>2. q[k - 1].op # "mask"
        BY <1>4, <4>1
      <4> QED BY <4>1, <4>2
    <3> QED BY <3>1, <3>2
  <2> QED BY <2>1 DEF Next1, MaskPending
<1>7. \A k \in DOMAIN s : s[k].op = "sel" => \E j \in DOMAIN q : q[j].op = "sel"
  <2>1. \A k \in DOMAIN s : s[k].op = "sel" => k # 1
    OBVIOUS
  <2> QED BY <1>3, <2>1
<1>8. ASSUME s[1].op \in {"collect_free", "dispose"} PROVE Slots(q)
  <2>1. ASSUME NEW k \in DOMAIN q
        PROVE  q[k].op \in {"imp", "sel"} /\ (q[k].op = "sel" => k # 1) /\ \E j \in DOMAIN s : q[k] = s[j]
    <3>1. q[k].op \in {"imp", "sel", "dispose"}
      BY <1>5
    <3>2. q[k].op # "dispose" /\ (q[k].op = "sel" => k # 1)
      BY <1>4, <1>8
    <3>3. \E j \in DOMAIN s : q[k] = s[j]
      BY <1>3
    <3> QED BY <3>1, <3>2, <3>3
  <2> QED BY <1>3, <1>4, <1>7, <2>1 DEF Slots
<1>9. ASSUME s[1].op = "check"
      PROVE  Slots(Tail(q)) /\ 1 \in DOMAIN q /\ q # <<>> /\ q[1].op = "dispose" /\ q[1] \in Store
  <2>1. 2 \in DOMAIN s /\ s[2].op = "dispose"
    BY <1>1, <1>3, <1>9 DEF OrderOK
  <2>2. 1 \in DOMAIN q /\ q[1] = s[2]
    BY <1>3, <2>1
  <2>3. q # <<>>
    BY <2>2
  <2>4. PICK r : r = Tail(q)
    OBVIOUS
  <2>5. /\ q[1] \in Store /\ r \in Seq(Store)
        /\ \A k \in DOMAIN r : k \in Nat /\ k >= 1 /\ k + 1 \in DOMAIN q /\ r[k] = q[k + 1]
        /\ \A k \in DOMAIN q : k # 1 => k - 1 \in DOMAIN r /\ r[k - 1] = q[k]
    BY <1>3, <2>3, <2>4, TailOf
  <2>6. OrderOK(r) /\ \A k \in DOMAIN r : r[k].op = "sel" /\ k = 1 => q[1].op = "imp"
    <3>1. q \in Seq(Store) /\ OrderOK(q)
      BY <1>3, <1>4
    <3> HIDE DEF OrderOK
    <3>2. OrderOK(Tail(q)) /\ \A k \in DOMAIN Tail(q) : Tail(q)[k].op = "sel" /\ k = 1 => q[1].op = "imp"
      BY <2>3, <3>1, TailOrder
    <3> QED BY <2>4, <3>2
  <2>7. ASSUME NEW k \in DOMAIN r
        PROVE  r[k].op \in {"imp", "sel"} /\ (r[k].op = "sel" => k # 1) /\ \E j \in DOMAIN s : r[k] = s[j]
    <3>1. PICK i \in DOMAIN q : i # 1 /\ r[k] = q[i]
      <4>1. k + 1 # 1 /\ k + 1 \in DOMAIN q /\ r[k] = q[k + 1]
        BY <2>5
      <4> QED BY <4>1
    <3>2. r[k].op \in {"imp", "sel"}
      <4>1. q[i].op \in {"imp", "sel", "dispose"}
        BY <1>5
      <4>2. q[i].op # "dispose"
        BY <1>4, <3>1
      <4> QED BY <3>1, <4>1, <4>2
    <3>3. \E j \in DOMAIN s : r[k] = s[j]
      BY <1>3, <3>1
    <3>4. r[k].op = "sel" => k # 1
      BY <2>2, <2>1, <2>6
    <3> QED BY <3>2, <3>3, <3>4
  <2>8. \A k \in DOMAIN s : s[k].op = "sel" => \E j \in DOMAIN r : r[j].op = "sel"
    <3>1. ASSUME NEW k \in DOMAIN q, q[k].op = "sel" PROVE \E j \in DOMAIN r : r[j].op = "sel"
      <4>1. k # 1
        BY <1>4, <3>1
      <4>2. k - 1 \in DOMAIN r /\ r[k - 1] = q[k]
        BY <2>5, <4>1
      <4> QED BY <3>1, <4>2
    <3> QED BY <1>7, <3>1
  <2>9. Slots(r)
    BY <2>5, <2>6, <2>7, <2>8 DEF Slots
  <2> QED BY <2>1, <2>2, <2>3, <2>4, <2>5, <2>9
<1> QED BY <1>1, <1>2, <1>3, <1>6, <1>8, <1>9

\* A check and a disposal, or the disposal alone, before them.
LEMMA SlotsAfter ==
  ASSUME NEW rest, Slots(rest), NEW n \in {0, 1, 2}, NEW todo \in Seq(Store), Len(todo) = Len(rest) + n,
         \A k \in DOMAIN rest : todo[k + n] = rest[k],
         n = 1 => todo[1].op = "dispose",
         n = 2 => todo[1].op = "check" /\ todo[2].op = "dispose"
  PROVE  /\ OrderOK(todo)
         /\ \A k \in DOMAIN todo : todo[k].op \notin {"buckets", "mask", "collect_free"}
         /\ \A k \in DOMAIN todo : todo[k].op \in {"imp", "sel"} =>
              (\E j \in DOMAIN holder.todo : todo[k] = holder.todo[j]) /\ (todo[k].op = "sel" => k # 1)
         /\ \A j \in DOMAIN holder.todo : holder.todo[j].op = "sel" => \E k \in DOMAIN todo : todo[k].op = "sel"
<1>1. /\ rest \in Seq(Store) /\ OrderOK(rest)
      /\ \A k \in DOMAIN rest : /\ rest[k].op \in {"imp", "sel"} /\ (rest[k].op = "sel" => k # 1)
                                /\ \E j \in DOMAIN holder.todo : rest[k] = holder.todo[j]
      /\ \A j \in DOMAIN holder.todo : holder.todo[j].op = "sel" => \E k \in DOMAIN rest : rest[k].op = "sel"
  BY DEF Slots
<1>2. PICK m \in Nat : m = Len(rest) /\ DOMAIN rest = 1 .. m /\ Len(todo) = m + n /\ DOMAIN todo = 1 .. m + n
  BY <1>1
<1>3. \A k \in DOMAIN todo : k > n => k - n \in DOMAIN rest /\ todo[k] = rest[k - n]
  <2>1. ASSUME NEW k \in DOMAIN todo, k > n PROVE k - n \in DOMAIN rest /\ todo[k] = rest[k - n]
    <3>1. k - n \in DOMAIN rest /\ (k - n) + n = k
      BY <1>2, <2>1
    <3> QED BY <3>1
  <2> QED BY <2>1
<1>4. ASSUME NEW k \in DOMAIN todo
      PROVE  \/ k > n /\ todo[k].op \in {"imp", "sel"}
             \/ k = 1 /\ n = 1 /\ todo[k].op = "dispose"
             \/ k = 1 /\ n = 2 /\ todo[k].op = "check"
             \/ k = 2 /\ n = 2 /\ todo[k].op = "dispose"
  <2>1. CASE k > n
    BY <1>1, <1>3, <2>1
  <2>2. CASE k <= n
    BY <1>2, <2>2
  <2> QED BY <1>2, <2>1, <2>2
<1>5. ASSUME NEW k \in DOMAIN todo, todo[k].op \in {"imp", "sel"}
      PROVE  (\E j \in DOMAIN holder.todo : todo[k] = holder.todo[j]) /\ (todo[k].op = "sel" => k # 1)
  <2>1. k > n
    BY <1>4, <1>5
  <2>2. k - n \in DOMAIN rest /\ todo[k] = rest[k - n]
    BY <1>3, <2>1
  <2>3. todo[k].op = "sel" => k - n # 1 /\ k - n \in 1 .. m
    BY <1>1, <1>2, <2>2
  <2>4. todo[k].op = "sel" => k # 1
    BY <1>2, <2>1, <2>3
  <2> QED BY <1>1, <2>2, <2>4
<1>6. ASSUME NEW j \in DOMAIN holder.todo, holder.todo[j].op = "sel" PROVE \E k \in DOMAIN todo : todo[k].op = "sel"
  <2>1. PICK k \in DOMAIN rest : rest[k].op = "sel"
    BY <1>1, <1>6
  <2>2. k + n \in DOMAIN todo /\ todo[k + n].op = "sel"
    BY <1>2, <2>1
  <2> QED BY <2>2
<1>7. ASSUME NEW k \in DOMAIN todo, todo[k].op = "sel"
      PROVE  k = Len(todo) /\ (k # 1 => todo[k - 1].op = "imp" /\ todo[k - 1].b = todo[k].b /\ todo[k - 1].i = todo[k].i)
  <2>1. k > n
    BY <1>4, <1>7
  <2>2. PICK i \in DOMAIN rest : i = k - n /\ todo[k] = rest[i]
    BY <1>3, <2>1
  <2>3. i = Len(rest) /\ i # 1 /\ rest[i - 1].op = "imp" /\ rest[i - 1].b = rest[i].b /\ rest[i - 1].i = rest[i].i
    BY <1>1, <1>7, <2>2 DEF OrderOK
  <2>4. i - 1 \in DOMAIN rest /\ (i - 1) + n = k - 1 /\ k = m + n
    BY <1>2, <2>1, <2>2, <2>3
  <2>5. todo[k - 1] = rest[i - 1]
    BY <2>4
  <2> QED BY <1>2, <2>2, <2>3, <2>4, <2>5
<1>8. OrderOK(todo)
  <2>1. ASSUME NEW k \in DOMAIN todo
        PROVE  /\ todo[k].op \notin {"buckets", "mask", "collect_free"}
               /\ todo[k].op = "check" => k = 1 /\ 2 \in DOMAIN todo /\ todo[2].op = "dispose"
               /\ todo[k].op = "dispose" /\ k # 1 => k = 2 /\ todo[1].op = "check"
    BY <1>2, <1>4
  <2> QED BY <1>7, <2>1 DEF OrderOK
<1>9. \A k \in DOMAIN todo : todo[k].op \notin {"buckets", "mask", "collect_free"}
  BY <1>4
<1> QED BY <1>5, <1>6, <1>8, <1>9

\* The first one or two of a sequence.
LEMMA Joined ==
  ASSUME NEW x \in Seq(Store), NEW y \in Seq(Store)
  PROVE  /\ x \o y \in Seq(Store) /\ Len(x \o y) = Len(x) + Len(y) /\ Len(x) \in Nat
         /\ \A k \in 1 .. Len(x) : (x \o y)[k] = x[k]
         /\ \A k \in DOMAIN y : (x \o y)[k + Len(x)] = y[k]
<1>1. x \o y \in Seq(Store) /\ Len(x \o y) = Len(x) + Len(y) /\ Len(x) \in Nat /\ Len(y) \in Nat /\ DOMAIN y = 1 .. Len(y)
  OBVIOUS
<1>2. \A k \in 1 .. Len(x) : (x \o y)[k] = x[k]
  OBVIOUS
<1>3. \A k \in DOMAIN y : (x \o y)[k + Len(x)] = y[k]
  OBVIOUS
<1> QED BY <1>1, <1>2, <1>3

LEMMA Checks ==
  ASSUME NEW t \in Thread, NEW a \in BOOLEAN
  PROVE  LET x == cache_collect(t, a) IN
         x \in Seq(Store) /\ Len(x) = 2 /\ x[1].op = "check" /\ x[2].op = "dispose" /\ x[1].who = Thread \ {t}
<1>1. PICK p : p = [op |-> "check", who |-> Thread \ {t}, collectALot |-> a]
  OBVIOUS
<1>2. PICK q : q = [op |-> "dispose"]
  OBVIOUS
<1>3. p \in Store /\ q \in Store /\ p.op = "check" /\ q.op = "dispose" /\ p.who = Thread \ {t}
  BY <1>1, <1>2 DEF Store
<1>4. cache_collect(t, a) = <<p, q>>
  BY <1>1, <1>2 DEF cache_collect
<1> QED BY <1>3, <1>4

\* The todo of the holder is replaced.
LEMMA TodoMoves ==
  ASSUME TypeInv, LockInv, NEW t \in Thread, NEW todo \in Seq(Store), thread[t].pc = "write",
         runtimeLock' = runtimeLock, thread' = [thread EXCEPT ![t].todo = todo]
  PROVE  MovesOn(t, todo)
<1>1. Moves(t, todo)
  BY DEF Moves
<1>2. thread' \in [Thread -> Threads] /\ \A u \in Thread : u # t => thread'[u] = thread[u]
  BY <1>1, MovesFacts
<1>3. thread'[t] = [thread[t] EXCEPT !.todo = todo]
  BY DEF TypeInv
<1> QED BY <1>2, <1>3 DEF MovesOn

LEMMA CollectFreeStep ==
  ASSUME IInv, NEW t \in Thread, CollectFree(t) PROVE IInv'
<1>1. /\ thread[t].pc = "write" /\ thread[t].todo # <<>> /\ Head(thread[t].todo).op = "collect_free"
      /\ UNCHANGED <<heap, buckets, mask, occupied, runtimeLock, methods, newest, limits>>
  BY DEF CollectFree, Writing
<1>2. PICK s : s = thread[t].todo
  OBVIOUS
<1>3. holder = thread[t] /\ s = holder.todo /\ s # <<>> /\ Head(s) = s[1]
  BY <1>1, <1>2, WriterHolds DEF IInv
<1>4. /\ s \in Seq(Store) /\ 1 \in DOMAIN s /\ s[1] \in Store /\ Tail(s) \in Seq(Store) /\ s[1].op = "collect_free"
      /\ ~Next1("buckets") /\ (\A c \in Class : ~MaskPending(c)) /\ Slots(Tail(s))
  BY <1>1, <1>2, <1>3, SlotsBehind
<1>5. PICK w, rest : w = s[1] /\ rest = Tail(s)
  OBVIOUS
<1>6. w.b \in Block /\ w.size \in Nat /\ w.b \notin garbage /\ heap[w.b] # Freed /\ w.b \notin InUse
  <2>1. w.b \in Block /\ w.size \in Nat
    BY <1>4, <1>5, StoreShape
  <2> QED BY <1>3, <1>4, <1>5, <2>1 DEF IInv, FreeInv
<1>7. PICK more : more = IF garbage_size' < garbage_threshold THEN <<>> ELSE cache_collect(t, FALSE)
  OBVIOUS
<1>8. garbage' = garbage \cup {w.b} /\ garbage_size' = garbage_size + w.size /\ NextWrite(t, more)
  BY <1>2, <1>3, <1>5, <1>7 DEF CollectFree
<1>9. PICK todo : todo = more \o rest
  OBVIOUS
<1>10. thread' = [thread EXCEPT ![t].todo = todo]
  BY <1>2, <1>5, <1>8, <1>9 DEF NextWrite
<1>11. more \in Seq(Store) /\ Len(more) \in {0, 2} /\ (Len(more) = 2 => more[1].op = "check" /\ more[2].op = "dispose" /\ more[1].who = Thread \ {t})
  <2>1. CASE garbage_size' < garbage_threshold
    BY <1>7, <2>1
  <2>2. CASE ~(garbage_size' < garbage_threshold)
    <3>1. more = cache_collect(t, FALSE) /\ FALSE \in BOOLEAN
      BY <1>7, <2>2
    <3> QED BY <3>1, Checks
  <2> QED BY <2>1, <2>2
<1>12. /\ todo \in Seq(Store) /\ Len(todo) = Len(rest) + Len(more)
       /\ \A k \in DOMAIN rest : todo[k + Len(more)] = rest[k]
       /\ Len(more) = 2 => todo[1] = more[1] /\ todo[2] = more[2]
  <2>1. rest \in Seq(Store) /\ Len(rest) \in Nat
    BY <1>4, <1>5
  <2> QED BY <1>9, <1>11, <2>1, Joined
<1>13. /\ OrderOK(todo)
       /\ \A k \in DOMAIN todo : todo[k].op \notin {"buckets", "mask", "collect_free"}
       /\ \A k \in DOMAIN todo : todo[k].op \in {"imp", "sel"} =>
            (\E j \in DOMAIN holder.todo : todo[k] = holder.todo[j]) /\ (todo[k].op = "sel" => k # 1)
       /\ \A j \in DOMAIN holder.todo : holder.todo[j].op = "sel" => \E k \in DOMAIN todo : todo[k].op = "sel"
  <2>1. Slots(rest)
    BY <1>4, <1>5
  <2>2. PICK n \in {0, 2} : n = Len(more)
    BY <1>11
  <2>3. /\ n \in {0, 1, 2} /\ n # 1 /\ Len(todo) = Len(rest) + n /\ \A k \in DOMAIN rest : todo[k + n] = rest[k]
        /\ n = 2 => todo[1].op = "check" /\ todo[2].op = "dispose"
    BY <1>11, <1>12, <2>2
  <2>4. todo \in Seq(Store)
    BY <1>12
  <2> HIDE DEF OrderOK, Slots
  <2> QED BY <2>1, <2>3, <2>4, SlotsAfter, SMTT(30)
<1>14. MovesOn(t, todo)
  BY <1>1, <1>10, <1>12, TodoMoves DEF IInv
<1>15. holder'.todo = todo /\ (\A u \in Thread : Reads(u)' => u # t) /\ Scanned' \subseteq Scanned
  BY <1>12, <1>14, MovesOnFacts DEF IInv
<1>16. CheckInv'
  <2>1. CASE Len(more) = 0
    <3>1. todo = rest
      BY <1>9, <1>11, <1>4, <1>5, <2>1
    <3>2. ~Next1("check")' /\ ~Next1("dispose")'
      <4>1. \A k \in DOMAIN rest : rest[k].op \in {"imp", "sel"}
        BY <1>4, <1>5 DEF Slots
      <4>2. rest # <<>> => 1 \in DOMAIN rest
        BY <1>4, <1>5
      <4>3. rest # <<>> => rest[1].op # "check" /\ rest[1].op # "dispose"
        BY <4>1, <4>2
      <4> QED BY <1>15, <3>1, <4>3 DEF Next1
    <3> QED BY <3>2 DEF CheckInv
  <2>2. CASE Len(more) = 2
    BY <1>11, <1>12, <1>15, <2>2 DEF CheckInv, Next1
  <2> QED BY <1>11, <2>1, <2>2
<1>17. /\ garbage' \subseteq Block /\ garbage_size' \in Nat /\ garbage' \cap InUse = {}
       /\ \A b \in garbage' : heap'[b] # Freed
  BY <1>1, <1>6, <1>8 DEF IInv, TypeInv, HeapInv
<1>18. /\ UNCHANGED <<buckets, mask, occupied, methods, newest, limits>> /\ heap' = heap
       /\ DOMAIN heap' = Block \cup {Empty}
  BY <1>1 DEF IInv, TypeInv
<1> HIDE DEF OrderOK
<1> QED BY <1>4, <1>12, <1>13, <1>14, <1>16, <1>17, <1>18, GarbageStep

LEMMA DisposeStep ==
  ASSUME IInv, NEW t \in Thread, Dispose(t) PROVE IInv'
<1>1. /\ thread[t].pc = "write" /\ thread[t].todo # <<>> /\ Head(thread[t].todo).op = "dispose"
      /\ UNCHANGED <<buckets, mask, occupied, runtimeLock, methods, newest, limits>>
      /\ heap' = [b \in DOMAIN heap |-> IF b \in garbage THEN Freed ELSE heap[b]]
      /\ garbage' = {} /\ garbage_size' = 0 /\ NextWrite(t, <<>>)
  BY DEF Dispose, Writing
<1>2. PICK s : s = thread[t].todo
  OBVIOUS
<1>3. holder = thread[t] /\ s = holder.todo /\ s # <<>> /\ Head(s) = s[1]
  BY <1>1, <1>2, WriterHolds DEF IInv
<1>4. /\ s \in Seq(Store) /\ 1 \in DOMAIN s /\ s[1] \in Store /\ Tail(s) \in Seq(Store) /\ s[1].op = "dispose"
      /\ ~Next1("buckets") /\ (\A c \in Class : ~MaskPending(c)) /\ Slots(Tail(s))
  BY <1>1, <1>2, <1>3, SlotsBehind
<1>5. PICK todo \in Seq(Store) : todo = Tail(s)
  BY <1>4
<1>6. thread' = [thread EXCEPT ![t].todo = todo]
  <2>1. <<>> \o todo = todo
    OBVIOUS
  <2> QED BY <1>1, <1>2, <1>5, <2>1 DEF NextWrite
<1>7. /\ OrderOK(todo)
      /\ \A k \in DOMAIN todo : todo[k].op \notin {"buckets", "mask", "collect_free"}
      /\ \A k \in DOMAIN todo : todo[k].op \in {"imp", "sel"} =>
           (\E j \in DOMAIN holder.todo : todo[k] = holder.todo[j]) /\ (todo[k].op = "sel" => k # 1)
      /\ \A j \in DOMAIN holder.todo : holder.todo[j].op = "sel" => \E k \in DOMAIN todo : todo[k].op = "sel"
  <2>1. Slots(todo)
    BY <1>4, <1>5
  <2>2. \A k \in DOMAIN todo : todo[k].op \in {"imp", "sel"}
    BY <2>1 DEF Slots
  <2>3. \A k \in DOMAIN todo : todo[k].op \notin {"buckets", "mask", "collect_free"}
    BY <2>2
  <2> HIDE DEF OrderOK
  <2> QED BY <2>1, <2>3 DEF Slots
<1>8. MovesOn(t, todo)
  BY <1>1, <1>6, TodoMoves DEF IInv
<1>9. holder'.todo = todo /\ Scanned' \subseteq Scanned
  BY <1>8, MovesOnFacts DEF IInv
<1>10. CheckInv'
  <2>1. \A k \in DOMAIN todo : todo[k].op \in {"imp", "sel"}
    BY <1>4, <1>5 DEF Slots
  <2>2. todo # <<>> => 1 \in DOMAIN todo
    OBVIOUS
  <2>3. todo # <<>> => todo[1].op # "check" /\ todo[1].op # "dispose"
    BY <2>1, <2>2
  <2> QED BY <1>9, <2>3 DEF CheckInv, Next1
<1>11. Scanned \cap garbage = {}
  BY <1>3, <1>4 DEF IInv, CheckInv, Next1
<1>12. DOMAIN heap = Block \cup {Empty} /\ garbage \subseteq Block /\ InUse \subseteq Block \cup {Empty}
       /\ garbage \cap InUse = {} /\ Empty \notin garbage
  BY Constants DEF IInv, TypeInv, InUse, HeapInv
<1>13. Scanned \subseteq Block \cup {Empty}
  <2>1. \A u \in Thread : Reads(u) => thread[u].b \in Block \cup {Empty}
    BY ReadFacts
  <2> QED BY <2>1 DEF Scanned
<1>14. \A b \in InUse \cup Scanned' \cup {Empty} : heap'[b] = heap[b]
  BY <1>1, <1>9, <1>11, <1>12, <1>13
<1>15. DOMAIN heap' = Block \cup {Empty} /\ \A b \in Block : heap'[b] \in {heap[b], Freed}
  BY <1>1, <1>12
<1>16. garbage' \subseteq Block /\ garbage_size' \in Nat /\ garbage' \cap InUse = {} /\ \A b \in garbage' : heap'[b] # Freed
  BY <1>1
<1>17. UNCHANGED <<buckets, mask, occupied, methods, newest, limits>>
  BY <1>1
<1> HIDE DEF OrderOK
<1> QED BY <1>4, <1>7, <1>8, <1>10, <1>14, <1>15, <1>16, <1>17, GarbageStep

\* The holder has looked at a thread, or at all.
LEMMA CheckStep ==
  ASSUME IInv, NEW t \in Thread, NEW todo \in Seq(Store), MovesOn(t, todo),
         UNCHANGED <<cache, methods, newest, limits>>,
         NEW rest, Slots(rest), ~Next1("buckets"), \A c \in Class : ~MaskPending(c),
         NEW n \in {0, 1, 2}, Len(todo) = Len(rest) + n, \A k \in DOMAIN rest : todo[k + n] = rest[k],
         n = 1 => todo[1].op = "dispose",
         n = 2 => todo[1].op = "check" /\ todo[2].op = "dispose",
         CheckInv'
  PROVE  IInv'
<1>1. /\ OrderOK(todo)
      /\ \A k \in DOMAIN todo : todo[k].op \notin {"buckets", "mask", "collect_free"}
      /\ \A k \in DOMAIN todo : todo[k].op \in {"imp", "sel"} =>
           (\E j \in DOMAIN holder.todo : todo[k] = holder.todo[j]) /\ (todo[k].op = "sel" => k # 1)
      /\ \A j \in DOMAIN holder.todo : holder.todo[j].op = "sel" => \E k \in DOMAIN todo : todo[k].op = "sel"
  <2> HIDE DEF OrderOK, Slots
  <2> QED BY SlotsAfter, SMTT(30)
<1>2. /\ DOMAIN heap' = Block \cup {Empty} /\ garbage' \subseteq Block /\ garbage_size' \in Nat
      /\ \A b \in InUse \cup Scanned' \cup {Empty} : heap'[b] = heap[b]
      /\ \A b \in Block : heap'[b] \in {heap[b], Freed}
      /\ garbage' \cap InUse = {} /\ \A b \in garbage' : heap'[b] # Freed
      /\ UNCHANGED <<buckets, mask, occupied, methods, newest, limits>>
  BY DEF cache, IInv, TypeInv, HeapInv
<1> HIDE DEF OrderOK
<1> QED BY <1>1, <1>2, GarbageStep

LEMMA CollectingInCriticalStep ==
  ASSUME IInv, NEW t \in Thread, CollectingInCritical(t) PROVE IInv'
<1>1. /\ thread[t].pc = "write" /\ thread[t].todo # <<>> /\ Head(thread[t].todo).op = "check"
      /\ UNCHANGED <<cache, runtimeLock, methods, newest, limits>>
  BY DEF CollectingInCritical, Writing
<1>2. PICK s : s = thread[t].todo
  OBVIOUS
<1>3. holder = thread[t] /\ s = holder.todo /\ s # <<>> /\ Head(s) = s[1]
  BY <1>1, <1>2, WriterHolds DEF IInv
<1>4. /\ s \in Seq(Store) /\ 1 \in DOMAIN s /\ s[1] \in Store /\ Tail(s) \in Seq(Store) /\ s[1].op = "check"
      /\ 1 \in DOMAIN Tail(s) /\ Tail(s) # <<>> /\ Tail(s)[1].op = "dispose" /\ Slots(Tail(Tail(s)))
  BY <1>1, <1>2, <1>3, SlotsBehind
<1>5. PICK w, q, rest : w = s[1] /\ q = Tail(s) /\ rest = Tail(q)
  OBVIOUS
<1>6. /\ w \in Store /\ w.op = "check" /\ w.who \in SUBSET Thread /\ w.collectALot \in BOOLEAN
      /\ q \in Seq(Store) /\ q # <<>> /\ q[1].op = "dispose" /\ rest \in Seq(Store)
  BY <1>4, <1>5, StoreShape DEF Slots
<1>7. /\ Len(rest) \in Nat /\ Len(q) = Len(rest) + 1 /\ \A k \in DOMAIN rest : q[k + 1] = rest[k]
  <2>1. Len(rest) = Len(q) - 1 /\ Len(q) \in Nat /\ \A k \in DOMAIN rest : rest[k] = q[k + 1]
    BY <1>5, <1>6, TailOf
  <2> QED BY <1>6, <2>1
<1>8. \A u \in Thread : Reads(u) /\ thread[u].b \in garbage => u \in w.who
  BY <1>3, <1>4, <1>5 DEF IInv, CheckInv, Next1
<1>9. garbage' = garbage
  BY <1>1 DEF cache
<1>10. Slots(rest) /\ ~Next1("buckets") /\ \A c \in Class : ~MaskPending(c)
  BY <1>2, <1>3, <1>4, <1>5, SlotsBehind
<1>11. ASSUME thread' = [u \in Thread |->
                IF u = t THEN [thread[t] EXCEPT !.todo = q]
                ELSE IF Critical(u) THEN Miss(thread[u]) ELSE thread[u]]
       PROVE  IInv'
  <2>1. thread'[t] = [thread[t] EXCEPT !.todo = q]
    BY <1>11
  <2>2. ASSUME NEW u \in Thread, u # t
        PROVE  IF Critical(u) THEN thread'[u] = Miss(thread[u]) ELSE thread'[u] = thread[u]
    BY <1>11, <2>2
  <2>3. thread' \in [Thread -> Threads]
    <3>1. [thread[t] EXCEPT !.todo = q] \in Threads
      <4>1. thread[t] \in Filling \cup Changing
        BY <1>1, ThreadShape DEF IInv
      <4>2. CASE thread[t] \in Filling
        BY <1>6, <4>2 DEF Filling, Threads
      <4>3. CASE thread[t] \in Changing
        BY <1>6, <4>3 DEF Changing, Threads
      <4> QED BY <4>1, <4>2, <4>3
    <3>2. ASSUME NEW u \in Thread, Critical(u) PROVE Miss(thread[u]) \in Threads
      <4>1. thread[u].c \in Class /\ thread[u].s \in SEL /\ thread[u].floor \in Nat
        BY <3>2, SenderShape DEF Critical, IInv
      <4> QED BY <4>1 DEF Miss, Sending, Threads
    <3>3. \A u \in Thread : thread[u] \in Threads
      BY DEF IInv, TypeInv, Threads
    <3>4. \A u \in Thread : (IF u = t THEN [thread[t] EXCEPT !.todo = q]
                           ELSE IF Critical(u) THEN Miss(thread[u]) ELSE thread[u]) \in Threads
      BY <3>1, <3>2, <3>3
    <3> QED BY <1>11, <3>4
  <2>4. MovesOn(t, q)
    BY <1>1, <2>1, <2>2, <2>3 DEF MovesOn
  <2>5. holder'.todo = q /\ \A u \in Thread : ~Reads(u)'
    <3>1. /\ holder'.todo = q /\ thread'[t].pc = "write"
          /\ \A u \in Thread : Reads(u)' => Reads(u) /\ u # t /\ thread'[u] = thread[u]
      BY <1>6, <2>4, MovesOnFacts DEF IInv
    <3>2. ASSUME NEW u \in Thread, Reads(u)' PROVE FALSE
      <4>1. Critical(u) /\ u # t
        BY <3>1, <3>2 DEF Critical, Reads
      <4>2. thread'[u].pc = "miss"
        <5>1. thread'[u] = Miss(thread[u])
          BY <2>2, <4>1
        <5> QED BY <5>1 DEF Miss
      <4> QED BY <3>2, <4>2 DEF Reads
    <3> QED BY <3>1, <3>2
  <2>6. CheckInv'
    BY <2>5 DEF CheckInv, Scanned
  <2>7. PICK n \in {0, 1, 2} : n = 1
    OBVIOUS
  <2>8. Len(q) = Len(rest) + n /\ \A k \in DOMAIN rest : q[k + n] = rest[k]
    BY <1>7, <2>7
  <2> HIDE DEF Slots
  <2> QED BY <1>1, <1>6, <1>10, <2>4, <2>6, <2>7, <2>8, CheckStep
<1>12. ASSUME w.who = {}, NextWrite(t, <<>>) PROVE IInv'
  <2>1. thread' = [thread EXCEPT ![t].todo = q]
    <3>1. <<>> \o q = q
      BY <1>6
    <3> QED BY <1>2, <1>5, <1>12, <3>1 DEF NextWrite
  <2>2. MovesOn(t, q)
    BY <1>1, <1>6, <2>1, TodoMoves DEF IInv
  <2>3. holder'.todo = q /\ Scanned' \subseteq Scanned
    BY <1>6, <2>2, MovesOnFacts DEF IInv
  <2>4. CheckInv'
    <3>1. Scanned \cap garbage = {}
      BY <1>8, <1>12 DEF Scanned
    <3> QED BY <1>6, <1>9, <2>3, <3>1 DEF CheckInv, Next1
  <2>5. PICK n \in {0, 1, 2} : n = 1
    OBVIOUS
  <2>6. Len(q) = Len(rest) + n /\ \A k \in DOMAIN rest : q[k + n] = rest[k]
    BY <1>7, <2>5
  <2> HIDE DEF Slots
  <2> QED BY <1>1, <1>6, <1>10, <2>2, <2>4, <2>5, <2>6, CheckStep
<1>13. ASSUME NEW u \in w.who,
              thread' = [thread EXCEPT ![t].todo =
                IF ~Critical(u) THEN <<[w EXCEPT !.who = @ \ {u}]>> \o q
                ELSE IF w.collectALot THEN cache_collect(t, TRUE) \o Tail(q) ELSE Tail(q)]
       PROVE  IInv'
  <2>1. CASE ~Critical(u)
    <3>1. PICK x : x = [w EXCEPT !.who = @ \ {u}]
      OBVIOUS
    <3>2. x \in Store /\ x.op = "check" /\ x.who = w.who \ {u}
      BY <1>6, <3>1 DEF Store
    <3>3. PICK todo : todo = <<x>> \o q
      OBVIOUS
    <3>4. /\ todo \in Seq(Store) /\ Len(todo) = Len(rest) + 2 /\ todo[1] = x /\ todo[2] = q[1]
          /\ \A k \in DOMAIN rest : todo[k + 2] = rest[k]
      <4>1. <<x>> \in Seq(Store) /\ Len(<<x>>) = 1 /\ <<x>>[1] = x
        BY <3>2
      <4>2. todo \in Seq(Store) /\ Len(todo) = Len(q) + 1 /\ todo[1] = x /\ \A k \in DOMAIN q : todo[k + 1] = q[k]
        BY <1>6, <3>3, <4>1, Joined
      <4>3. DOMAIN q = 1 .. Len(rest) + 1 /\ DOMAIN rest = 1 .. Len(rest)
        BY <1>6, <1>7
      <4>4. ASSUME NEW k \in DOMAIN rest PROVE todo[k + 2] = rest[k]
        <5>1. k + 1 \in DOMAIN q /\ (k + 1) + 1 = k + 2
          BY <1>7, <4>3
        <5> QED BY <1>7, <4>2, <5>1
      <4>5. todo[2] = q[1]
        <5>1. 1 \in DOMAIN q /\ 1 + 1 = 2
          BY <1>7, <4>3
        <5> QED BY <4>2, <5>1
      <4> QED BY <1>7, <4>2, <4>4, <4>5
    <3>5. thread' = [thread EXCEPT ![t].todo = todo]
      BY <1>13, <2>1, <3>1, <3>3
    <3>6. MovesOn(t, todo)
      BY <1>1, <3>4, <3>5, TodoMoves DEF IInv
    <3>7. holder'.todo = todo /\ \A v \in Thread : Reads(v)' => Reads(v) /\ thread'[v] = thread[v]
      BY <3>4, <3>6, MovesOnFacts DEF IInv
    <3>8. CheckInv'
      <4>1. ~Reads(u)
        BY <2>1 DEF Reads, Critical
      <4>2. \A v \in Thread : Reads(v)' /\ thread'[v].b \in garbage' => v \in x.who
        BY <1>8, <1>9, <3>2, <3>7, <4>1
      <4>3. ~Next1("dispose")' /\ holder'.todo[1] = x
        BY <3>2, <3>4, <3>7 DEF Next1
      <4> QED BY <4>2, <4>3 DEF CheckInv
    <3>9. todo[1].op = "check" /\ todo[2].op = "dispose"
      BY <1>6, <3>2, <3>4
    <3>10. PICK n \in {0, 1, 2} : n = 2
      OBVIOUS
    <3> HIDE DEF Slots
    <3> QED BY <3>10, <1>1, <1>10, <3>4, <3>6, <3>8, <3>9, CheckStep
  <2>2. CASE Critical(u) /\ w.collectALot
    <3>1. PICK x : x = cache_collect(t, TRUE)
      OBVIOUS
    <3>2. x \in Seq(Store) /\ Len(x) = 2 /\ x[1].op = "check" /\ x[2].op = "dispose" /\ x[1].who = Thread \ {t}
      BY <3>1, Checks
    <3>3. PICK todo : todo = x \o rest
      OBVIOUS
    <3>4. /\ todo \in Seq(Store) /\ Len(todo) = Len(rest) + 2 /\ todo[1] = x[1] /\ todo[2] = x[2]
          /\ \A k \in DOMAIN rest : todo[k + 2] = rest[k]
      <4>1. /\ todo \in Seq(Store) /\ Len(todo) = Len(x) + Len(rest)
            /\ \A k \in 1 .. Len(x) : todo[k] = x[k]
            /\ \A k \in DOMAIN rest : todo[k + Len(x)] = rest[k]
        <5>1. /\ x \o rest \in Seq(Store) /\ Len(x \o rest) = Len(x) + Len(rest)
              /\ \A k \in 1 .. Len(x) : (x \o rest)[k] = x[k]
              /\ \A k \in DOMAIN rest : (x \o rest)[k + Len(x)] = rest[k]
          BY <1>6, <3>2, Joined
        <5> QED BY <3>3, <5>1
      <4> QED BY <1>7, <3>2, <4>1
    <3>5. thread' = [thread EXCEPT ![t].todo = todo]
      BY <1>5, <1>13, <2>2, <3>1, <3>3
    <3>6. MovesOn(t, todo)
      BY <1>1, <3>4, <3>5, TodoMoves DEF IInv
    <3>7. holder'.todo = todo /\ \A v \in Thread : Reads(v)' => v # t
      BY <3>4, <3>6, MovesOnFacts DEF IInv
    <3>8. CheckInv'
      <4>1. ~Next1("dispose")' /\ holder'.todo[1] = x[1]
        BY <3>2, <3>4, <3>7 DEF Next1
      <4> QED BY <3>2, <3>7, <4>1 DEF CheckInv
    <3>9. todo[1].op = "check" /\ todo[2].op = "dispose"
      BY <3>2, <3>4
    <3>10. PICK n \in {0, 1, 2} : n = 2
      OBVIOUS
    <3> HIDE DEF Slots
    <3> QED BY <3>10, <1>1, <1>10, <3>4, <3>6, <3>8, <3>9, CheckStep
  <2>3. CASE Critical(u) /\ ~w.collectALot
    <3>1. thread' = [thread EXCEPT ![t].todo = rest]
      BY <1>5, <1>13, <2>3
    <3>2. MovesOn(t, rest)
      BY <1>1, <1>6, <3>1, TodoMoves DEF IInv
    <3>3. holder'.todo = rest
      BY <1>6, <3>2, MovesOnFacts DEF IInv
    <3>4. CheckInv'
      <4>1. \A k \in DOMAIN rest : rest[k].op \in {"imp", "sel"}
        BY <1>4, <1>5 DEF Slots
      <4>2. rest # <<>> => 1 \in DOMAIN rest
        BY <1>6
      <4>3. rest # <<>> => rest[1].op # "check" /\ rest[1].op # "dispose"
        BY <4>1, <4>2
      <4> QED BY <3>3, <4>3 DEF CheckInv, Next1
    <3>5. PICK n \in {0, 1, 2} : n = 0
      OBVIOUS
    <3>6. Len(rest) = Len(rest) + n /\ \A k \in DOMAIN rest : rest[k + n] = rest[k]
      BY <1>6, <1>7, <3>5
    <3> HIDE DEF Slots
    <3> QED BY <3>6, <1>1, <1>6, <1>10, <3>2, <3>4, <3>5, CheckStep
  <2> QED BY <2>1, <2>2, <2>3
<1>14. w = Head(thread[t].todo) /\ q = Tail(thread[t].todo)
  BY <1>2, <1>3, <1>5
<1> QED BY <1>11, <1>12, <1>13, <1>14 DEF CollectingInCritical

--------------------------------------------------------------------------------
(* Steps between the stores *)

\* The stores of a cache are made, or have not begun: what is left may be a check.
LEMMA QuietStep ==
  ASSUME IInv, NEW t \in Thread, UNCHANGED cache, TypeInv', MethodsInv', LockInv',
         \A u \in Thread : u # t => thread'[u] = thread[u],
         ~Reads(t), ~Reads(t)', thread'[t].pc # "buckets", FloorOK(t)',
         holder.todo = <<>>, NEW todo \in Seq(Store), holder'.todo = todo, OrderOK(todo), CheckInv',
         \A k \in DOMAIN todo : todo[k].op \in {"check", "dispose"},
         \A c \in Class, s \in SEL : newest[c][s] <= newest'[c][s], ShowsInv'
  PROVE  IInv'
<1>1. /\ heap' = heap /\ buckets' = buckets /\ mask' = mask /\ occupied' = occupied /\ garbage' = garbage
  BY DEF cache
<1>2. InUse' = InUse
  BY <1>1 DEF InUse
<1>3. ~Next1("buckets") /\ ~Next1("buckets")' /\ \A c \in Class : Target(c) = buckets[c] /\ Target(c)' = buckets[c]
  <2>1. todo # <<>> => 1 \in DOMAIN todo
    OBVIOUS
  <2>2. ~Next1("buckets") /\ ~Next1("buckets")'
    BY <2>1 DEF Next1
  <2> QED BY <1>1, <2>2 DEF Switches, Target
<1>4. \A c \in Class : ~MaskPending(c) /\ ~MaskPending(c)' /\ ~SelPending(c) /\ ~SelPending(c)'
  BY DEF MaskPending, SelPending
<1>5. WriterInv'
  <2>1. OrderInv'
    BY DEF OrderInv
  <2>2. BucketsInv' /\ StoredMaskInv' /\ FreeInv' /\ SlotInv'
    BY <1>3 DEF BucketsInv, StoredMaskInv, FreeInv, SlotInv
  <2> QED BY <2>1, <2>2 DEF WriterInv
<1>6. BlockInv'
  <2>1. HeapInv' /\ GuaranteedEmptySlot'
    BY <1>1, <1>2 DEF IInv, HeapInv, GuaranteedEmptySlot
  <2>2. MaskInv'
    BY <1>1, <1>4 DEF IInv, MaskInv
  <2>3. \A c \in Class : Counts(c, buckets[c])
    BY <1>3 DEF IInv, CountInv
  <2>4. \A c \in Class : Counts(c, Target(c))'
    BY <1>1, <1>3, <1>4, <2>3 DEF Counts
  <2> QED BY <2>1, <2>2, <2>4 DEF BlockInv, CountInv
<1>7. ReaderInv'
  <2>1. ASSUME NEW u \in Thread PROVE ReaderOK(u)'
    <3>1. CASE u = t
      BY <3>1 DEF ReaderOK, Reads
    <3>2. CASE u # t
      <4>1. ReaderOK(u) /\ thread'[u] = thread[u]
        BY <3>2 DEF IInv, ReaderInv
      <4> QED BY <1>1, <4>1 DEF ReaderOK, Reads
    <3> QED BY <3>1, <3>2
  <2>2. ASSUME NEW u \in Thread PROVE FloorOK(u)'
    <3>1. CASE u # t
      <4>1. FloorOK(u) /\ thread'[u] = thread[u]
        BY <3>1 DEF IInv, ReaderInv
      <4>2. SUFFICES ASSUME thread[u].pc \notin {"idle", "collect"}, thread[u].pc = "write" => thread[u].then = "return"
                     PROVE  thread[u].floor <= newest'[thread[u].c][thread[u].s]
        BY <4>1 DEF FloorOK
      <4>3. PICK c \in Class, s \in SEL : c = thread[u].c /\ s = thread[u].s /\ thread[u].floor \in Nat
        BY <4>2, SenderShape DEF IInv
      <4>4. newest[c][s] \in Nat /\ newest'[c][s] \in Nat
        BY DEF IInv, TypeInv
      <4>5. thread[u].floor <= newest[c][s] /\ newest[c][s] <= newest'[c][s]
        BY <4>1, <4>2, <4>3 DEF FloorOK
      <4> QED BY <4>3, <4>4, <4>5
    <3> QED BY <3>1
  <2> QED BY <2>1, <2>2 DEF ReaderInv
<1> QED BY <1>5, <1>6, <1>7 DEF IInv, WriterInv, BlockInv

\* What a cache shows, when a step changes only what is awaited, or whom it answers.
LEMMA QuietShows ==
  ASSUME TypeInv, heap[Empty] = emptyBuckets, heap' = heap, buckets' = buckets,
         NEW t \in Thread, \A u \in Thread : u # t => thread'[u] = thread[u],
         NEW c \in Class, NEW s \in SEL, NEW v \in Nat, NEW w \in Nat, v <= w, Shows(c, s, v),
         v = w \/ buckets[c] = Empty,
         Finds(t, c, s, w)', c \notin Awaiting' => w = Effective(c, s)',
         Fills' /\ holder'.c = c /\ holder'.s = s => holder'.imp = [sel |-> s, version |-> w]
  PROVE  Shows(c, s, w)'
<1>1. Holds(buckets[c], s, w, w)
  <2>1. CASE v = w
    BY <2>1 DEF Shows
  <2>2. CASE buckets[c] = Empty
    BY <2>2, EmptyShape, Constants DEF Holds
  <2> QED BY <2>1, <2>2
<1>2. Holds(buckets[c], s, w, w)'
  BY <1>1 DEF Holds
<1>3. ASSUME NEW u \in Thread PROVE Finds(u, c, s, w)'
  <2>1. CASE u # t
    <3>1. Finds(u, c, s, w)
      BY FindsGrow DEF Shows
    <3> QED BY <2>1, <3>1 DEF Finds, Holds, Reads
  <2> QED BY <2>1
<1> QED BY <1>2, <1>3 DEF Shows

\* The lock is free, and then t has it with x to do.
LEMMA TakeLock ==
  ASSUME TypeInv, LockInv, NEW t \in Thread, NEW x \in Filling \cup Changing,
         runtimeLock = nil, runtimeLock' = t, thread' = [thread EXCEPT ![t] = x]
  PROVE  /\ LockInv' /\ thread' \in [Thread -> Threads] /\ holder' = x /\ thread'[t] = x /\ x.pc = "write"
         /\ \A u \in Thread : u # t => thread'[u] = thread[u]
         /\ \A u \in Thread : thread[u].pc # "write"
         /\ holder = Nobody /\ holder.todo = <<>> /\ ~Fills /\ Awaiting = {}
         /\ \A c \in Class, s \in SEL : \A v : Shows(c, s, v) => v = Effective(c, s)
<1>1. x.pc = "write" /\ x \in Threads
  BY DEF Filling, Changing, Threads
<1>2. thread \in [Thread -> Threads]
  BY DEF TypeInv, Threads
<1>3. \A u \in Thread : thread[u].pc # "write"
  BY Constants DEF LockInv
<1>4. LockInv'
  BY <1>1, <1>2, <1>3 DEF LockInv
<1>5. holder = Nobody /\ holder.todo = <<>> /\ holder.erase = {} /\ ~Fills
  BY DEF holder, Nobody, Fills
<1>6. Awaiting = {}
  BY <1>5 DEF Awaiting, Switches, Next1
<1>7. holder' = x
  BY <1>2, Constants DEF holder
<1> QED BY <1>1, <1>2, <1>3, <1>4, <1>5, <1>6, <1>7 DEF Shows

LEMMA CollectALotStep ==
  ASSUME IInv, NEW t \in Thread, CollectALot(t) PROVE IInv'
<1>1. PICK todo : todo = cache_collect(t, TRUE)
  OBVIOUS
<1>2. todo \in Seq(Store) /\ Len(todo) = 2 /\ todo[1].op = "check" /\ todo[2].op = "dispose" /\ todo[1].who = Thread \ {t}
  BY <1>1, Checks
<1>3. PICK x : x = [pc |-> "write", then |-> "idle", erase |-> {}, todo |-> todo]
  OBVIOUS
<1>4. x \in Changing /\ x.todo = todo /\ x.then = "idle" /\ x.erase = {} /\ x.pc = "write"
  BY <1>2, <1>3 DEF Changing
<1>5. /\ thread[t].pc = "collect" /\ runtimeLock = nil /\ runtimeLock' = t /\ thread' = [thread EXCEPT ![t] = x]
      /\ UNCHANGED <<cache, methods, newest, limits>>
  BY <1>1, <1>3 DEF CollectALot
<1>6. /\ LockInv' /\ thread' \in [Thread -> Threads] /\ holder' = x /\ thread'[t] = x
      /\ \A u \in Thread : u # t => thread'[u] = thread[u]
      /\ holder.todo = <<>> /\ ~Fills /\ Awaiting = {}
      /\ \A c \in Class, s \in SEL : \A v : Shows(c, s, v) => v = Effective(c, s)
  BY <1>4, <1>5, TakeLock DEF IInv
<1>7. TypeInv' /\ MethodsInv'
  BY <1>5, <1>6 DEF IInv, TypeInv, MethodsInv, cache, limits, Threads
<1>8. ~Reads(t) /\ ~Reads(t)' /\ thread'[t].pc # "buckets" /\ FloorOK(t)'
  BY <1>4, <1>5, <1>6 DEF Reads, FloorOK
<1>9. OrderOK(todo) /\ \A k \in DOMAIN todo : todo[k].op \in {"check", "dispose"}
  <2>1. DOMAIN todo = {1, 2}
    BY <1>2
  <2> QED BY <1>2, <2>1 DEF OrderOK
<1>10. CheckInv'
  <2>1. ~Next1("dispose")' /\ holder'.todo[1].who = Thread \ {t}
    BY <1>2, <1>4, <1>6 DEF Next1
  <2> QED BY <1>8, <2>1 DEF CheckInv
<1>11. \A c \in Class, s \in SEL : newest[c][s] <= newest'[c][s]
  BY <1>5 DEF IInv, TypeInv
<1>12. ShowsInv'
  <2>1. ASSUME NEW c \in Class, NEW s \in SEL
        PROVE  \E v \in newest[c][s] .. Effective(c, s) : Shows(c, s, v)'
    <3>1. PICK v \in newest[c][s] .. Effective(c, s) : Shows(c, s, v)
      BY DEF IInv, ShowsInv
    <3>2. v \in Nat
      BY <3>1, EffectiveNat DEF IInv, TypeInv
    <3>3. Effective(c, s)' = Effective(c, s) /\ v = Effective(c, s)
      BY <1>5, <1>6, <3>1 DEF Effective
    <3>4. Finds(t, c, s, v)' /\ ~Fills'
      BY <1>4, <1>6, <1>8 DEF Finds, Fills
    <3>5. heap[Empty] = emptyBuckets /\ heap' = heap /\ buckets' = buckets
      BY <1>5 DEF IInv, HeapInv, cache
    <3>6. v <= v
      BY <3>2
    <3>7. Shows(c, s, v)'
      BY <1>6, <3>1, <3>2, <3>3, <3>4, <3>5, <3>6, QuietShows DEF IInv
    <3> QED BY <3>1, <3>7
  <2> QED BY <1>5, <2>1 DEF ShowsInv, Effective
<1> QED BY <1>2, <1>4, <1>5, <1>6, <1>7, <1>8, <1>9, <1>10, <1>11, <1>12, QuietStep

\* A change takes the lock: the caches of cs show versions that are older, from now on.
LEMMA ChangedStep ==
  ASSUME IInv, NEW t \in Thread, NEW then \in {"idle", "collect"}, NEW cs \in SUBSET Class,
         thread[t].pc = "idle", Changed(t, then, cs), UNCHANGED <<cache, newest, shouldUseRestartableRanges, sends>>,
         changes' \in Nat, methods' \in [Class -> [SEL -> Nat]], MethodsInv',
         \A c \in Class, s \in SEL : /\ Effective(c, s)' \in Nat /\ Effective(c, s) <= Effective(c, s)'
                                     /\ c \notin cs => Effective(c, s)' = Effective(c, s)
  PROVE  IInv'
<1>1. PICK x : x = [pc |-> "write", then |-> then, erase |-> cs, todo |-> <<>>]
  OBVIOUS
<1>2. x \in Changing /\ x.todo = <<>> /\ x.then = then /\ x.erase = cs /\ x.pc = "write"
  <2>1. <<>> \in Seq(Store)
    OBVIOUS
  <2> QED BY <1>1, <2>1 DEF Changing
<1>3. runtimeLock = nil /\ runtimeLock' = t /\ thread' = [thread EXCEPT ![t] = x]
  BY <1>1 DEF Changed
<1>4. /\ LockInv' /\ thread' \in [Thread -> Threads] /\ holder' = x /\ thread'[t] = x
      /\ \A u \in Thread : u # t => thread'[u] = thread[u]
      /\ holder.todo = <<>> /\ ~Fills /\ Awaiting = {}
      /\ \A c \in Class, s \in SEL : \A v : Shows(c, s, v) => v = Effective(c, s)
  BY <1>2, <1>3, TakeLock DEF IInv
<1>5. TypeInv'
  BY <1>3, <1>4 DEF IInv, TypeInv, cache, Threads
<1>6. ~Reads(t) /\ ~Reads(t)' /\ thread'[t].pc # "buckets" /\ FloorOK(t)'
  BY <1>2, <1>4 DEF Reads, FloorOK
<1>7. PICK todo \in Seq(Store) : todo = <<>>
  <2>1. <<>> \in Seq(Store)
    OBVIOUS
  <2> QED BY <2>1
<1>8. OrderOK(todo) /\ (\A k \in DOMAIN todo : todo[k].op \in {"check", "dispose"}) /\ holder'.todo = todo
  BY <1>2, <1>4, <1>7 DEF OrderOK
<1>9. ~Next1("check")' /\ ~Next1("dispose")' /\ ~Next1("buckets")' /\ ~Fills'
  BY <1>2, <1>4 DEF Next1, Fills
<1>10. Awaiting' = cs
  BY <1>2, <1>4, <1>9 DEF Awaiting, Switches
<1>11. CheckInv'
  BY <1>9 DEF CheckInv
<1>12. \A c \in Class, s \in SEL : newest[c][s] <= newest'[c][s]
  BY DEF IInv, TypeInv
<1>13. ShowsInv'
  <2>1. ASSUME NEW c \in Class, NEW s \in SEL
        PROVE  \E v \in newest[c][s] .. (Effective(c, s)') : Shows(c, s, v)'
    <3>1. PICK v \in newest[c][s] .. Effective(c, s) : Shows(c, s, v)
      BY DEF IInv, ShowsInv
    <3>2. v \in Nat /\ newest[c][s] \in Nat /\ Effective(c, s) \in Nat
      BY <3>1, EffectiveNat DEF IInv, TypeInv
    <3>3. v \in newest[c][s] .. (Effective(c, s)')
      BY <3>1, <3>2
    <3>4. c \notin Awaiting' => v = Effective(c, s)'
      BY <1>4, <1>10, <3>1
    <3>5. Finds(t, c, s, v)'
      BY <1>2, <1>4, <1>6 DEF Finds
    <3>6. heap[Empty] = emptyBuckets /\ heap' = heap /\ buckets' = buckets
      BY DEF IInv, HeapInv, cache
    <3>7. v <= v
      BY <3>2
    <3>8. Shows(c, s, v)'
      BY <1>4, <1>9, <3>1, <3>2, <3>4, <3>5, <3>6, <3>7, QuietShows DEF IInv
    <3> QED BY <3>3, <3>8
  <2> QED BY <2>1 DEF ShowsInv
<1> QED BY <1>4, <1>5, <1>6, <1>8, <1>11, <1>12, <1>13, QuietStep

LEMMA ReplaceMethodStep ==
  ASSUME IInv, NEW t \in Thread, NEW c \in Class, NEW s \in SEL, replaceMethod(t, c, s) PROVE IInv'
<1>1. /\ thread[t].pc = "idle" /\ changes' = changes + 1 /\ methods' = [methods EXCEPT ![c][s] = changes' + 1]
      /\ Changed(t, "idle", flushed(c))
      /\ UNCHANGED <<cache, newest, shouldUseRestartableRanges, sends>>
  BY DEF replaceMethod
<1>2. changes \in Nat /\ changes' \in Nat /\ methods \in [Class -> [SEL -> Nat]]
  BY <1>1 DEF IInv, TypeInv
<1>3. methods' \in [Class -> [SEL -> Nat]]
  BY <1>1, <1>2
<1>4. /\ methods'[c][s] = changes + 2
      /\ \A d \in Class, x \in SEL : d # c \/ x # s => methods'[d][x] = methods[d][x]
  BY <1>1, <1>2
<1>5. MethodsInv'
  <2>1. ASSUME NEW d \in Class, NEW x \in SEL
        PROVE  methods'[d][x] <= changes' + 1 /\ (Superclass[d] = nil => methods'[d][x] # 0)
    <3>1. methods[d][x] \in Nat /\ methods[d][x] <= changes + 1 /\ (Superclass[d] = nil => methods[d][x] # 0)
      BY <1>2 DEF IInv, MethodsInv
    <3>2. CASE d = c /\ x = s
      BY <1>1, <1>2, <1>4, <3>2
    <3>3. CASE d # c \/ x # s
      BY <1>1, <1>2, <1>4, <3>1, <3>3
    <3> QED BY <3>2, <3>3
  <2> QED BY <2>1 DEF MethodsInv
<1>6. flushed(c) \in SUBSET Class
  BY DEF flushed
<1>7. ASSUME NEW d \in Class, NEW x \in SEL
      PROVE  /\ Effective(d, x)' \in Nat /\ Effective(d, x) <= Effective(d, x)'
             /\ d \notin flushed(c) => Effective(d, x)' = Effective(d, x)
  <2>1. Effective(d, x) \in Nat /\ Effective(d, x) <= changes + 1
    BY EffectiveNat DEF IInv
  <2>2. Effective(d, x)' = IF methods'[d][x] # 0 THEN methods'[d][x] ELSE methods'[Superclass[d]][x]
    BY DEF Effective
  <2>3. methods[d][x] = 0 => Superclass[d] \in Class
    BY ClassAssumption DEF IInv, MethodsInv
  <2>4. CASE d = c /\ x = s
    BY <1>2, <1>4, <2>1, <2>2, <2>4 DEF flushed
  <2>5. CASE (d # c \/ x # s) /\ methods[d][x] # 0
    BY <1>4, <2>1, <2>2, <2>5 DEF Effective
  <2>6. CASE (d # c \/ x # s) /\ methods[d][x] = 0 /\ Superclass[d] = c /\ x = s
    BY <1>2, <1>4, <2>1, <2>2, <2>6 DEF flushed
  <2>7. CASE (d # c \/ x # s) /\ methods[d][x] = 0 /\ (Superclass[d] # c \/ x # s)
    <3>1. methods'[Superclass[d]][x] = methods[Superclass[d]][x] /\ methods'[d][x] = 0
      BY <1>4, <2>3, <2>7
    <3>2. Effective(d, x)' = Effective(d, x)
      BY <2>2, <2>7, <3>1 DEF Effective
    <3> QED BY <2>1, <3>2
  <2> QED BY <2>4, <2>5, <2>6, <2>7
<1>8. "idle" \in {"idle", "collect"}
  OBVIOUS
<1> QED BY <1>1, <1>2, <1>3, <1>5, <1>6, <1>7, <1>8, ChangedStep

LEMMA FlushCachesStep ==
  ASSUME IInv, NEW t \in Thread, flush_caches(t) PROVE IInv'
<1>1. /\ thread[t].pc = "idle" /\ changes' = changes + 1 /\ methods' = methods
      /\ Changed(t, "collect", flushed(nil))
      /\ UNCHANGED <<cache, newest, shouldUseRestartableRanges, sends>>
  BY DEF flush_caches
<1>2. changes \in Nat /\ changes' \in Nat /\ methods \in [Class -> [SEL -> Nat]]
  BY <1>1 DEF IInv, TypeInv
<1>3. MethodsInv'
  BY <1>1, <1>2 DEF IInv, MethodsInv
<1>4. flushed(nil) \in SUBSET Class /\ "collect" \in {"idle", "collect"}
  BY DEF flushed
<1>5. ASSUME NEW d \in Class, NEW x \in SEL
      PROVE  /\ Effective(d, x)' \in Nat /\ Effective(d, x) <= Effective(d, x)'
             /\ d \notin flushed(nil) => Effective(d, x)' = Effective(d, x)
  <2>1. Effective(d, x) \in Nat /\ Effective(d, x)' = Effective(d, x)
    BY <1>1, EffectiveNat DEF IInv, Effective
  <2> QED BY <2>1
<1> QED BY <1>1, <1>2, <1>3, <1>4, <1>5, ChangedStep

LEMMA UnlockStep ==
  ASSUME IInv, NEW t \in Thread, Unlock(t) PROVE IInv'
<1>1. /\ thread[t].pc = "write" /\ thread[t].todo = <<>> /\ thread[t].erase = {} /\ runtimeLock' = nil
      /\ UNCHANGED <<cache, methods, limits>>
  BY DEF Unlock
<1>2. holder = thread[t] /\ runtimeLock = t
  BY <1>1, WriterHolds DEF IInv
<1>3. Awaiting = {} /\ holder.todo = <<>> /\ holder' = Nobody
  BY <1>1, <1>2 DEF Awaiting, Switches, Next1, holder
<1>4. PICK todo \in Seq(Store) : todo = <<>>
  <2>1. <<>> \in Seq(Store)
    OBVIOUS
  <2> QED BY <2>1
<1>5. /\ OrderOK(todo) /\ (\A k \in DOMAIN todo : todo[k].op \in {"check", "dispose"}) /\ holder'.todo = todo
      /\ ~Fills' /\ CheckInv'
  BY <1>3, <1>4 DEF OrderOK, Fills, CheckInv, Next1, Nobody
<1>6. ASSUME NEW x \in Resting \cup Returning, thread' = [thread EXCEPT ![t] = x],
             newest' \in [Class -> [SEL -> Nat]],
             x.pc = "return" => x.floor <= newest'[x.c][x.s],
             \A c \in Class, s \in SEL : newest[c][s] <= newest'[c][s] /\ newest'[c][s] <= Effective(c, s),
             x.pc = "return" => /\ Fills /\ holder.c = x.c /\ holder.s = x.s /\ holder.imp = x.imp
                                /\ holder.floor = x.floor
      PROVE  IInv'
  <2>1. x \in Threads /\ x.pc \in {"idle", "collect", "return"}
    BY <1>6 DEF Resting, Returning, Threads
  <2>2. /\ thread'[t] = x /\ thread' \in [Thread -> Threads] /\ \A u \in Thread : u # t => thread'[u] = thread[u]
    BY <1>6, <2>1 DEF IInv, TypeInv, Threads
  <2>3. TypeInv' /\ MethodsInv'
    BY <1>1, <1>6, <2>2 DEF IInv, TypeInv, MethodsInv, cache, limits, Threads
  <2>4. LockInv'
    BY <1>1, <1>2, <2>1, <2>2, Constants DEF IInv, LockInv
  <2>5. ~Reads(t) /\ ~Reads(t)' /\ thread'[t].pc # "buckets" /\ FloorOK(t)'
    BY <1>1, <1>6, <2>1, <2>2 DEF Reads, FloorOK
  <2>6. ShowsInv'
    <3>1. ASSUME NEW c \in Class, NEW s \in SEL
          PROVE  \E v \in newest'[c][s] .. Effective(c, s) : Shows(c, s, v)'
      <4>1. PICK v \in newest[c][s] .. Effective(c, s) : Shows(c, s, v)
        BY DEF IInv, ShowsInv
      <4>2. v \in Nat /\ newest[c][s] \in Nat /\ newest'[c][s] \in Nat /\ Effective(c, s) \in Nat
        BY <1>6, <4>1, EffectiveNat DEF IInv, TypeInv
      <4>3. v = Effective(c, s) /\ v <= v /\ Effective(c, s)' = Effective(c, s)
        BY <1>1, <1>3, <4>1, <4>2 DEF Shows, Effective
      <4>4. v \in newest'[c][s] .. Effective(c, s)
        BY <1>6, <4>2, <4>3
      <4>5. Finds(t, c, s, v)'
        <5>1. SUFFICES ASSUME x.pc = "return", x.c = c, x.s = s
                       PROVE  x.imp.sel = s /\ x.imp.version \in x.floor .. v
          BY <2>2, <2>5 DEF Finds
        <5>2. x.imp = [sel |-> s, version |-> v]
          BY <1>6, <4>1, <5>1 DEF Shows
        <5>3. x \in Returning
          BY <1>6, <5>1 DEF Resting
        <5>4. x.floor \in Nat /\ x.floor <= newest'[c][s]
          BY <1>6, <5>1, <5>3 DEF Returning
        <5> QED BY <4>2, <4>4, <5>2, <5>4
      <4>6. heap[Empty] = emptyBuckets /\ heap' = heap /\ buckets' = buckets
        BY <1>1 DEF IInv, HeapInv, cache
      <4>7. Shows(c, s, v)'
        BY <1>5, <2>2, <4>1, <4>2, <4>3, <4>5, <4>6, QuietShows DEF IInv
      <4> QED BY <4>4, <4>7
    <3> QED BY <1>1, <3>1 DEF ShowsInv, Effective
  <2> QED BY <1>1, <1>3, <1>5, <1>6, <2>2, <2>3, <2>4, <2>5, <2>6, QuietStep
<1>7. \A c \in Class, s \in SEL : /\ newest[c][s] \in Nat /\ Effective(c, s) \in Nat
                                  /\ newest[c][s] <= Effective(c, s)
  <2>1. ASSUME NEW c \in Class, NEW s \in SEL
        PROVE  newest[c][s] \in Nat /\ Effective(c, s) \in Nat /\ newest[c][s] <= Effective(c, s)
    <3>1. newest[c][s] \in Nat /\ Effective(c, s) \in Nat
      BY EffectiveNat DEF IInv, TypeInv
    <3>2. \E v \in newest[c][s] .. Effective(c, s) : TRUE
      BY DEF IInv, ShowsInv
    <3> QED BY <3>1, <3>2
  <2> QED BY <2>1
<1>8. CASE thread[t].then = "return"
  <2>1. PICK x : x = Found(thread[t], thread[t].imp)
    OBVIOUS
  <2>2. thread[t] \in Filling
    BY <1>1, <1>8, ThreadShape DEF IInv
  <2>3. /\ x \in Returning /\ x.pc = "return" /\ x.c = thread[t].c /\ x.s = thread[t].s /\ x.imp = thread[t].imp
        /\ x.floor = thread[t].floor /\ x.c \in Class /\ x.s \in SEL
    BY <2>1, <2>2 DEF Found, Filling, Returning
  <2>4. thread' = [thread EXCEPT ![t] = x] /\ newest' = newest
    BY <1>8, <2>1 DEF Unlock
  <2>5. x.floor <= newest[x.c][x.s]
    <3>1. FloorOK(t)
      BY DEF IInv, ReaderInv
    <3> QED BY <1>1, <1>8, <2>3, <3>1 DEF FloorOK
  <2>6. newest' \in [Class -> [SEL -> Nat]] /\ Fills
    BY <1>2, <1>8, <2>4 DEF IInv, TypeInv, Fills
  <2>7. \A c \in Class, s \in SEL : newest[c][s] <= newest'[c][s] /\ newest'[c][s] <= Effective(c, s)
    BY <1>7, <2>4
  <2> QED BY <1>2, <1>6, <2>3, <2>4, <2>5, <2>6, <2>7
<1>9. CASE thread[t].then # "return"
  <2>1. PICK x : x = [pc |-> thread[t].then]
    OBVIOUS
  <2>2. thread[t] \in Changing
    BY <1>1, <1>9, ThreadShape DEF IInv
  <2>3. x \in Resting /\ x.pc # "return"
    BY <2>1, <2>2, <1>9 DEF Changing, Resting
  <2>4. thread' = [thread EXCEPT ![t] = x] /\ newest' = [c \in Class |-> [s \in SEL |-> Effective(c, s)]]
    BY <1>9, <2>1 DEF Unlock
  <2>5. newest' \in [Class -> [SEL -> Nat]]
    BY <1>7, <2>4
  <2>6. \A c \in Class, s \in SEL : newest[c][s] <= newest'[c][s] /\ newest'[c][s] <= Effective(c, s)
    BY <1>7, <2>4
  <2> QED BY <1>6, <2>3, <2>4, <2>5, <2>6
<1> QED BY <1>8, <1>9

\* flushCaches goes on to a class whose cache is not empty: it will show the newest
\* versions as soon as its buckets are the empty ones.
LEMMA EraseSome ==
  ASSUME IInv, NEW t \in Thread, NEW c \in thread[t].erase,
         thread[t].pc = "write", thread[t].todo = <<>>, thread[t].then # "return",
         UNCHANGED <<heap, buckets, mask, garbage, garbage_size, runtimeLock, methods, newest, limits>>,
         occupied' = [occupied EXCEPT ![c] = 0], capacity(c) > 0, occupied[c] > 0,
         thread' = [thread EXCEPT ![t].todo = Erase(c), ![t].erase = @ \ {c}]
  PROVE  IInv'
<1>1. holder = thread[t] /\ runtimeLock = t /\ ~Fills /\ thread[t] \in Changing /\ c \in Class
  <2>1. thread[t] \in Changing
    BY ThreadShape DEF IInv
  <2>2. holder = thread[t] /\ runtimeLock = t
    BY WriterHolds DEF IInv
  <2> QED BY <2>1, <2>2 DEF Changing, Fills
<1>2. ~Next1("buckets") /\ \A d \in Class : Target(d) = buckets[d] /\ ~MaskPending(d) /\ ~SelPending(d)
  BY <1>1 DEF Next1, Switches, Target, MaskPending, SelPending
<1>3. mask[c] \in Nat /\ mask[c] >= 3 /\ capacity(c) = mask[c] + 1
  BY <1>1 DEF IInv, TypeInv, MaskInv, capacity
<1>4. buckets[c] \in Block /\ occupied \in [Class -> Nat]
  <2>1. Counts(c, buckets[c])
    BY <1>1, <1>2 DEF IInv, CountInv
  <2> QED BY <1>1, <2>1 DEF Counts, IInv, TypeInv
<1>5. PICK w1, w2, w3 : /\ w1 = [op |-> "buckets", c |-> c, b |-> Empty]
                        /\ w2 = [op |-> "mask", c |-> c, m |-> mask[c]]
                        /\ w3 = [op |-> "collect_free", b |-> buckets[c], size |-> mask[c] + 1]
  OBVIOUS
<1>6. w1 \in Store /\ w2 \in Store /\ w3 \in Store
  BY <1>1, <1>3, <1>4, <1>5, Constants DEF Store
<1>7. PICK todo : todo = <<w1, w2>> \o <<w3>>
  OBVIOUS
<1>8. /\ todo \in Seq(Store) /\ DOMAIN todo = {1, 2, 3} /\ todo[1] = w1 /\ todo[2] = w2 /\ todo[3] = w3
      /\ Len(todo) = 3 /\ todo # <<>>
  <2>1. PICK y, z : y = <<w1, w2>> /\ z = <<w3>>
    OBVIOUS
  <2>2. y \in Seq(Store) /\ Len(y) = 2 /\ y[1] = w1 /\ y[2] = w2
    BY <1>6, <2>1
  <2>3. z \in Seq(Store) /\ Len(z) = 1 /\ z[1] = w3 /\ 1 \in DOMAIN z
    BY <1>6, <2>1
  <2>4. /\ y \o z \in Seq(Store) /\ Len(y \o z) = Len(y) + Len(z)
        /\ \A k \in 1 .. Len(y) : (y \o z)[k] = y[k]
        /\ \A k \in DOMAIN z : (y \o z)[k + Len(y)] = z[k]
    BY <2>2, <2>3, Joined
  <2>5. /\ todo \in Seq(Store) /\ Len(todo) = 3
        /\ \A k \in 1 .. 2 : todo[k] = y[k]
        /\ \A k \in DOMAIN z : todo[k + 2] = z[k]
    BY <1>7, <2>1, <2>2, <2>3, <2>4
  <2>6. todo[3] = z[1] /\ todo[1] = y[1] /\ todo[2] = y[2]
    <3>1. 1 \in 1 .. 2 /\ 2 \in 1 .. 2 /\ 1 + 2 = 3
      OBVIOUS
    <3>2. todo[1] = y[1] /\ todo[2] = y[2]
      BY <2>5, <3>1
    <3>3. todo[1 + 2] = z[1]
      BY <2>3, <2>5
    <3> QED BY <3>1, <3>2, <3>3
  <2>7. DOMAIN todo = {1, 2, 3} /\ todo # <<>>
    <3>1. DOMAIN todo = 1 .. 3
      BY <2>5
    <3>2. 1 .. 3 = {1, 2, 3}
      OBVIOUS
    <3>3. todo # <<>>
      <4>1. todo = <<>> => Len(todo) = 0
        OBVIOUS
      <4> QED BY <2>5, <4>1
    <3> QED BY <3>1, <3>2, <3>3
  <2>8. todo[1] = w1 /\ todo[2] = w2 /\ todo[3] = w3
    BY <2>2, <2>3, <2>6
  <2> QED BY <2>5, <2>7, <2>8
<1>9. Erase(c) = todo
  <2>1. mask[c] + 1 - 1 = mask[c]
    BY <1>3
  <2> QED BY <1>3, <1>5, <1>7, <2>1 DEF Erase, setBucketsAndMask, collect_free
<1>10. PICK x : x = [thread[t] EXCEPT !.todo = todo, !.erase = @ \ {c}]
  OBVIOUS
<1>11. x \in Changing /\ x.pc = "write" /\ x.then = thread[t].then /\ x.todo = todo /\ x.erase = thread[t].erase \ {c}
  BY <1>1, <1>8, <1>10 DEF Changing
<1>12. thread' = [thread EXCEPT ![t] = x] /\ thread \in [Thread -> Threads]
  BY <1>9, <1>10 DEF IInv, TypeInv, Threads
<1>13. thread'[t] = x /\ holder' = x /\ \A u \in Thread : u # t => thread'[u] = thread[u]
  BY <1>1, <1>12, Constants DEF holder
<1>14. TypeInv'
  <2>1. thread' \in [Thread -> Threads]
    BY <1>11, <1>12 DEF Threads
  <2> QED BY <1>1, <1>4, <2>1 DEF IInv, TypeInv, limits, Threads
<1>15. MethodsInv' /\ LockInv'
  BY <1>11, <1>13 DEF IInv, MethodsInv, LockInv, limits
<1>16. ~Fills' /\ Next1("buckets")' /\ ~Next1("check")' /\ ~Next1("dispose")'
  BY <1>5, <1>8, <1>11, <1>13 DEF Fills, Next1
<1>17. /\ Target(c)' = Empty /\ \A d \in Class : d # c => Target(d)' = buckets[d]
       /\ \A d \in Class : Switches(d)' <=> d = c
  BY <1>5, <1>8, <1>11, <1>13, <1>16 DEF Target, Switches
<1>18. \A d \in Class : (MaskPending(d)' <=> d = c) /\ ~SelPending(d)'
  <2>1. /\ holder'.todo = todo /\ todo[2].op = "mask" /\ todo[2].c = c
        /\ \A k \in DOMAIN todo : todo[k].op = "mask" => k = 2
    BY <1>5, <1>8, <1>11, <1>13
  <2>2. 2 \in DOMAIN todo
    BY <1>8
  <2> QED BY <1>16, <2>1, <2>2 DEF MaskPending, SelPending
<1>19. DOMAIN heap[Empty].sel = 0 .. MAX_CACHE_SIZE - 1 /\ \A i \in DOMAIN heap[Empty].sel : heap[Empty].sel[i] = 0
  BY EmptyShape DEF IInv, HeapInv
<1>20. /\ heap[buckets[c]] # Freed /\ buckets[c] \notin garbage /\ IsMarked(heap[buckets[c]], mask[c] + 1)
  BY <1>1, <1>2, <1>4, Constants DEF IInv, HeapInv, MaskInv, InUse
<1>21. mask[c] \in DOMAIN heap[Empty].sel
  <2>1. mask[c] + 1 <= MAX_CACHE_SIZE
    BY <1>20, MarkedShape
  <2> QED BY <1>3, <1>19, <2>1, Constants
<1>22. WriterInv'
  <2>1. OrderInv'
    <3>1. OrderOK(todo)
      BY <1>5, <1>8 DEF OrderOK
    <3> QED BY <1>11, <1>13, <3>1 DEF OrderInv
  <2>2. BucketsInv'
    <3>1. holder'.todo[1].b = Empty
      BY <1>5, <1>8, <1>11, <1>13
    <3>2. heap' = heap
      OBVIOUS
    <3>3. \A i \in DOMAIN heap'[holder'.todo[1].b].sel : heap'[holder'.todo[1].b].sel[i] \in {0, 1}
      BY <1>19, <3>1, <3>2
    <3> QED BY <1>16, <3>1, <3>3 DEF BucketsInv
  <2>3. StoredMaskInv'
    <3>1. ASSUME NEW k \in DOMAIN todo, todo[k].op = "mask" PROVE todo[k].c = c /\ todo[k].m = mask[c]
      BY <1>5, <1>8, <3>1
    <3>2. ASSUME NEW k \in DOMAIN todo, NEW w, w = todo[k], w.op = "mask"
          PROVE  /\ mask'[w.c] <= w.m /\ w.m >= 3 /\ w.m \in DOMAIN heap'[Target(w.c)'].sel /\ Target(w.c)' = Empty
      <4>1. w.c = c /\ w.m = mask[c]
        BY <3>1, <3>2
      <4>2. Target(w.c)' = Empty
        BY <1>17, <4>1
      <4> QED BY <1>3, <1>21, <4>1, <4>2
    <3> QED BY <1>11, <1>13, <3>2 DEF StoredMaskInv
  <2>4. FreeInv'
    <3>1. ASSUME NEW k \in DOMAIN todo, todo[k].op = "collect_free" PROVE todo[k] = w3 /\ todo[1].c = c
      BY <1>5, <1>8, <3>1
    <3>2. w3.b = buckets[c]
      BY <1>5
    <3> QED BY <1>11, <1>13, <1>16, <1>20, <3>1, <3>2 DEF FreeInv
  <2>5. SlotInv'
    BY <1>5, <1>8, <1>11, <1>13 DEF SlotInv
  <2> QED BY <2>1, <2>2, <2>3, <2>4, <2>5 DEF WriterInv
<1>23. CheckInv'
  BY <1>16 DEF CheckInv
<1>24. BlockInv'
  <2>1. HeapInv' /\ GuaranteedEmptySlot'
    BY DEF IInv, HeapInv, InUse, GuaranteedEmptySlot
  <2>2. MaskInv'
    BY <1>2, <1>18 DEF IInv, MaskInv
  <2>3. CountInv'
    <3>1. ASSUME NEW d \in Class PROVE Counts(d, Target(d))'
      <4>1. CASE d = c
        BY <1>4, <1>17, <4>1 DEF Counts
      <4>2. CASE d # c
        <5>1. Counts(d, buckets[d]) /\ occupied'[d] = occupied[d]
          BY <1>2, <1>4, <4>2 DEF IInv, CountInv
        <5> QED BY <1>2, <1>17, <1>18, <4>2, <5>1 DEF Counts
      <4> QED BY <4>1, <4>2
    <3> QED BY <3>1 DEF CountInv
  <2> QED BY <2>1, <2>2, <2>3 DEF BlockInv
<1>25. ReaderInv'
  <2>1. ASSUME NEW u \in Thread PROVE ReaderOK(u)' /\ FloorOK(u)'
    <3>1. CASE u = t
      BY <1>11, <1>13, <3>1 DEF ReaderOK, FloorOK, Reads
    <3>2. CASE u # t
      <4>1. ReaderOK(u) /\ FloorOK(u) /\ thread'[u] = thread[u]
        BY <1>13, <3>2 DEF IInv, ReaderInv
      <4> QED BY <4>1 DEF ReaderOK, FloorOK, Reads
    <3> QED BY <3>1, <3>2
  <2> QED BY <2>1 DEF ReaderInv
<1>26. ShowsInv'
  <2>1. Awaiting' = Awaiting
    <3>1. Awaiting = thread[t].erase
      BY <1>1, <1>2 DEF Awaiting, Switches
    <3>2. Awaiting' = x.erase \cup {c}
      BY <1>1, <1>11, <1>13, <1>16, <1>17 DEF Awaiting
    <3> QED BY <1>11, <3>1, <3>2
  <2>2. ASSUME NEW d \in Class, NEW s \in SEL
        PROVE  \E v \in newest[d][s] .. Effective(d, s) : Shows(d, s, v)'
    <3>1. PICK v \in newest[d][s] .. Effective(d, s) : Shows(d, s, v)
      BY DEF IInv, ShowsInv
    <3>2. v \in Nat /\ v <= v
      <4>1. newest[d][s] \in Nat /\ Effective(d, s) \in Nat
        BY EffectiveNat DEF IInv, TypeInv
      <4> QED BY <3>1, <4>1
    <3>3. d \notin Awaiting' => v = Effective(d, s)'
      BY <2>1, <3>1 DEF Shows, Effective
    <3>4. Finds(t, d, s, v)'
      BY <1>11, <1>13 DEF Finds, Reads
    <3>5. heap[Empty] = emptyBuckets /\ heap' = heap /\ buckets' = buckets
      BY DEF IInv, HeapInv
    <3>6. Shows(d, s, v)'
      BY <1>13, <1>16, <3>1, <3>2, <3>3, <3>4, <3>5, QuietShows DEF IInv
    <3> QED BY <3>1, <3>6
  <2> QED BY <2>2 DEF ShowsInv, Effective
<1> QED BY <1>14, <1>15, <1>22, <1>23, <1>24, <1>25, <1>26 DEF IInv, WriterInv, BlockInv

\* ... or to a class whose cache is empty: it shows nothing, so the newest versions.
LEMMA EraseNextStep ==
  ASSUME IInv, NEW t \in Thread, EraseNext(t) PROVE IInv'
<1>1. /\ thread[t].pc = "write" /\ thread[t].todo = <<>>
      /\ UNCHANGED <<heap, buckets, mask, garbage, garbage_size, runtimeLock, methods, newest, limits>>
  BY DEF EraseNext
<1>2. PICK c \in thread[t].erase :
        /\ thread' = [thread EXCEPT ![t].todo = Erase(c), ![t].erase = @ \ {c}]
        /\ occupied' = [occupied EXCEPT ![c] = 0]
  BY DEF EraseNext
<1>3. holder = thread[t] /\ runtimeLock = t
  BY <1>1, WriterHolds DEF IInv
<1>4. thread[t].then # "return" /\ ~Fills /\ thread[t] \in Changing /\ c \in Class
  <2>1. thread[t].then # "return"
    <3>1. thread[t].then = "return" => thread[t].erase = {}
      BY <1>1, ThreadShape DEF IInv, Filling
    <3> QED BY <3>1
  <2>2. thread[t] \in Changing
    BY <1>1, <2>1, ThreadShape DEF IInv
  <2> QED BY <1>3, <2>1, <2>2 DEF Changing, Fills
<1>5. CASE capacity(c) > 0 /\ occupied[c] > 0
  BY <1>1, <1>2, <1>4, <1>5, EraseSome
<1>6. CASE ~(capacity(c) > 0 /\ occupied[c] > 0)
  <2>1. \A d \in Class : Target(d) = buckets[d] /\ ~MaskPending(d)
    BY <1>1, <1>3 DEF Next1, Switches, Target, MaskPending
  <2>2. occupied \in [Class -> Nat] /\ mask[c] \in Nat /\ buckets[c] \in Block \cup {Empty}
    BY <1>4 DEF IInv, TypeInv
  <2>3. buckets[c] = Empty /\ occupied[c] = 0
    <3>1. Counts(c, buckets[c])
      BY <1>4, <2>1 DEF IInv, CountInv
    <3>2. CASE buckets[c] # Empty
      <4>1. occupied[c] > 0
        BY <1>4, <2>2, <3>1, <3>2 DEF Counts
      <4>2. mask[c] = 0
        BY <1>6, <2>2, <4>1 DEF capacity
      <4>3. IsMarked(heap[buckets[c]], mask[c] + 1)
        BY <1>4, <2>1, <3>2 DEF IInv, MaskInv
      <4>4. mask[c] + 1 >= 4
        BY <4>3, MarkedShape
      <4> QED BY <4>2, <4>4
    <3> QED BY <3>1, <3>2 DEF Counts
  <2>4. occupied' = occupied /\ UNCHANGED cache
    BY <1>1, <1>2, <2>2, <2>3 DEF cache
  <2>5. PICK todo \in Seq(Store) : todo = <<>>
    <3>1. <<>> \in Seq(Store)
      OBVIOUS
    <3> QED BY <3>1
  <2>6. PICK x : x = [thread[t] EXCEPT !.todo = todo, !.erase = @ \ {c}]
    OBVIOUS
  <2>7. x \in Changing /\ x.pc = "write" /\ x.then = thread[t].then /\ x.todo = todo /\ x.erase = thread[t].erase \ {c}
    BY <1>4, <2>6 DEF Changing
  <2>8. thread' = [thread EXCEPT ![t] = x] /\ thread \in [Thread -> Threads]
    BY <1>2, <1>6, <2>5, <2>6 DEF Erase, IInv, TypeInv, Threads
  <2>9. thread'[t] = x /\ holder' = x /\ \A u \in Thread : u # t => thread'[u] = thread[u]
    BY <1>1, <1>3, <2>8, Constants DEF holder
  <2>10. TypeInv'
    <3>1. thread' \in [Thread -> Threads]
      BY <2>7, <2>8 DEF Threads
    <3> QED BY <1>1, <2>4, <3>1 DEF IInv, TypeInv, cache, limits, Threads
  <2>11. MethodsInv' /\ LockInv'
    BY <1>1, <2>7, <2>9 DEF IInv, MethodsInv, LockInv, limits
  <2>12. ~Reads(t) /\ ~Reads(t)' /\ thread'[t].pc # "buckets" /\ FloorOK(t)'
    BY <1>1, <1>4, <2>7, <2>9 DEF Reads, FloorOK
  <2>13. OrderOK(todo) /\ (\A k \in DOMAIN todo : todo[k].op \in {"check", "dispose"}) /\ holder'.todo = todo
    BY <2>5, <2>7, <2>9 DEF OrderOK
  <2>14. ~Next1("check")' /\ ~Next1("dispose")' /\ ~Next1("buckets")' /\ ~Fills' /\ ~Next1("buckets")
    BY <1>1, <1>3, <1>4, <2>5, <2>7, <2>9 DEF Next1, Fills
  <2>15. CheckInv'
    BY <2>14 DEF CheckInv
  <2>16. Awaiting = thread[t].erase /\ Awaiting' = thread[t].erase \ {c}
    BY <1>3, <1>4, <2>7, <2>9, <2>14 DEF Awaiting, Switches
  <2>17. \A d \in Class, s \in SEL : newest[d][s] <= newest'[d][s]
    BY <1>1 DEF IInv, TypeInv
  <2>18. ShowsInv'
    <3>1. ASSUME NEW d \in Class, NEW s \in SEL
          PROVE  \E v \in newest[d][s] .. Effective(d, s) : Shows(d, s, v)'
      <4>1. PICK v \in newest[d][s] .. Effective(d, s) : Shows(d, s, v)
        BY DEF IInv, ShowsInv
      <4>2. v \in Nat /\ newest[d][s] \in Nat /\ Effective(d, s) \in Nat /\ v <= Effective(d, s)
        BY <4>1, EffectiveNat DEF IInv, TypeInv
      <4>3. Effective(d, s)' = Effective(d, s)
        BY <1>1 DEF Effective
      <4>4. heap[Empty] = emptyBuckets /\ heap' = heap /\ buckets' = buckets
        BY <1>1 DEF IInv, HeapInv
      <4>5. \A w : Finds(t, d, s, w)'
        BY <2>7, <2>9 DEF Finds, Reads
      <4>6. CASE d = c
        <5>1. PICK w \in Nat : w = Effective(d, s)
          BY <4>2
        <5>2. w \in newest[d][s] .. Effective(d, s)
          BY <4>1, <4>2, <5>1
        <5>3. Shows(d, s, w)'
          <6>1. buckets[d] = Empty /\ v <= w /\ w = Effective(d, s)'
            BY <2>3, <4>2, <4>3, <4>6, <5>1
          <6> QED BY <2>9, <2>14, <4>1, <4>2, <4>4, <4>5, <6>1, QuietShows DEF IInv
        <5> QED BY <5>2, <5>3
      <4>7. CASE d # c
        <5>1. d \notin Awaiting' => v = Effective(d, s)'
          BY <2>16, <4>1, <4>3, <4>7 DEF Shows
        <5>2. v <= v
          BY <4>2
        <5>3. Shows(d, s, v)'
          BY <2>9, <2>14, <4>1, <4>2, <4>4, <4>5, <5>1, <5>2, QuietShows DEF IInv
        <5> QED BY <4>1, <5>3
      <4> QED BY <4>6, <4>7
    <3> QED BY <1>1, <3>1 DEF ShowsInv, Effective
  <2> QED BY <1>1, <1>3, <2>4, <2>9, <2>10, <2>11, <2>12, <2>13, <2>15, <2>17, <2>18, QuietStep
<1> QED BY <1>5, <1>6

--------------------------------------------------------------------------------
(* The miss *)

\* With the lock, the search finds the method, though it looks in the superclass's cache.
LEMMA LookUpFinds ==
  ASSUME IInv, runtimeLock = nil, NEW c \in Class, NEW s \in SEL
  PROVE  LookUp(c, s) = [sel |-> s, version |-> Effective(c, s)]
<1>1. Awaiting = {}
  BY DEF Awaiting, Switches, Next1, holder, Nobody, Fills
<1>2. CASE methods[c][s] # 0
  BY <1>2 DEF LookUp, Effective
<1>3. CASE methods[c][s] = 0
  <2>1. PICK up \in Class : up = Superclass[c] /\ Superclass[up] = nil
    BY <1>3, ClassAssumption DEF IInv, MethodsInv
  <2>2. Effective(c, s) = methods[up][s] /\ Effective(up, s) = methods[up][s]
    BY <1>3, <2>1 DEF IInv, MethodsInv, Effective
  <2>3. PICK b : b = heap[buckets[up]]
    OBVIOUS
  <2>4. PICK n \in Nat : n > 0 /\ IsBlock(b, n) /\ DOMAIN b.sel = 0 .. n - 1
    <3>1. buckets[up] \in Block \cup {Empty} /\ heap[buckets[up]] # Freed
      BY DEF IInv, TypeInv, HeapInv, InUse
    <3> QED BY <2>3, <3>1, ClassBuckets DEF IInv
  <2>5. PICK i : i = Scan(b, s)
    OBVIOUS
  <2>6. i \in 0 .. n - 1 /\ b.sel[i] \in {0, s}
    <3>1. \E j \in 0 .. n - 1 : b.sel[j] = 0
      BY <2>3, <2>4 DEF IInv, GuaranteedEmptySlot
    <3> QED BY <2>4, <2>5, <3>1, ScanFinds
  <2>7. ASSUME b.sel[i] = s PROVE b.imp[i] = [sel |-> s, version |-> Effective(c, s)]
    <3>1. b.imp[i] \in Imp /\ b.imp[i].sel = s
      BY <2>4, <2>6, <2>7, BlockShape
    <3>2. PICK v \in newest[up][s] .. Effective(up, s) : Shows(up, s, v)
      BY DEF IInv, ShowsInv
    <3>3. v = Effective(c, s) /\ v \in Nat
      BY <1>1, <2>2, <3>2, EffectiveNat DEF Shows, IInv
    <3>4. b.imp[i].version \in v .. v
      BY <2>3, <2>4, <2>6, <2>7, <3>2 DEF Shows, Holds
    <3>5. b.imp[i].version = v
      BY <3>3, <3>4
    <3> QED BY <3>1, <3>3, <3>5 DEF Imp
  <2>8. cache_getImp(up, s) = IF b.sel[i] = s THEN b.imp[i] ELSE NoImp
    BY <2>3, <2>5 DEF cache_getImp
  <2>9. LookUp(c, s) = IF cache_getImp(up, s) # NoImp THEN cache_getImp(up, s)
                       ELSE [sel |-> s, version |-> methods[up][s]]
    BY <1>3, <2>1 DEF LookUp
  <2> QED BY <2>2, <2>7, <2>8, <2>9
<1> QED BY <1>2, <1>3

\* t, which has missed in class c, has found the method and has x to do.
Misses(t, x, c) ==
  /\ runtimeLock = nil /\ runtimeLock' = t /\ thread[t].pc = "miss" /\ thread' = [thread EXCEPT ![t] = x]
  /\ x.c = c /\ c = thread[t].c /\ x.s = thread[t].s /\ x.floor = thread[t].floor
  /\ x.imp = [sel |-> x.s, version |-> Effective(c, x.s)]
  /\ UNCHANGED <<buckets, mask, garbage, garbage_size, methods, newest, limits>>

\* It fills buckets that nobody has yet, or those of the class.
LEMMA FillStep ==
  ASSUME IInv, NEW t \in Thread, NEW x \in Filling, NEW cl \in Class, Misses(t, x, cl),
         occupied' \in [Class -> Nat], \A d \in Class : d # cl => occupied'[d] = occupied[d],
         DOMAIN heap' = Block \cup {Empty},
         \A b \in Block \cup {Empty} : heap[b] # Freed => heap'[b] = heap[b],
         \A b \in Block : heap'[b] = Freed \/ \E n \in 4 .. MAX_CACHE_SIZE : IsMarked(heap'[b], n),
         WriterInv', Counts(cl, Target(cl))', Next1("buckets")' => x.todo[1].c = cl,
         ~Next1("check")', ~Next1("dispose")'
  PROVE  IInv'
<1>0. /\ runtimeLock = nil /\ runtimeLock' = t /\ thread[t].pc = "miss" /\ thread' = [thread EXCEPT ![t] = x]
      /\ x.c = cl /\ cl = thread[t].c /\ x.s = thread[t].s /\ x.floor = thread[t].floor
      /\ x.imp = [sel |-> x.s, version |-> Effective(cl, x.s)]
      /\ buckets' = buckets /\ mask' = mask /\ garbage' = garbage /\ methods' = methods /\ newest' = newest
      /\ UNCHANGED <<garbage_size, limits>>
  BY DEF Misses
<1> USE <1>0
<1>1. /\ LockInv' /\ thread' \in [Thread -> Threads] /\ holder' = x /\ thread'[t] = x /\ x.pc = "write"
      /\ \A u \in Thread : u # t => thread'[u] = thread[u]
      /\ holder.todo = <<>> /\ ~Fills /\ Awaiting = {}
      /\ \A c \in Class, s \in SEL : \A v : Shows(c, s, v) => v = Effective(c, s)
  BY TakeLock DEF IInv
<1>2. x.then = "return" /\ Fills' /\ Awaiting' = {} /\ x.c \in Class /\ x.s \in SEL
  BY <1>1 DEF Filling, Fills, Awaiting
<1>3. TypeInv' /\ MethodsInv'
  BY <1>1 DEF IInv, TypeInv, MethodsInv, limits, Threads
<1>4. /\ \A d \in Class : Target(d) = buckets[d] /\ ~MaskPending(d) /\ ~SelPending(d)
      /\ \A d \in Class : d # cl => Target(d)' = buckets[d] /\ ~SelPending(d)'
  <2>1. \A d \in Class : Target(d) = buckets[d] /\ ~MaskPending(d) /\ ~SelPending(d)
    BY <1>1 DEF Next1, Switches, Target, MaskPending, SelPending
  <2>2. ASSUME NEW d \in Class, d # cl PROVE Target(d)' = buckets[d] /\ ~SelPending(d)'
    <3>1. ~Switches(d)'
      BY <1>1, <2>2 DEF Switches
    <3> QED BY <1>1, <2>2, <3>1 DEF Target, SelPending
  <2> QED BY <2>1, <2>2
<1>5. \A d \in Class : buckets[d] \in Block \cup {Empty} /\ heap[buckets[d]] # Freed /\ heap'[buckets[d]] = heap[buckets[d]]
  BY DEF IInv, TypeInv, HeapInv, InUse
<1>6. BlockInv'
  <2>1. HeapInv'
    <3>1. heap'[Empty] = emptyBuckets
      BY EmptyShape DEF IInv, HeapInv
    <3>2. \A b \in garbage \cup InUse : heap'[b] # Freed
      BY DEF IInv, TypeInv, HeapInv, InUse
    <3> QED BY <3>1, <3>2 DEF IInv, HeapInv, InUse
  <2>2. GuaranteedEmptySlot'
    BY <1>5 DEF IInv, GuaranteedEmptySlot
  <2>3. MaskInv'
    BY <1>4, <1>5 DEF IInv, MaskInv
  <2>4. ASSUME NEW d \in Class PROVE Counts(d, Target(d))'
    <3>1. CASE d # cl
      <4>1. Counts(d, buckets[d]) /\ occupied'[d] = occupied[d]
        BY <1>4, <3>1 DEF IInv, CountInv
      <4>2. heap'[buckets[d]] = heap[buckets[d]]
        BY <1>5
      <4>3. Target(d)' = buckets[d] /\ ~SelPending(d) /\ ~SelPending(d)'
        BY <1>4, <3>1
      <4> QED BY <4>1, <4>2, <4>3 DEF Counts
    <3> QED BY <3>1
  <2> QED BY <2>1, <2>2, <2>3, <2>4 DEF BlockInv, CountInv
<1>7. CheckInv'
  BY DEF CheckInv
<1>8. ~Reads(t)' /\ ~Reads(t)
  BY <1>1 DEF Reads
<1>9. \A u \in Thread : Reads(u) => heap'[thread[u].b] = heap[thread[u].b] /\ heap[thread[u].b] # Freed
  BY ReadFacts
<1>10. ReaderInv'
  <2>1. ASSUME NEW u \in Thread PROVE ReaderOK(u)' /\ FloorOK(u)'
    <3>1. CASE u = t
      <4>1. FloorOK(t)
        BY DEF IInv, ReaderInv
      <4>2. x.floor <= newest[x.c][x.s]
        BY <4>1 DEF FloorOK
      <4> QED BY <1>1, <1>8, <3>1, <4>2 DEF ReaderOK, FloorOK
    <3>2. CASE u # t
      <4>1. ReaderOK(u) /\ FloorOK(u) /\ thread'[u] = thread[u]
        BY <1>1, <3>2 DEF IInv, ReaderInv
      <4>2. Reads(u)' = Reads(u)
        BY <4>1 DEF Reads
      <4>3. ReaderOK(u)'
        <5>1. buckets' = buckets /\ mask' = mask
          OBVIOUS
        <5>2. CASE Reads(u)
          BY <1>9, <4>1, <4>2, <5>1, <5>2 DEF ReaderOK
        <5>3. CASE ~Reads(u)
          <6>1. thread[u].pc # "hit"
            BY <5>3 DEF Reads
          <6> QED BY <4>1, <4>2, <5>1, <5>3, <6>1 DEF ReaderOK
        <5> QED BY <5>2, <5>3
      <4> QED BY <4>1, <4>3 DEF FloorOK
    <3> QED BY <3>1, <3>2
  <2> QED BY <2>1 DEF ReaderInv
<1>11. ShowsInv'
  <2>1. ASSUME NEW c \in Class, NEW s \in SEL
        PROVE  \E v \in newest[c][s] .. Effective(c, s) : Shows(c, s, v)'
    <3>1. PICK v \in newest[c][s] .. Effective(c, s) : Shows(c, s, v)
      BY DEF IInv, ShowsInv
    <3>2. v = Effective(c, s) /\ Effective(c, s)' = Effective(c, s)
      BY <1>1, <3>1 DEF Effective
    <3>3. Holds(buckets[c], s, v, v)'
      BY <1>5, <3>1 DEF Shows, Holds
    <3>4. ASSUME NEW u \in Thread PROVE Finds(u, c, s, v)'
      <4>1. CASE u = t
        BY <1>1, <1>8, <4>1 DEF Finds
      <4>2. CASE u # t
        <5>1. Finds(u, c, s, v) /\ thread'[u] = thread[u]
          BY <1>1, <3>1, <4>2 DEF Shows
        <5>2. Reads(u)' = Reads(u)
          BY <5>1 DEF Reads
        <5> QED BY <1>9, <5>1, <5>2 DEF Finds, Holds
      <4> QED BY <4>1, <4>2
    <3>5. holder'.c = c /\ holder'.s = s => holder'.imp = [sel |-> s, version |-> v]
      BY <1>1, <3>2
    <3>6. Shows(c, s, v)'
      BY <3>2, <3>3, <3>4, <3>5 DEF Shows
    <3> QED BY <3>1, <3>6
  <2> QED BY <2>1 DEF ShowsInv, Effective
<1> QED BY <1>1, <1>3, <1>6, <1>7, <1>10, <1>11 DEF IInv, WriterInv, BlockInv

\* The stores of a new bucket in a block, at the end of what t has to do.
LEMMA FillSlot ==
  ASSUME IInv, NEW t \in Thread, NEW x \in Filling, NEW c \in Class, Misses(t, x, c),
         buckets[c] \in Block,
         DOMAIN heap' = Block \cup {Empty}, \A b \in Block \cup {Empty} : heap'[b] = heap[b],
         occupied' = [occupied EXCEPT ![c] = occupied[c] + 1], Fits(c),
         NEW i \in DOMAIN heap[buckets[c]].sel, heap[buckets[c]].sel[i] = 0,
         Len(x.todo) = 2, x.todo[1] = [op |-> "imp", b |-> buckets[c], i |-> i, imp |-> x.imp],
         x.todo[2] = [op |-> "sel", b |-> buckets[c], i |-> i, s |-> x.s]
  PROVE  IInv'
<1>0. /\ runtimeLock = nil /\ runtimeLock' = t /\ thread[t].pc = "miss" /\ thread' = [thread EXCEPT ![t] = x]
      /\ x.c = c /\ buckets' = buckets /\ mask' = mask /\ garbage' = garbage
  BY DEF Misses
<1> USE <1>0
<1>1. /\ holder' = x /\ holder.todo = <<>> /\ ~Fills /\ x.then = "return" /\ x.todo \in Seq(Store) /\ Fills'
  <2>1. holder' = x /\ holder.todo = <<>> /\ ~Fills
    BY TakeLock DEF IInv
  <2> QED BY <2>1 DEF Filling, Fills
<1>2. PICK todo \in Seq(Store) : todo = x.todo
  BY <1>1
<1>3. /\ DOMAIN todo = {1, 2} /\ todo[1].op = "imp" /\ todo[2].op = "sel" /\ holder'.todo = todo /\ todo # <<>>
      /\ todo[1].b = todo[2].b /\ todo[1].i = todo[2].i /\ Len(todo) = 2
  BY <1>1, <1>2
<1>4. ~Next1("buckets")' /\ ~Next1("check")' /\ ~Next1("dispose")'
  BY <1>3 DEF Next1
<1>5. Target(c)' = buckets[c] /\ Target(c) = buckets[c] /\ ~SelPending(c) /\ SelPending(c)' /\ ~MaskPending(c)
  <2>1. Target(c)' = buckets[c] /\ Target(c) = buckets[c]
    BY <1>1, <1>4 DEF Target, Switches, Next1
  <2>2. SelPending(c)' /\ ~SelPending(c) /\ ~MaskPending(c)
    BY <1>1, <1>3 DEF SelPending, MaskPending
  <2> QED BY <2>1, <2>2
<1>6. WriterInv'
  <2>1. OrderInv'
    <3>1. OrderOK(todo)
      BY <1>3 DEF OrderOK
    <3> QED BY <1>3, <3>1 DEF OrderInv
  <2>2. BucketsInv' /\ StoredMaskInv' /\ FreeInv'
    BY <1>3, <1>4 DEF BucketsInv, StoredMaskInv, FreeInv
  <2>3. SlotInv'
    <3>1. ASSUME NEW k \in DOMAIN todo
          PROVE  /\ todo[k].b = buckets[c] /\ todo[k].i = i
                 /\ todo[k].op = "imp" => todo[k].imp = x.imp
                 /\ todo[k].op = "sel" => todo[k].s = x.s /\ k # 1
      BY <1>2, <1>3
    <3>2. holder'.c = c /\ heap'[buckets[c]] = heap[buckets[c]]
      BY <1>1
    <3> QED BY <1>1, <1>3, <1>5, <3>1, <3>2 DEF SlotInv
  <2> QED BY <2>1, <2>2, <2>3 DEF WriterInv
<1>7. Counts(c, Target(c))'
  <2>1. Counts(c, buckets[c]) /\ occupied[c] \in Nat /\ occupied'[c] = occupied[c] + 1 /\ buckets[c] # Empty
    BY <1>5, Constants DEF IInv, CountInv, TypeInv
  <2>2. IsMarked(heap[buckets[c]], mask[c] + 1)
    BY <1>5, <2>1 DEF IInv, MaskInv
  <2>3. Size(heap[buckets[c]]) = mask[c] + 1 /\ mask[c] # 0
    <3>1. mask[c] + 1 >= 4 /\ Size(heap[buckets[c]]) = mask[c] + 1
      BY <2>2, MarkedShape
    <3> QED BY <3>1
  <2>4. occupied[c] + 1 + CACHE_END_MARKER <= (Size(heap[buckets[c]]) \div 4) * 3
    BY <2>3 DEF Fits, capacity
  <2>5. Cardinality(Used(heap[buckets[c]])) = occupied[c] + 1
    BY <1>5, <2>1 DEF Counts, CACHE_END_MARKER
  <2>6. occupied'[c] >= 1 /\ Cardinality(Used(heap[buckets[c]])) = occupied'[c] + 0
    BY <2>1, <2>5
  <2> QED BY <1>5, <2>1, <2>4, <2>6 DEF Counts
<1>8. occupied' \in [Class -> Nat] /\ \A d \in Class : d # c => occupied'[d] = occupied[d]
  BY DEF IInv, TypeInv
<1>9. \A b \in Block : heap'[b] = Freed \/ \E n \in 4 .. MAX_CACHE_SIZE : IsMarked(heap'[b], n)
  BY DEF IInv, TypeInv, HeapInv
<1> QED BY <1>4, <1>6, <1>7, <1>8, <1>9, FillStep

\* ... and in a block that has just been allocated, before what becomes of the old one.
LEMMA FillNew ==
  ASSUME IInv, NEW t \in Thread, NEW x \in Filling, NEW c \in Class, Misses(t, x, c),
         occupied' = [occupied EXCEPT ![c] = 1],
         NEW n \in 4 .. MAX_CACHE_SIZE, mask[c] <= n - 1, NEW new \in Block, heap[new] = Freed,
         heap' = [heap EXCEPT ![new] = allocateBuckets(n)],
         NEW i \in 0 .. n - 1, allocateBuckets(n).sel[i] = 0,
         NEW m \in {2, 3}, Len(x.todo) = m + 2,
         x.todo[1] = [op |-> "buckets", c |-> c, b |-> new], x.todo[2] = [op |-> "mask", c |-> c, m |-> n - 1],
         m = 3 => x.todo[3].op = "collect_free" /\ x.todo[3].b = buckets[c],
         x.todo[m + 1] = [op |-> "imp", b |-> new, i |-> i, imp |-> x.imp],
         x.todo[m + 2] = [op |-> "sel", b |-> new, i |-> i, s |-> x.s]
  PROVE  IInv'
<1>0. /\ runtimeLock = nil /\ runtimeLock' = t /\ thread[t].pc = "miss" /\ thread' = [thread EXCEPT ![t] = x]
      /\ x.c = c /\ buckets' = buckets /\ mask' = mask /\ garbage' = garbage
  BY DEF Misses
<1> USE <1>0
<1>1. /\ holder' = x /\ holder.todo = <<>> /\ ~Fills /\ x.then = "return" /\ x.todo \in Seq(Store) /\ Fills'
      /\ thread'[t] = x /\ x.pc = "write" /\ \A u \in Thread : u # t => thread'[u] = thread[u]
  <2>1. /\ holder' = x /\ holder.todo = <<>> /\ ~Fills /\ thread'[t] = x /\ x.pc = "write"
        /\ \A u \in Thread : u # t => thread'[u] = thread[u]
    BY TakeLock DEF IInv
  <2> QED BY <2>1 DEF Filling, Fills
<1>2. PICK todo \in Seq(Store) : todo = x.todo
  BY <1>1
<1>3. /\ DOMAIN todo = 1 .. m + 2 /\ Len(todo) = m + 2 /\ holder'.todo = todo /\ todo # <<>>
      /\ todo[1].op = "buckets" /\ todo[1].c = c /\ todo[1].b = new
      /\ todo[2].op = "mask" /\ todo[2].c = c /\ todo[2].m = n - 1
      /\ m = 3 => todo[3].op = "collect_free" /\ todo[3].b = buckets[c]
      /\ todo[m + 1].op = "imp" /\ todo[m + 1].b = new /\ todo[m + 1].i = i /\ todo[m + 1].imp = x.imp
      /\ todo[m + 2].op = "sel" /\ todo[m + 2].b = new /\ todo[m + 2].i = i /\ todo[m + 2].s = x.s
  BY <1>1, <1>2, SMTT(30)
<1>4. \A k \in DOMAIN todo : k = 1 \/ k = 2 \/ (m = 3 /\ k = 3) \/ k = m + 1 \/ k = m + 2
  BY <1>3
<1>5. Next1("buckets")' /\ ~Next1("check")' /\ ~Next1("dispose")'
  BY <1>3 DEF Next1
<1>6. Target(c)' = new /\ SelPending(c)'
  <2>1. Target(c)' = new
    BY <1>3, <1>5 DEF Target, Switches
  <2>2. m + 2 \in DOMAIN todo
    BY <1>3
  <2> QED BY <1>1, <1>3, <2>1, <2>2 DEF SelPending
<1>7. /\ IsMarked(allocateBuckets(n), n) /\ Used(allocateBuckets(n)) = {n - 1}
      /\ \A j \in 0 .. n - 1 : allocateBuckets(n).sel[j] \in {0, 1}
  BY AllocatedShape
<1>8. /\ n \in Nat /\ n >= 4 /\ DOMAIN allocateBuckets(n).sel = 0 .. n - 1 /\ Size(allocateBuckets(n)) = n
  BY <1>7, MarkedShape
<1>9. /\ heap'[new] = allocateBuckets(n) /\ DOMAIN heap' = Block \cup {Empty} /\ new # Empty
      /\ \A b \in Block \cup {Empty} : b # new => heap'[b] = heap[b]
  BY Constants DEF IInv, TypeInv
<1>10. new \notin InUse /\ new \notin Scanned' /\ new \notin garbage
  <2>1. new \notin InUse /\ new \notin garbage
    BY DEF IInv, HeapInv
  <2>2. \A u \in Thread : Reads(u)' => thread'[u].b # new
    <3>1. ASSUME NEW u \in Thread, Reads(u)' PROVE thread'[u].b # new
      <4>1. u # t
        BY <1>1, <3>1 DEF Reads
      <4>2. Reads(u) /\ thread'[u] = thread[u]
        BY <1>1, <3>1, <4>1 DEF Reads
      <4> QED BY <4>2, ReadFacts
    <3> QED BY <3>1
  <2>3. new \notin Scanned'
    BY <2>2 DEF Scanned
  <2> QED BY <2>1, <2>3
<1>11. WriterInv'
  <2>1. OrderInv'
    <3>1. OrderOK(todo)
      <4>1. CASE m = 2
        <5>1. DOMAIN todo = {1, 2, 3, 4}
          BY <1>3, <4>1
        <5>2. /\ todo[1].op = "buckets" /\ todo[2].op = "mask" /\ todo[3].op = "imp" /\ todo[4].op = "sel"
              /\ todo[3].b = todo[4].b /\ todo[3].i = todo[4].i /\ todo[2].c = todo[1].c /\ Len(todo) = 4
          BY <1>3, <4>1
        <5> QED BY <5>1, <5>2 DEF OrderOK
      <4>2. CASE m = 3
        <5>1. DOMAIN todo = {1, 2, 3, 4, 5}
          BY <1>3, <4>2
        <5>2. /\ todo[1].op = "buckets" /\ todo[2].op = "mask" /\ todo[3].op = "collect_free"
              /\ todo[4].op = "imp" /\ todo[5].op = "sel"
              /\ todo[4].b = todo[5].b /\ todo[4].i = todo[5].i /\ todo[2].c = todo[1].c /\ Len(todo) = 5
          BY <1>3, <4>2
        <5> QED BY <5>1, <5>2, SMTT(30) DEF OrderOK
      <4> QED BY <4>1, <4>2
    <3> QED BY <1>3, <3>1 DEF OrderInv
  <2>2. BucketsInv'
    <3>1. \A j \in DOMAIN heap'[new].sel : heap'[new].sel[j] \in {0, 1}
      BY <1>7, <1>8, <1>9
    <3>2. new \in Block \ (InUse' \cup Scanned' \cup garbage')
      BY <1>10 DEF InUse
    <3> QED BY <1>1, <1>3, <1>9, <3>1, <3>2 DEF BucketsInv
  <2>3. StoredMaskInv'
    <3>1. ASSUME NEW k \in DOMAIN todo, todo[k].op = "mask" PROVE k = 2 /\ todo[k].c = c /\ todo[k].m = n - 1
      BY <1>3, <1>4, <3>1
    <3>2. /\ mask'[c] <= n - 1 /\ n - 1 >= 3 /\ n - 1 \in DOMAIN heap'[new].sel
          /\ IsMarked(heap'[new], (n - 1) + 1)
      BY <1>7, <1>8, <1>9
    <3>3. ASSUME NEW k \in DOMAIN todo, NEW w, w = todo[k], w.op = "mask"
          PROVE  /\ mask'[w.c] <= w.m /\ w.m >= 3 /\ w.m \in DOMAIN heap'[Target(w.c)'].sel
                 /\ Target(w.c)' # Empty => IsMarked(heap'[Target(w.c)'], w.m + 1)
      <4>1. w.c = c /\ w.m = n - 1
        BY <3>1, <3>3
      <4>2. Target(w.c)' = new
        BY <1>6, <4>1
      <4> QED BY <3>2, <4>1, <4>2
    <3> QED BY <1>3, <3>3 DEF StoredMaskInv
  <2>4. FreeInv'
    <3>1. ASSUME NEW k \in DOMAIN todo, todo[k].op = "collect_free" PROVE m = 3 /\ todo[k].b = buckets[c]
      BY <1>3, <1>4, <3>1
    <3>2. heap'[buckets[c]] # Freed /\ buckets[c] \notin garbage
      <4>1. buckets[c] \in InUse /\ buckets[c] \in Block \cup {Empty}
        BY DEF IInv, TypeInv, InUse
      <4>2. heap[buckets[c]] # Freed /\ buckets[c] \notin garbage
        BY <4>1 DEF IInv, HeapInv
      <4>3. heap'[buckets[c]] = heap[buckets[c]]
        BY <1>9, <1>10, <4>1
      <4> QED BY <4>2, <4>3
    <3> QED BY <1>3, <1>5, <3>1, <3>2 DEF FreeInv
  <2>5. SlotInv'
    <3>1. ASSUME NEW k \in DOMAIN todo, todo[k].op \in {"imp", "sel"}
          PROVE  /\ todo[k].b = new /\ todo[k].i = i
                 /\ todo[k].op = "imp" => todo[k].imp = x.imp
                 /\ todo[k].op = "sel" => todo[k].s = x.s /\ k # 1
      <4>1. k = m + 1 \/ k = m + 2
        BY <1>3, <1>4, <3>1
      <4>2. CASE k = m + 1
        BY <1>3, <4>2
      <4>3. CASE k = m + 2
        BY <1>3, <4>3
      <4> QED BY <4>1, <4>2, <4>3
    <3>2. holder'.c = c /\ i \in DOMAIN heap'[new].sel /\ heap'[new].sel[i] = 0
      BY <1>1, <1>8, <1>9
    <3> QED BY <1>1, <1>3, <1>6, <3>1, <3>2 DEF SlotInv
  <2> QED BY <2>1, <2>2, <2>3, <2>4, <2>5 DEF WriterInv
<1>12. Counts(c, Target(c))'
  <2>1. occupied'[c] = 1
    BY DEF IInv, TypeInv
  <2>2. Cardinality(Used(heap'[new])) = 1
    <3>1. Used(heap'[new]) = {n - 1}
      BY <1>7, <1>9
    <3>2. Cardinality({n - 1}) = 1
      BY FS_Singleton
    <3> QED BY <3>1, <3>2
  <2>3. 1 + CACHE_END_MARKER <= (Size(heap'[new]) \div 4) * 3
    <3>1. n \div 4 >= 1
      BY <1>8
    <3> QED BY <1>8, <1>9, <3>1 DEF CACHE_END_MARKER
  <2> QED BY <1>6, <1>9, <2>1, <2>2, <2>3 DEF Counts
<1>13. occupied' \in [Class -> Nat] /\ \A d \in Class : d # c => occupied'[d] = occupied[d]
  BY DEF IInv, TypeInv
<1>14. \A b \in Block \cup {Empty} : heap[b] # Freed => heap'[b] = heap[b]
  BY <1>9
<1>15. \A b \in Block : heap'[b] = Freed \/ \E k \in 4 .. MAX_CACHE_SIZE : IsMarked(heap'[b], k)
  BY <1>7, <1>9 DEF IInv, HeapInv
<1>16. x.todo[1].c = c
  BY <1>2, <1>3
<1> QED BY <1>5, <1>9, <1>11, <1>12, <1>13, <1>14, <1>15, <1>16, FillStep

\* The method is in the cache by now: somebody else has missed and filled it.
LEMMA FillNothing ==
  ASSUME IInv, NEW t \in Thread, NEW x \in Filling, NEW c \in Class, Misses(t, x, c),
         DOMAIN heap' = Block \cup {Empty}, \A b \in Block \cup {Empty} : heap'[b] = heap[b],
         occupied' \in [Class -> Nat], \A d \in Class : occupied'[d] = occupied[d], x.todo = <<>>
  PROVE  IInv'
<1>1. /\ runtimeLock = nil /\ runtimeLock' = t /\ thread' = [thread EXCEPT ![t] = x]
      /\ x.c = c /\ buckets' = buckets /\ mask' = mask /\ garbage' = garbage
  BY DEF Misses
<1>2. holder' = x /\ holder'.todo = <<>> /\ holder.todo = <<>> /\ ~Fills
  <2>1. holder' = x /\ holder.todo = <<>> /\ ~Fills
    BY <1>1, TakeLock DEF IInv
  <2> QED BY <2>1
<1>3. ~Next1("buckets") /\ ~Next1("buckets")' /\ ~Next1("check")' /\ ~Next1("dispose")'
  BY <1>2 DEF Next1
<1>4. Target(c) = buckets[c] /\ Target(c)' = buckets[c] /\ ~SelPending(c) /\ ~SelPending(c)'
  BY <1>1, <1>2, <1>3 DEF Target, Switches, SelPending
<1>5. WriterInv'
  BY <1>2, <1>3 DEF WriterInv, OrderInv, OrderOK, BucketsInv, StoredMaskInv, FreeInv, SlotInv
<1>6. Counts(c, Target(c))'
  <2>1. Counts(c, buckets[c])
    BY <1>4 DEF IInv, CountInv
  <2>2. heap'[buckets[c]] = heap[buckets[c]]
    BY DEF IInv, TypeInv
  <2> QED BY <1>4, <2>1, <2>2 DEF Counts
<1>7. \A b \in Block : heap'[b] = Freed \/ \E n \in 4 .. MAX_CACHE_SIZE : IsMarked(heap'[b], n)
  BY DEF IInv, HeapInv
<1> QED BY <1>3, <1>5, <1>6, <1>7, FillStep

\* The new buckets are as large as the mask says, and not too large.
LEMMA NewCapacity ==
  ASSUME IInv, runtimeLock = nil, NEW c \in Class
  PROVE  /\ newCapacity(c) \in 4 .. MAX_CACHE_SIZE /\ mask[c] <= newCapacity(c) - 1
         /\ isConstantEmptyCache(c) <=> buckets[c] = Empty
         /\ buckets[c] # Empty => buckets[c] \in Block /\ capacity(c) = mask[c] + 1 /\ IsMarked(heap[buckets[c]], mask[c] + 1)
<1>1. holder.todo = <<>>
  BY DEF holder, Nobody
<1>2. Target(c) = buckets[c] /\ ~MaskPending(c)
  BY <1>1 DEF Target, Switches, Next1, MaskPending
<1>3. Counts(c, buckets[c]) /\ occupied[c] \in Nat /\ mask[c] \in Nat /\ buckets[c] \in Block \cup {Empty}
  BY <1>2 DEF IInv, CountInv, TypeInv
<1>4. isConstantEmptyCache(c) <=> buckets[c] = Empty
  BY <1>3 DEF Counts, isConstantEmptyCache
<1>5. /\ mask[c] \in DOMAIN heap[buckets[c]].sel /\ (mask[c] = 0 \/ mask[c] >= 3)
      /\ buckets[c] # Empty => IsMarked(heap[buckets[c]], mask[c] + 1)
  BY <1>2 DEF IInv, MaskInv
<1>6. INIT_CACHE_SIZE \in 4 .. MAX_CACHE_SIZE /\ MAX_CACHE_SIZE \in Nat /\ MAX_CACHE_SIZE >= 4
  BY Constants
<1>7. CASE buckets[c] = Empty
  <2>1. mask[c] <= MAX_CACHE_SIZE - 1
    <3>1. DOMAIN heap[Empty].sel = 0 .. MAX_CACHE_SIZE - 1
      BY EmptyShape DEF IInv, HeapInv
    <3> QED BY <1>3, <1>5, <1>6, <1>7, <3>1
  <2>2. newCapacity(c) = IF mask[c] = 0 THEN INIT_CACHE_SIZE ELSE mask[c] + 1
    BY <1>3, <1>4, <1>7 DEF newCapacity, capacity
  <2> QED BY <1>3, <1>4, <1>5, <1>6, <1>7, <2>1, <2>2
<1>8. CASE buckets[c] # Empty
  <2>1. mask[c] + 1 >= 4 /\ mask[c] + 1 <= MAX_CACHE_SIZE /\ IsMarked(heap[buckets[c]], mask[c] + 1)
    BY <1>5, <1>8, MarkedShape
  <2>2. capacity(c) = mask[c] + 1 /\ capacity(c) # 0
    BY <1>3, <2>1 DEF capacity
  <2>3. newCapacity(c) = IF 2 * (mask[c] + 1) > MAX_CACHE_SIZE THEN MAX_CACHE_SIZE ELSE 2 * (mask[c] + 1)
    BY <1>4, <1>8, <2>2 DEF newCapacity
  <2>4. newCapacity(c) \in 4 .. MAX_CACHE_SIZE /\ mask[c] <= newCapacity(c) - 1
    BY <1>3, <1>6, <2>1, <2>3
  <2> QED BY <1>3, <1>4, <1>8, <2>1, <2>2, <2>4
<1> QED BY <1>7, <1>8

\* The stores of new buckets, and of the first bucket of theirs.
StoresOf(w1, w2, z, w4, w5) == (<<w1, w2>> \o z) \o <<w4, w5>>

LEMMA NewStores ==
  ASSUME NEW w1 \in Store, NEW w2 \in Store, NEW z \in Seq(Store), Len(z) \in {0, 1},
         NEW w4 \in Store, NEW w5 \in Store
  PROVE  LET todo == StoresOf(w1, w2, z, w4, w5) IN
         /\ todo \in Seq(Store) /\ Len(todo) = Len(z) + 4 /\ todo[1] = w1 /\ todo[2] = w2
         /\ Len(z) = 1 => todo[3] = z[1]
         /\ todo[Len(z) + 3] = w4 /\ todo[Len(z) + 4] = w5
<1>1. PICK a, e : a = <<w1, w2>> /\ e = <<w4, w5>>
  OBVIOUS
<1>2. a \in Seq(Store) /\ Len(a) = 2 /\ a[1] = w1 /\ a[2] = w2 /\ e \in Seq(Store) /\ Len(e) = 2 /\ e[1] = w4 /\ e[2] = w5
  BY <1>1
<1>3. PICK y : y = a \o z
  OBVIOUS
<1>4. PICK todo : todo = y \o e
  OBVIOUS
<1>5. /\ y \in Seq(Store) /\ Len(y) = 2 + Len(z) /\ Len(z) \in Nat
      /\ \A k \in 1 .. 2 : y[k] = a[k]
      /\ \A k \in DOMAIN z : y[k + 2] = z[k]
  <2>1. /\ y \in Seq(Store) /\ Len(y) = Len(a) + Len(z)
        /\ \A k \in 1 .. Len(a) : y[k] = a[k]
        /\ \A k \in DOMAIN z : y[k + Len(a)] = z[k]
    BY <1>2, <1>3, Joined
  <2> QED BY <1>2, <2>1
<1>6. /\ todo \in Seq(Store) /\ Len(todo) = Len(y) + 2
      /\ \A k \in 1 .. Len(y) : todo[k] = y[k]
      /\ \A k \in DOMAIN e : todo[k + Len(y)] = e[k]
  <2>1. y \in Seq(Store) /\ e \in Seq(Store)
    BY <1>2, <1>5
  <2>2. /\ y \o e \in Seq(Store) /\ Len(y \o e) = Len(y) + Len(e)
        /\ \A k \in 1 .. Len(y) : (y \o e)[k] = y[k]
        /\ \A k \in DOMAIN e : (y \o e)[k + Len(y)] = e[k]
    BY <2>1, Joined
  <2> QED BY <1>2, <1>4, <2>2
<1>7. todo[1] = w1 /\ todo[2] = w2
  <2>1. 1 \in 1 .. 2 /\ 2 \in 1 .. 2 /\ 1 \in 1 .. Len(y) /\ 2 \in 1 .. Len(y)
    BY <1>5
  <2> QED BY <1>2, <1>5, <1>6, <2>1
<1>8. ASSUME Len(z) = 1 PROVE todo[3] = z[1]
  <2>1. 1 \in DOMAIN z /\ 1 + 2 = 3 /\ 3 \in 1 .. Len(y)
    BY <1>5, <1>8
  <2>2. y[1 + 2] = z[1]
    BY <1>5, <2>1
  <2> QED BY <1>6, <2>1, <2>2
<1>9. todo[Len(z) + 3] = w4 /\ todo[Len(z) + 4] = w5
  <2>1. 1 \in DOMAIN e /\ 2 \in DOMAIN e /\ 1 + Len(y) = Len(z) + 3 /\ 2 + Len(y) = Len(z) + 4
    BY <1>2, <1>5
  <2>2. todo[1 + Len(y)] = e[1] /\ todo[2 + Len(y)] = e[2]
    BY <1>6, <2>1
  <2> QED BY <1>2, <2>1, <2>2
<1>10. Len(todo) = Len(z) + 4
  BY <1>5, <1>6
<1>11. todo = StoresOf(w1, w2, z, w4, w5)
  BY <1>1, <1>3, <1>4 DEF StoresOf
<1> QED BY <1>6, <1>7, <1>8, <1>9, <1>10, <1>11

LEMMA LookUpImpOrForwardStep ==
  ASSUME IInv, NEW t \in Thread, lookUpImpOrForward(t) PROVE IInv'
<1>1. PICK c, s, imp : c = thread[t].c /\ s = thread[t].s /\ imp = LookUp(c, s)
  OBVIOUS
<1>2. /\ thread[t].pc = "miss" /\ runtimeLock = nil /\ runtimeLock' = t /\ Insert(t, c, s, imp)
      /\ UNCHANGED <<buckets, mask, garbage, garbage_size, methods, newest, limits>>
  BY <1>1 DEF lookUpImpOrForward
<1>3. c \in Class /\ s \in SEL /\ thread[t].floor \in Nat /\ s \notin {0, 1}
  BY <1>1, <1>2, SenderShape, Constants DEF IInv
<1>4. imp = [sel |-> s, version |-> Effective(c, s)] /\ imp \in Imp
  <2>1. imp = [sel |-> s, version |-> Effective(c, s)]
    BY <1>1, <1>2, <1>3, LookUpFinds
  <2>2. Effective(c, s) \in Nat /\ s \in Nat
    BY <1>3, EffectiveNat, Constants DEF IInv
  <2> QED BY <2>1, <2>2 DEF Imp
<1>5. ASSUME NEW todo \in Seq(Store),
             thread' = [thread EXCEPT ![t] =
               [pc |-> "write", then |-> "return", c |-> c, s |-> s, floor |-> @.floor, imp |-> imp,
                erase |-> {}, todo |-> todo]]
      PROVE  \E x \in Filling : Misses(t, x, c) /\ x.todo = todo /\ x.s = s /\ x.imp = imp
  <2>1. PICK x : x = [pc |-> "write", then |-> "return", c |-> c, s |-> s, floor |-> thread[t].floor, imp |-> imp,
                      erase |-> {}, todo |-> todo]
    OBVIOUS
  <2>2. /\ x \in Filling /\ x.c = c /\ x.s = s /\ x.imp = imp /\ x.floor = thread[t].floor /\ x.todo = todo
    BY <1>3, <1>4, <2>1 DEF Filling
  <2>3. thread' = [thread EXCEPT ![t] = x]
    BY <1>5, <2>1
  <2>4. Misses(t, x, c)
    BY <1>1, <1>2, <1>4, <2>2, <2>3 DEF Misses
  <2> QED BY <2>2, <2>4
<1>6. /\ newCapacity(c) \in 4 .. MAX_CACHE_SIZE /\ mask[c] <= newCapacity(c) - 1
      /\ isConstantEmptyCache(c) <=> buckets[c] = Empty
      /\ buckets[c] # Empty => buckets[c] \in Block /\ capacity(c) = mask[c] + 1 /\ IsMarked(heap[buckets[c]], mask[c] + 1)
  BY <1>2, <1>3, NewCapacity
<1>7. /\ DOMAIN heap = Block \cup {Empty} /\ occupied \in [Class -> Nat] /\ mask[c] \in Nat
      /\ buckets[c] \in Block \cup {Empty}
  BY <1>3 DEF IInv, TypeInv
<1>8. CASE ~(isConstantEmptyCache(c) \/ ~Fits(c))
  <2>1. PICK b, bs, i : b = buckets[c] /\ bs = heap[b] /\ i = Scan(bs, s)
    OBVIOUS
  <2>2. b \in Block /\ IsMarked(bs, mask[c] + 1)
    BY <1>6, <1>8, <2>1
  <2>3. i \in DOMAIN bs.sel /\ bs.sel[i] \in {0, s}
    <3>1. PICK n \in Nat : n = mask[c] + 1
      BY <1>7
    <3>2. n > 0 /\ IsBlock(bs, n) /\ DOMAIN bs.sel = 0 .. n - 1
      BY <2>2, <3>1, MarkedShape
    <3>3. \E j \in 0 .. n - 1 : bs.sel[j] = 0
      BY <1>3, <2>1, <3>2 DEF IInv, GuaranteedEmptySlot
    <3> QED BY <1>3, <2>1, <3>2, <3>3, ScanFinds
  <2>4. PICK todo : todo = (<<>> \o <<>>) \o (IF bs.sel[i] = s THEN <<>> ELSE set(b, i, s, imp))
    OBVIOUS
  <2>5. /\ heap' = [heap EXCEPT ![b] = bs]
        /\ occupied' = [occupied EXCEPT ![c] = @ + (IF bs.sel[i] = s THEN 0 ELSE 1)]
        /\ thread' = [thread EXCEPT ![t] =
             [pc |-> "write", then |-> "return", c |-> c, s |-> s, floor |-> @.floor, imp |-> imp,
              erase |-> {}, todo |-> todo]]
    BY <1>2, <1>8, <2>1, <2>4 DEF Insert
  <2>6. DOMAIN heap' = Block \cup {Empty} /\ \A a \in Block \cup {Empty} : heap'[a] = heap[a]
    BY <1>7, <2>1, <2>2, <2>5
  <2>7. CASE bs.sel[i] = s
    <3>1. todo = <<>> /\ todo \in Seq(Store)
      BY <2>4, <2>7
    <3>2. PICK x \in Filling : Misses(t, x, c) /\ x.todo = todo
      BY <1>5, <2>5, <3>1
    <3>3. occupied' \in [Class -> Nat] /\ \A d \in Class : occupied'[d] = occupied[d]
      BY <1>3, <1>7, <2>5, <2>7
    <3> QED BY <1>3, <2>6, <3>1, <3>2, <3>3, FillNothing
  <2>8. CASE bs.sel[i] # s
    <3>1. PICK w4, w5 : w4 = [op |-> "imp", b |-> b, i |-> i, imp |-> imp] /\ w5 = [op |-> "sel", b |-> b, i |-> i, s |-> s]
      OBVIOUS
    <3>2. w4 \in Store /\ w5 \in Store
      <4>1. i \in Nat
        <5>1. DOMAIN bs.sel = 0 .. (mask[c] + 1) - 1
          BY <2>2, MarkedShape
        <5> QED BY <1>7, <2>3, <5>1
      <4> QED BY <1>3, <1>4, <2>2, <3>1, <4>1 DEF Store
    <3>3. todo = <<w4, w5>>
      <4>1. <<w4, w5>> \in Seq(Store)
        BY <3>2
      <4>2. todo = (<<>> \o <<>>) \o <<w4, w5>>
        BY <2>4, <2>8, <3>1 DEF set
      <4> QED BY <4>1, <4>2
    <3>4. todo \in Seq(Store) /\ Len(todo) = 2 /\ todo[1] = w4 /\ todo[2] = w5
      BY <3>2, <3>3
    <3>5. PICK x \in Filling : Misses(t, x, c) /\ x.todo = todo /\ x.s = s /\ x.imp = imp
      BY <1>5, <2>5, <3>4
    <3>6. occupied' = [occupied EXCEPT ![c] = occupied[c] + 1]
      BY <1>3, <1>7, <2>5, <2>8
    <3>7. Fits(c) /\ heap[buckets[c]].sel[i] = 0 /\ i \in DOMAIN heap[buckets[c]].sel
      BY <1>8, <2>1, <2>3, <2>8
    <3>8. /\ buckets[c] \in Block /\ Len(x.todo) = 2
          /\ x.todo[1] = [op |-> "imp", b |-> buckets[c], i |-> i, imp |-> x.imp]
          /\ x.todo[2] = [op |-> "sel", b |-> buckets[c], i |-> i, s |-> x.s]
      BY <2>1, <2>2, <3>1, <3>4, <3>5
    <3> QED BY <1>3, <2>6, <3>5, <3>6, <3>7, <3>8, FillSlot
  <2> QED BY <2>7, <2>8
<1>9. CASE isConstantEmptyCache(c) \/ ~Fits(c)
  <2>1. PICK new, n, bs : new = Min({b \in Block : heap[b] = Freed}) /\ n = newCapacity(c) /\ bs = allocateBuckets(n)
    OBVIOUS
  <2>2. PICK i : i = Scan(bs, s)
    OBVIOUS
  <2>3. new \in Block /\ heap[new] = Freed
    <3>1. PICK free : free = {b \in Block : heap[b] = Freed}
      OBVIOUS
    <3>2. free # {}
      BY <1>2, <1>9, <3>1 DEF Insert
    <3>3. free \in SUBSET Nat
      BY <3>1, Constants
    <3>4. Min(free) \in free
      BY <3>2, <3>3, MinIn
    <3> QED BY <2>1, <3>1, <3>4
  <2>4. n \in 4 .. MAX_CACHE_SIZE /\ mask[c] <= n - 1
    BY <1>6, <2>1
  <2>5. IsMarked(bs, n) /\ \A j \in 0 .. n - 1 : bs.sel[j] \in {0, 1}
    BY <2>1, <2>4, AllocatedShape
  <2>6. n \in Nat /\ n > 0 /\ n >= 4 /\ IsBlock(bs, n) /\ \A j \in 0 .. n - 1 : bs.sel[j] = 1 <=> j = n - 1
    BY <2>5, MarkedShape
  <2>7. i \in 0 .. n - 1 /\ bs.sel[i] = 0
    <3>1. 0 \in 0 .. n - 1 /\ bs.sel[0] = 0
      BY <2>5, <2>6
    <3>2. i \in 0 .. n - 1 /\ bs.sel[i] \in {0, s}
      BY <1>3, <2>2, <2>6, <3>1, ScanFinds
    <3> QED BY <1>3, <2>5, <3>2
  <2>8. bs.sel[i] # s
    BY <1>3, <2>7
  <2>9. PICK z : z = IF isConstantEmptyCache(c) THEN <<>> ELSE collect_free(buckets[c], capacity(c))
    OBVIOUS
  <2>10. PICK todo : todo = (setBucketsAndMask(c, new, n - 1) \o z) \o set(new, i, s, imp)
    OBVIOUS
  <2>11. /\ heap' = [heap EXCEPT ![new] = bs] /\ occupied' = [occupied EXCEPT ![c] = 0 + 1]
         /\ thread' = [thread EXCEPT ![t] =
              [pc |-> "write", then |-> "return", c |-> c, s |-> s, floor |-> @.floor, imp |-> imp,
               erase |-> {}, todo |-> todo]]
    BY <1>2, <1>9, <2>1, <2>2, <2>8, <2>9, <2>10 DEF Insert
  <2>12. PICK w1, w2, w4, w5 : /\ w1 = [op |-> "buckets", c |-> c, b |-> new]
                               /\ w2 = [op |-> "mask", c |-> c, m |-> n - 1]
                               /\ w4 = [op |-> "imp", b |-> new, i |-> i, imp |-> imp]
                               /\ w5 = [op |-> "sel", b |-> new, i |-> i, s |-> s]
    OBVIOUS
  <2>13. w1 \in Store /\ w2 \in Store /\ w4 \in Store /\ w5 \in Store
    <3>1. new \in Nat
      BY <2>3, <2>6, <2>7, Constants
    <3>2. n - 1 \in Nat
      BY <2>3, <2>6, <2>7, Constants
    <3>3. i \in Nat
      BY <2>3, <2>6, <2>7, Constants
    <3> QED BY <1>3, <1>4, <2>3, <2>12, <3>1, <3>2, <3>3 DEF Store
  <2>14. todo = StoresOf(w1, w2, z, w4, w5)
    BY <2>10, <2>12 DEF setBucketsAndMask, set, StoresOf
  <2>15. ASSUME NEW m \in {2, 3}, z \in Seq(Store), Len(z) = m - 2,
                m = 3 => z[1].op = "collect_free" /\ z[1].b = buckets[c]
         PROVE  IInv'
    <3>1. Len(z) \in {0, 1} /\ Len(z) + 4 = m + 2 /\ Len(z) + 3 = m + 1 /\ (m = 3 => Len(z) = 1)
      BY <2>15
    <3>2. /\ todo \in Seq(Store) /\ Len(todo) = Len(z) + 4 /\ todo[1] = w1 /\ todo[2] = w2
          /\ Len(z) = 1 => todo[3] = z[1]
          /\ todo[Len(z) + 3] = w4 /\ todo[Len(z) + 4] = w5
      <4>1. z \in Seq(Store) /\ Len(z) \in {0, 1}
        BY <2>15, <3>1
      <4>2. LET td == StoresOf(w1, w2, z, w4, w5) IN
            /\ td \in Seq(Store) /\ Len(td) = Len(z) + 4 /\ td[1] = w1 /\ td[2] = w2
            /\ Len(z) = 1 => td[3] = z[1]
            /\ td[Len(z) + 3] = w4 /\ td[Len(z) + 4] = w5
        BY <2>13, <4>1, NewStores
      <4> QED BY <2>14, <4>2
    <3>3. /\ todo \in Seq(Store) /\ Len(todo) = m + 2 /\ todo[1] = w1 /\ todo[2] = w2
          /\ m = 3 => todo[3].op = "collect_free" /\ todo[3].b = buckets[c]
          /\ todo[m + 1] = w4 /\ todo[m + 2] = w5
      BY <2>15, <3>1, <3>2
    <3>4. PICK x \in Filling : Misses(t, x, c) /\ x.todo = todo /\ x.s = s /\ x.imp = imp
      BY <1>5, <2>11, <3>3
    <3>5. occupied' = [occupied EXCEPT ![c] = 1]
      BY <2>11
    <3>6. /\ Len(x.todo) = m + 2
          /\ x.todo[1] = [op |-> "buckets", c |-> c, b |-> new] /\ x.todo[2] = [op |-> "mask", c |-> c, m |-> n - 1]
          /\ m = 3 => x.todo[3].op = "collect_free" /\ x.todo[3].b = buckets[c]
          /\ x.todo[m + 1] = [op |-> "imp", b |-> new, i |-> i, imp |-> x.imp]
          /\ x.todo[m + 2] = [op |-> "sel", b |-> new, i |-> i, s |-> x.s]
      BY <2>12, <3>3, <3>4
    <3>7. heap' = [heap EXCEPT ![new] = allocateBuckets(n)] /\ allocateBuckets(n).sel[i] = 0
      BY <2>1, <2>7, <2>11
    <3> QED BY <1>3, <2>3, <2>4, <2>7, <3>4, <3>5, <3>6, <3>7, FillNew
  <2>16. CASE isConstantEmptyCache(c)
    <3>1. z \in Seq(Store) /\ Len(z) = 0
      BY <2>9, <2>16
    <3>2. PICK m \in {2, 3} : m = 2
      OBVIOUS
    <3> QED BY <2>15, <3>1, <3>2
  <2>17. CASE ~isConstantEmptyCache(c)
    <3>1. PICK w3 : w3 = [op |-> "collect_free", b |-> buckets[c], size |-> mask[c] + 1]
      OBVIOUS
    <3>2. w3 \in Store /\ z = <<w3>>
      BY <1>6, <1>7, <2>9, <2>17, <3>1 DEF Store, collect_free
    <3>3. z \in Seq(Store) /\ Len(z) = 1 /\ z[1] = w3
      BY <3>2
    <3>4. PICK m \in {2, 3} : m = 3
      OBVIOUS
    <3> QED BY <2>15, <3>1, <3>3, <3>4
  <2> QED BY <2>16, <2>17
<1> QED BY <1>8, <1>9

--------------------------------------------------------------------------------
(* The invariant *)

LEMMA InitInv ==
  ASSUME Init PROVE IInv
<1>1. /\ heap = [b \in Block \cup {Empty} |-> IF b = Empty THEN emptyBuckets ELSE Freed]
      /\ buckets = [c \in Class |-> Empty] /\ mask = [c \in Class |-> 0] /\ occupied = [c \in Class |-> 0]
      /\ garbage = {} /\ garbage_size = 0 /\ runtimeLock = nil
      /\ methods = [c \in Class |-> [s \in SEL |-> IF Superclass[c] = nil THEN 1 ELSE 0]]
      /\ newest = [c \in Class |-> [s \in SEL |-> 1]]
      /\ thread = [t \in Thread |-> Idle]
      /\ shouldUseRestartableRanges \in BOOLEAN /\ sends = 0 /\ changes = 0
  BY SizeAssumption DEF Init
<1>2. \A t \in Thread : thread[t] = Idle /\ thread[t].pc = "idle" /\ ~Reads(t)
  BY <1>1 DEF Idle, Reads
<1>3. TypeInv
  <2>1. Idle \in Resting
    BY DEF Idle, Resting
  <2> QED BY <1>1, <2>1, Constants DEF TypeInv
<1>4. MethodsInv /\ LockInv
  BY <1>1, <1>2, Constants DEF MethodsInv, LockInv
<1>5. holder = Nobody /\ holder.todo = <<>> /\ ~Fills
  BY <1>1 DEF holder, Nobody, Fills
<1>6. ~Next1("buckets") /\ ~Next1("check") /\ ~Next1("dispose") /\ \A c \in Class : Target(c) = Empty /\ ~MaskPending(c)
  BY <1>1, <1>5 DEF Next1, Target, Switches, MaskPending
<1>7. WriterInv /\ CheckInv
  BY <1>5, <1>6 DEF WriterInv, OrderInv, OrderOK, BucketsInv, StoredMaskInv, FreeInv, SlotInv, CheckInv
<1>8. heap[Empty] = emptyBuckets /\ \A b \in Block : heap[b] = Freed
  BY <1>1, Constants
<1>9. 0 \in DOMAIN emptyBuckets.sel /\ emptyBuckets.sel[0] = 0 /\ emptyBuckets # Freed
  BY EmptyShape, Constants
<1>10. InUse \subseteq {Empty}
  BY <1>1 DEF InUse
<1>11. BlockInv
  <2>1. HeapInv
    BY <1>1, <1>8, <1>9, <1>10 DEF HeapInv
  <2>2. MaskInv
    BY <1>1, <1>8, <1>9 DEF MaskInv
  <2>3. CountInv
    BY <1>1, <1>6 DEF CountInv, Counts
  <2>4. GuaranteedEmptySlot
    BY <1>1, <1>8, <1>9 DEF GuaranteedEmptySlot
  <2> QED BY <2>1, <2>2, <2>3, <2>4 DEF BlockInv
<1>12. ReaderInv
  BY <1>2 DEF ReaderInv, ReaderOK, FloorOK
<1>13. ShowsInv
  <2>1. ASSUME NEW c \in Class, NEW s \in SEL PROVE \E v \in newest[c][s] .. Effective(c, s) : Shows(c, s, v)
    <3>1. Effective(c, s) = 1
      <4>1. methods[c][s] = 0 => Superclass[c] \in Class /\ Superclass[Superclass[c]] = nil
        BY <1>1, ClassAssumption
      <4> QED BY <1>1, <4>1 DEF Effective
    <3>2. newest[c][s] = 1
      BY <1>1
    <3>3. Holds(buckets[c], s, 1, 1)
      BY <1>1, <1>8, EmptyShape, Constants DEF Holds
    <3>4. \A t \in Thread : Finds(t, c, s, 1)
      BY <1>2 DEF Finds
    <3>5. Shows(c, s, 1)
      BY <1>5, <3>1, <3>3, <3>4 DEF Shows
    <3>6. 1 \in newest[c][s] .. Effective(c, s)
      BY <3>1, <3>2
    <3> QED BY <3>5, <3>6
  <2> QED BY <2>1 DEF ShowsInv
<1> QED BY <1>3, <1>4, <1>7, <1>11, <1>12, <1>13 DEF IInv, WriterInv, BlockInv

LEMMA StutterInv ==
  ASSUME IInv, UNCHANGED vars PROVE IInv'
<1>1. /\ heap' = heap /\ buckets' = buckets /\ mask' = mask /\ occupied' = occupied /\ garbage' = garbage
      /\ garbage_size' = garbage_size /\ runtimeLock' = runtimeLock /\ methods' = methods /\ newest' = newest
      /\ thread' = thread /\ shouldUseRestartableRanges' = shouldUseRestartableRanges /\ sends' = sends
      /\ changes' = changes
  BY DEF vars
<1>2. UNCHANGED cache /\ holder' = holder
  BY <1>1 DEF cache, holder
<1>3. TypeInv' /\ MethodsInv' /\ LockInv'
  BY <1>1 DEF IInv, TypeInv, MethodsInv, LockInv
<1>4. \A t \in Thread : Reads(t)' = Reads(t) /\ thread'[t] = thread[t]
  BY <1>1 DEF Reads
<1>5. WriterInv' /\ BlockInv' /\ CheckInv'
  BY <1>2, <1>4, WriterStays DEF IInv, WriterInv, BlockInv
<1>6. ReaderInv'
  BY <1>1, <1>4 DEF IInv, ReaderInv, ReaderOK, FloorOK
<1>7. ShowsInv'
  <2>1. Awaiting' = Awaiting /\ Fills' = Fills
    BY <1>2 DEF Awaiting, Switches, Next1, Fills
  <2>2. \A c, s : Effective(c, s)' = Effective(c, s)
    BY <1>1 DEF Effective
  <2>3. \A t \in Thread : \A c, s, v : Finds(t, c, s, v) => Finds(t, c, s, v)'
    BY <1>1, <1>4 DEF Finds, Holds
  <2>4. \A c, s, v : Shows(c, s, v) => Shows(c, s, v)'
    BY <1>1, <1>2, <2>1, <2>2, <2>3 DEF Shows, Holds
  <2> QED BY <1>1, <2>2, <2>4 DEF IInv, ShowsInv
<1> QED BY <1>3, <1>5, <1>6, <1>7 DEF IInv, WriterInv, BlockInv

\* Every step of any thread keeps the invariant: what the stores still to be made will
\* show, and to whom, is known at each of them.
THEOREM InvariantHolds == Spec => []IInv
<1>1. Init => IInv
  BY InitInv
<1>2. IInv /\ [Next]_vars => IInv'
  <2>1. SUFFICES ASSUME IInv, [Next]_vars PROVE IInv'
    OBVIOUS
  <2>2. CASE UNCHANGED vars
    BY <2>1, <2>2, StutterInv
  <2>3. ASSUME NEW t \in Thread, NEW c \in Class, NEW s \in SEL, objc_msgSend(t, c, s) PROVE IInv'
    BY <2>1, <2>3, SendStep
  <2>4. ASSUME NEW t \in Thread, NEW c \in Class, NEW s \in SEL, replaceMethod(t, c, s) PROVE IInv'
    BY <2>1, <2>4, ReplaceMethodStep
  <2>5. ASSUME NEW t \in Thread, flush_caches(t) PROVE IInv'
    BY <2>1, <2>5, FlushCachesStep
  <2>6. ASSUME NEW t \in Thread, CollectALot(t) PROVE IInv'
    BY <2>1, <2>6, CollectALotStep
  <2>7. ASSUME NEW t \in Thread, Load(t) PROVE IInv'
    BY <2>1, <2>7, LoadStep
  <2>8. ASSUME NEW t \in Thread, Compare(t) PROVE IInv'
    BY <2>1, <2>8, CompareStep
  <2>9. ASSUME NEW t \in Thread, ScanOn(t) PROVE IInv'
    BY <2>1, <2>9, ScanOnStep
  <2>10. ASSUME NEW t \in Thread, CacheHit(t) PROVE IInv'
    BY <2>1, <2>10, CacheHitStep
  <2>11. ASSUME NEW t \in Thread, Return(t) PROVE IInv'
    BY <2>1, <2>11, ReturnStep
  <2>12. ASSUME NEW t \in Thread, lookUpImpOrForward(t) PROVE IInv'
    BY <2>1, <2>12, LookUpImpOrForwardStep
  <2>13. ASSUME NEW t \in Thread, EraseNext(t) PROVE IInv'
    BY <2>1, <2>13, EraseNextStep
  <2>14. ASSUME NEW t \in Thread, WriteStore(t) PROVE IInv'
    BY <2>1, <2>14, WriteStoreStep
  <2>15. ASSUME NEW t \in Thread, CollectFree(t) PROVE IInv'
    BY <2>1, <2>15, CollectFreeStep
  <2>16. ASSUME NEW t \in Thread, CollectingInCritical(t) PROVE IInv'
    BY <2>1, <2>16, CollectingInCriticalStep
  <2>17. ASSUME NEW t \in Thread, Dispose(t) PROVE IInv'
    BY <2>1, <2>17, DisposeStep
  <2>18. ASSUME NEW t \in Thread, Unlock(t) PROVE IInv'
    BY <2>1, <2>18, UnlockStep
  <2> QED BY <2>1, <2>2, <2>3, <2>4, <2>5, <2>6, <2>7, <2>8, <2>9, <2>10, <2>11, <2>12, <2>13, <2>14, <2>15,
             <2>16, <2>17, <2>18 DEF Next
<1> QED BY <1>1, <1>2, PTL DEF Spec

\* A reader is always within buckets that are not freed, whatever mask and buckets it
\* has loaded and whatever has happened to its class's cache since (objc-cache.mm:37-48).
THEOREM NoStrayReadHolds == Spec => []NoStrayRead
<1>1. IInv => NoStrayRead
  BY DEF IInv, ReaderInv, ReaderOK, Reads, NoStrayRead
<1> QED BY <1>1, InvariantHolds, PTL

\* A message gets a method of its selector that is as new as all the changes that had
\* returned when it was sent (objc-runtime-new.mm:6178-6182).
THEOREM RightMethodHolds == Spec => []RightMethod
<1>1. IInv => RightMethod
  <2>1. SUFFICES ASSUME IInv, NEW t \in Thread, thread[t].pc = "return"
                 PROVE  LET r == thread[t] IN
                        r.imp.sel = r.s /\ r.imp.version \in r.floor .. Effective(r.c, r.s)
    BY DEF RightMethod
  <2>2. PICK c \in Class, s \in SEL : c = thread[t].c /\ s = thread[t].s /\ thread[t].floor \in Nat
    BY <2>1, SenderShape DEF IInv
  <2>3. PICK v \in newest[c][s] .. Effective(c, s) : Shows(c, s, v)
    BY <2>1 DEF IInv, ShowsInv
  <2>4. thread[t].imp.sel = s /\ thread[t].imp.version \in thread[t].floor .. v
    BY <2>1, <2>2, <2>3 DEF Shows, Finds
  <2>5. newest[c][s] \in Nat /\ Effective(c, s) \in Nat
    BY <2>1, EffectiveNat DEF IInv, TypeInv
  <2> QED BY <2>2, <2>3, <2>4, <2>5
<1> QED BY <1>1, InvariantHolds, PTL

\* The buckets of every cache have a free one, so that every scan of them ends: the
\* holder of the lock keeps it so between any two stores (objc-cache.mm:683-685).
THEOREM GuaranteedEmptySlotHolds == Spec => []GuaranteedEmptySlot
<1>1. IInv => GuaranteedEmptySlot
  BY DEF IInv
<1> QED BY <1>1, InvariantHolds, PTL
================================================================================
