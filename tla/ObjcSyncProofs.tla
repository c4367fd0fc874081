----------------------------- MODULE ObjcSyncProofs -----------------------------
(***************************************************************************)
(* ObjcSync, proved for any finite set of threads, any objects, programs   *)
(* that nest in any order, and both misuses.                               *)
(*                                                                         *)
(* IInv of ObjcSyncInv is inductive.  The lemmas <Action>Effect say what   *)
(* an action does to the items of its thread; after them no proof looks    *)
(* into the caches.  The lemmas <Conjunct>Step each show that one conjunct *)
(* survives every action.                                                  *)
(***************************************************************************)
EXTENDS ObjcSyncInv, FiniteSetTheorems, TLAPS

\* The list and the caches are sequences of SyncData and items.
LEMMA Shape ==
  ASSUME TypeOK
  PROVE  /\ Len(list) \in Nat /\ DOMAIN list = 1 .. Len(list)
         /\ \A d \in DOMAIN list :
              /\ list[d].object \in Object /\ list[d].threadCount \in Nat
              /\ list[d].owner \in Thread \cup {Nobody} /\ list[d].depth \in Nat
         /\ \A t \in Thread :
              /\ Len(cache[t]) \in Nat /\ DOMAIN cache[t] = 1 .. Len(cache[t])
              /\ \A i \in DOMAIN cache[t] : cache[t][i] \in SyncCacheItem
              /\ fast[t] # NoItem => fast[t] \in SyncCacheItem
              /\ NoItem \notin SyncCacheItem
              /\ \A item \in Items(t) : item \in SyncCacheItem
<1>1. /\ Len(list) \in Nat /\ DOMAIN list = 1 .. Len(list)
      /\ \A d \in DOMAIN list : list[d] \in SyncData
  BY DEF TypeOK
<1>2. NoItem \notin SyncCacheItem
  BY <1>1 DEF SyncCacheItem, NoItem, NULL
<1>3. ASSUME NEW t \in Thread
      PROVE  /\ Len(cache[t]) \in Nat /\ DOMAIN cache[t] = 1 .. Len(cache[t])
             /\ \A i \in DOMAIN cache[t] : cache[t][i] \in SyncCacheItem
             /\ fast[t] # NoItem => fast[t] \in SyncCacheItem
  <2>1. cache[t] \in Seq(SyncCacheItem) /\ fast[t] \in SyncCacheItem \cup {NoItem}
    BY DEF TypeOK
  <2> QED BY <2>1
<1>4. \A t \in Thread : \A item \in Items(t) : item \in SyncCacheItem
  BY <1>3 DEF Items
<1> QED BY <1>1, <1>2, <1>3, <1>4 DEF SyncData

\* A removed item leaves the others, the last in its place.
LEMMA RemoveEffect ==
  ASSUME NEW S, NEW s \in Seq(S), NEW i \in DOMAIN s
  PROVE  /\ Remove(s, i) \in Seq(S) /\ Len(Remove(s, i)) = Len(s) - 1
         /\ \A j \in 1 .. Len(s) - 1 : Remove(s, i)[j] = IF j = i THEN s[Len(s)] ELSE s[j]
<1> DEFINE r == [s EXCEPT ![i] = s[Len(s)]]
<1>1. r \in Seq(S) /\ Len(r) = Len(s) /\ \A j \in 1 .. Len(s) : r[j] = IF j = i THEN s[Len(s)] ELSE s[j]
  OBVIOUS
<1> HIDE DEF r
<1>2. Remove(s, i) = SubSeq(r, 1, Len(s) - 1)
  BY DEF Remove, r
<1>3. Len(s) \in Nat /\ Len(s) >= 1
  OBVIOUS
<1> QED BY <1>1, <1>2, <1>3, SMTT(20)

\* An item is its SyncData and its lockCount.
LEMMA CountedItem ==
  ASSUME TypeOK, NEW x \in SyncCacheItem, NEW n
  PROVE  [x EXCEPT !.lockCount = n] = [data |-> x.data, lockCount |-> n]
<1>1. x = [data |-> x.data, lockCount |-> x.lockCount]
  BY DEF SyncCacheItem
<1>2. \A a, b : [[data |-> a, lockCount |-> b] EXCEPT !.lockCount = n] = [data |-> a, lockCount |-> n]
  OBVIOUS
<1> QED BY <1>1, <1>2

\* SyncCacheItem.lockCount after a call.
After(item, c) == IF c = "exit" THEN item.lockCount - 1 ELSE item.lockCount + 1

\* A call c of o found item x: the thread's items after it, and the list.
Used(t, o, c, x) ==
  /\ For(x, o)
  /\ list' = IF After(x, c) = 0 THEN [list EXCEPT ![x.data].threadCount = @ - 1] ELSE list
  /\ data' = [data EXCEPT ![t] = x.data]
  /\ pc' = [pc EXCEPT ![t] = CASE c = "enter"     -> "lock"
                               [] c = "try_enter" -> "trylock"
                               [] c = "exit"      -> "unlock"]
  /\ Items(t)' = (Items(t) \ {x}) \cup
       (IF After(x, c) = 0 THEN {} ELSE {[data |-> x.data, lockCount |-> After(x, c)]})

\* A call c of o found no item.
Missed(t, o) ==
  /\ \A item \in Items(t) : ~For(item, o)
  /\ pc' = [pc EXCEPT ![t] = "spin"]
  /\ Items(t)' = Items(t)
  /\ UNCHANGED <<list, data>>

Calls(t, o, c) ==
  /\ pc[t] = "idle"
  /\ call' = [call EXCEPT ![t] = c] /\ object' = [object EXCEPT ![t] = o]
  /\ UNCHANGED <<spinlock, p, unused, inside>>
  /\ \A u \in Thread \ {t} : Items(u)' = Items(u)
  /\ \/ \E x \in Items(t) : Used(t, o, c, x)
     \/ Missed(t, o)

\* The caches after a step have their types, room, and one item of a SyncData.
CachesFit(S) ==
  /\ fast' \in [Thread -> S \cup {NoItem}]
  /\ cache' \in [Thread -> Seq(S)] /\ allocated' \in [Thread -> Nat]
  /\ CacheHasRoom' /\ RoomInv' /\ ApartInv'

\* A call that finds the item of its object in the fast cache.
LEMMA LookupFastEffect ==
  ASSUME TypeOK, RoomInv, ApartInv, LockedInv, NEW t \in Thread, NEW o \in Object,
         NEW c \in {"enter", "try_enter", "exit"}, pc[t] = "idle",
         call' = [call EXCEPT ![t] = c], object' = [object EXCEPT ![t] = o],
         fast[t] # NoItem, For(fast[t], o), LookupFast(t)
  PROVE  /\ CachesFit(SyncCacheItem) /\ Used(t, o, c, fast[t]) /\ fast[t] \in Items(t)
         /\ \A u \in Thread \ {t} : Items(u)' = Items(u)
<1> DEFINE x == fast[t]  n == After(x, c)
<1>1. x \in Items(t) /\ x.lockCount \in Nat /\ x.lockCount > 0 /\ n \in Nat /\ x.data \in DOMAIN list
      /\ x = [data |-> x.data, lockCount |-> x.lockCount]
  BY Shape DEF Items, LockedInv, After, SyncCacheItem
<1>2. call'[t] = c /\ LockCountAfter(t, x) = n
  BY DEF TypeOK, LockCountAfter, After
<1>3. /\ fast' = [fast EXCEPT ![t] = IF n = 0 THEN NoItem ELSE [data |-> x.data, lockCount |-> n]]
      /\ UNCHANGED <<cache, allocated>>
      /\ Use(t, x)
  <2>1. [x EXCEPT !.lockCount = n] = [data |-> x.data, lockCount |-> n]
    BY Shape, CountedItem
  <2> QED BY <1>2, <2>1 DEF LookupFast
<1>4. /\ fast'[t] = IF n = 0 THEN NoItem ELSE [data |-> x.data, lockCount |-> n]
      /\ \A u \in Thread \ {t} : fast'[u] = fast[u]
      /\ cache' = cache
  BY <1>1, <1>3 DEF TypeOK
<1>5. \A i \in DOMAIN cache[t] : cache[t][i] # x
  BY DEF ApartInv
<1>6. \A u \in Thread \ {t} : Items(u)' = Items(u)
  BY <1>4 DEF Items
<1>7. [data |-> x.data, lockCount |-> n] # NoItem
  BY <1>1, Shape DEF NoItem, NULL
<1>8. Items(t)' = (Items(t) \ {x}) \cup
       (IF n = 0 THEN {} ELSE {[data |-> x.data, lockCount |-> n]})
  BY <1>4, <1>5, <1>7 DEF Items
<1>9. Used(t, o, c, x)
  BY <1>2, <1>3, <1>8 DEF Used, Use, Leave, Goto
<1>10. CachesFit(SyncCacheItem)
  <2>1. fast' \in [Thread -> SyncCacheItem \cup {NoItem}]
    BY <1>1, <1>3 DEF TypeOK, SyncCacheItem
  <2>2. ApartInv'
    BY <1>4 DEF ApartInv, NoItem
  <2>3. RoomInv'
    BY <1>3, <1>9 DEF RoomInv, Used, Searching, TypeOK
  <2> QED BY <1>3, <2>1, <2>2, <2>3 DEF CachesFit, TypeOK, CacheHasRoom
<1> QED BY <1>1, <1>6, <1>9, <1>10

\* fetch_cache leaves room for one more item, or there is no cache.
LEMMA FetchEffect ==
  ASSUME TypeOK, NEW t \in Thread, FetchCache(t)
  PROVE  /\ allocated' \in [Thread -> Nat]
         /\ \A u \in Thread \ {t} : allocated'[u] = allocated[u]
         /\ \A u \in Thread : allocated'[u] >= allocated[u]
         /\ Len(cache[t]) < allocated'[t] \/ allocated'[t] = 0
<1> DEFINE n == IF allocated[t] = Len(cache[t]) THEN 2 * allocated[t] ELSE allocated[t]
<1>1. /\ allocated \in [Thread -> Nat] /\ Len(cache[t]) \in Nat
      /\ allocated[t] \in Nat /\ Len(cache[t]) <= allocated[t]
  BY Shape DEF TypeOK, CacheHasRoom
<1>2. allocated' = [allocated EXCEPT ![t] = n]
  BY DEF FetchCache
<1>3. n \in Nat /\ n >= allocated[t] /\ (Len(cache[t]) < n \/ n = 0)
  BY <1>1
<1> HIDE DEF n
<1>4. allocated'[t] = n /\ \A u \in Thread \ {t} : allocated'[u] = allocated[u]
  BY <1>1, <1>2
<1>5. \A u \in Thread : allocated'[u] >= allocated[u]
  <2> TAKE u \in Thread
  <2>1. CASE u = t
    BY <1>3, <1>4, <2>1
  <2>2. CASE u # t
    BY <1>1, <1>4, <2>2
  <2> QED BY <2>1, <2>2
<1> QED BY <1>1, <1>2, <1>3, <1>4, <1>5

\* A call that finds the item of its object in the cache.
LEMMA LookupCacheEffect ==
  ASSUME TypeOK, RoomInv, ApartInv, LockedInv, NEW t \in Thread, NEW o \in Object,
         NEW c \in {"enter", "try_enter", "exit"}, pc[t] = "idle",
         call' = [call EXCEPT ![t] = c], object' = [object EXCEPT ![t] = o],
         NEW i \in DOMAIN cache[t], For(cache[t][i], o), FetchCache(t), LookupCache(t, i)
  PROVE  /\ CachesFit(SyncCacheItem) /\ Used(t, o, c, cache[t][i]) /\ cache[t][i] \in Items(t)
         /\ \A u \in Thread \ {t} : Items(u)' = Items(u)
<1> DEFINE x == cache[t][i]  n == After(x, c)  y == [data |-> x.data, lockCount |-> n]
           rest == IF n = 0 THEN Remove(cache[t], i) ELSE [cache[t] EXCEPT ![i] = y]
<1>1. /\ x \in Items(t) /\ x \in SyncCacheItem /\ x.lockCount \in Nat /\ x.lockCount > 0
      /\ n \in Nat /\ x.data \in DOMAIN list /\ y \in SyncCacheItem
  BY Shape DEF Items, LockedInv, After, SyncCacheItem
<1>2. call'[t] = c /\ LockCountAfter(t, x) = n
  BY DEF TypeOK, LockCountAfter, After
<1>3. /\ cache' = [cache EXCEPT ![t] = rest]
      /\ fast' = fast
      /\ Use(t, x)
  <2>1. [x EXCEPT !.lockCount = n] = y
    BY <1>1, CountedItem
  <2>2. [cache[t] EXCEPT ![i].lockCount = n] = [cache[t] EXCEPT ![i] = y]
    BY <2>1
  <2> QED BY <1>2, <2>2 DEF LookupCache
<1>4. cache[t] \in Seq(SyncCacheItem) /\ i \in 1 .. Len(cache[t]) /\ Len(cache[t]) \in Nat
  BY Shape DEF TypeOK
<1>5. /\ rest \in Seq(SyncCacheItem) /\ Len(rest) <= Len(cache[t]) /\ Len(rest) \in Nat
      /\ DOMAIN rest = 1 .. Len(rest)
      /\ n = 0 => /\ Len(rest) = Len(cache[t]) - 1
                  /\ \A j \in DOMAIN rest : rest[j] = IF j = i THEN cache[t][Len(cache[t])] ELSE cache[t][j]
      /\ n # 0 => /\ Len(rest) = Len(cache[t])
                  /\ \A j \in DOMAIN rest : rest[j] = IF j = i THEN y ELSE cache[t][j]
  <2>1. CASE n = 0
    <3>1. rest = Remove(cache[t], i)
      BY <2>1
    <3> HIDE DEF rest
    <3>2. /\ rest \in Seq(SyncCacheItem) /\ Len(rest) = Len(cache[t]) - 1
          /\ \A j \in 1 .. Len(cache[t]) - 1 :
               rest[j] = IF j = i THEN cache[t][Len(cache[t])] ELSE cache[t][j]
      BY <3>1, <1>4, RemoveEffect
    <3>3. DOMAIN rest = 1 .. Len(rest) /\ Len(rest) \in Nat
      BY <3>2
    <3> QED BY <2>1, <3>2, <3>3, <1>4
  <2>2. CASE n # 0
    <3>1. rest = [cache[t] EXCEPT ![i] = y]
      BY <2>2
    <3> HIDE DEF rest, y
    <3> QED BY <2>2, <3>1, <1>1, <1>4
  <2> QED BY <2>1, <2>2
<1> HIDE DEF rest, y
<1>6. /\ cache'[t] = rest /\ fast'[t] = fast[t]
      /\ \A u \in Thread \ {t} : cache'[u] = cache[u] /\ fast'[u] = fast[u]
  BY <1>3 DEF TypeOK
<1>7. \A u \in Thread \ {t} : Items(u)' = Items(u)
  BY <1>6 DEF Items
<1>8. /\ \A j \in DOMAIN cache[t] : cache[t][j] = x => j = i
      /\ fast[t] # NoItem => fast[t] # x
  BY DEF ApartInv
<1>9. {rest[j] : j \in DOMAIN rest} =
        ({cache[t][j] : j \in DOMAIN cache[t]} \ {x}) \cup (IF n = 0 THEN {} ELSE {y})
  <2>1. CASE n = 0
    <3>1. ASSUME NEW j \in DOMAIN rest
          PROVE  \E k \in DOMAIN cache[t] : k # i /\ rest[j] = cache[t][k]
      BY <1>4, <1>5, <2>1
    <3>2. ASSUME NEW k \in DOMAIN cache[t], k # i
          PROVE  \E j \in DOMAIN rest : rest[j] = cache[t][k]
      <4>1. CASE k = Len(cache[t])
        BY <1>4, <1>5, <2>1, <3>2, <4>1
      <4>2. CASE k # Len(cache[t])
        BY <1>4, <1>5, <2>1, <3>2, <4>2
      <4> QED BY <4>1, <4>2
    <3> QED BY <1>8, <2>1, <3>1, <3>2
  <2>2. CASE n # 0
    BY <1>4, <1>5, <1>8, <2>2
  <2> QED BY <2>1, <2>2
<1>10. Items(t)' = (Items(t) \ {x}) \cup (IF n = 0 THEN {} ELSE {y})
  BY <1>6, <1>8, <1>9 DEF Items
<1>11. Used(t, o, c, x)
  BY <1>2, <1>3, <1>10 DEF Used, Use, Leave, Goto, y
<1>12. CachesFit(SyncCacheItem)
  <2>1. cache' \in [Thread -> Seq(SyncCacheItem)]
    BY <1>3, <1>5 DEF TypeOK
  <2>2. allocated' \in [Thread -> Nat] /\ \A u \in Thread : allocated'[u] >= allocated[u]
    BY FetchEffect
  <2>3. CacheHasRoom'
    <3>1. \A u \in Thread : Len(cache'[u]) <= Len(cache[u]) /\ Len(cache'[u]) \in Nat
      BY <1>5, <1>6, Shape
    <3>2. \A u \in Thread : Len(cache[u]) <= allocated[u] /\ allocated[u] \in Nat
      BY DEF TypeOK, CacheHasRoom
    <3> QED BY <2>2, <3>1, <3>2, Shape, SMTT(20) DEF CacheHasRoom
  <2>4. RoomInv'
    BY <1>6, <1>11, FetchEffect DEF RoomInv, Used, Searching, TypeOK
  <2>5. ApartInv'
    <3>1. \A j \in DOMAIN rest : \E k \in DOMAIN cache[t] :
             /\ rest[j].data = cache[t][k].data
             /\ k = IF j = i /\ n = 0 THEN Len(cache[t]) ELSE j
      BY <1>4, <1>5, <1>1 DEF y
    <3>2. \A j, k \in DOMAIN rest : rest[j].data = rest[k].data => j = k
      BY <1>4, <1>5, <3>1 DEF ApartInv
    <3>3. \A j \in DOMAIN rest : fast[t] # NoItem => rest[j].data # fast[t].data
      BY <3>1 DEF ApartInv
    <3> QED BY <1>6, <3>2, <3>3 DEF ApartInv
  <2> QED BY <1>3, <2>1, <2>2, <2>3, <2>4, <2>5 DEF CachesFit, TypeOK
<1> QED BY <1>1, <1>7, <1>11, <1>12

\* A call of the program finds the item of its object in the caches, or goes on to
\* search the list.
LEMMA BeginEffect ==
  ASSUME TypeOK, RoomInv, ApartInv, LockedInv, NEW t \in Thread, NEW o \in Object,
         NEW c \in {"enter", "try_enter", "exit"}, pc[t] = "idle", Begin(t, o, c)
  PROVE  CachesFit(SyncCacheItem) /\ Calls(t, o, c)
<1>1. /\ call' = [call EXCEPT ![t] = c] /\ object' = [object EXCEPT ![t] = o]
      /\ UNCHANGED <<spinlock, p, unused, inside>>
  BY DEF Begin
<1>2. CASE fast[t] # NoItem /\ For(fast[t], o)
  <2>1. LookupFast(t)
    BY <1>2 DEF Begin
  <2> QED BY <1>1, <1>2, <2>1, LookupFastEffect DEF Calls
<1>3. CASE ~(fast[t] # NoItem /\ For(fast[t], o))
  <2>1. FetchCache(t)
    BY <1>3 DEF Begin
  <2>2. CASE \E i \in DOMAIN cache[t] : For(cache[t][i], o) /\ LookupCache(t, i)
    BY <1>1, <2>1, <2>2, LookupCacheEffect DEF Calls
  <2>3. CASE /\ \A i \in DOMAIN cache[t] : ~For(cache[t][i], o)
             /\ Goto(t, "spin")
             /\ UNCHANGED <<list, fast, cache, data>>
    <3>1. \A u \in Thread : Items(u)' = Items(u)
      BY <2>3 DEF Items
    <3>2. Missed(t, o)
      BY <1>3, <2>3, <3>1 DEF Missed, Items, Goto
    <3>3. CachesFit(SyncCacheItem)
      <4>1. allocated' \in [Thread -> Nat] /\ CacheHasRoom' /\ RoomInv'
        <5>1. allocated' \in [Thread -> Nat] /\ \A u \in Thread : allocated'[u] >= allocated[u]
          BY <2>1, FetchEffect
        <5>2. \A u \in Thread : Len(cache[u]) <= allocated[u] /\ Len(cache[u]) \in Nat
          BY Shape DEF TypeOK, CacheHasRoom
        <5>3. CacheHasRoom'
          BY <2>3, <5>1, <5>2 DEF CacheHasRoom, TypeOK
        <5>4. RoomInv'
          BY <2>1, <2>3, FetchEffect DEF RoomInv, Goto, Searching, TypeOK
        <5> QED BY <5>1, <5>3, <5>4
      <4>2. ApartInv'
        BY <2>3 DEF ApartInv
      <4> QED BY <2>3, <4>1, <4>2 DEF CachesFit, TypeOK
    <3> QED BY <1>1, <3>1, <3>2, <3>3 DEF Calls
  <2> QED BY <1>3, <2>2, <2>3 DEF Begin
<1> QED BY <1>2, <1>3

\* The search ends with SyncData d, for which the thread had no item.
Saved(t, d) ==
  /\ data' = [data EXCEPT ![t] = d]
  /\ pc' = [pc EXCEPT ![t] = IF call[t] = "enter" THEN "lock" ELSE "trylock"]
  /\ Items(t)' = Items(t) \cup {[data |-> d, lockCount |-> 1]}
  /\ \A u \in Thread \ {t} : Items(u)' = Items(u)

\* The thread has one more item after id2data has chosen a SyncData for it.
LEMMA SaveEffect ==
  ASSUME TypeOK, RoomInv, ApartInv, NEW t \in Thread, pc[t] = "walk",
         DOMAIN list \subseteq DOMAIN list', NEW d \in DOMAIN list', d # NULL,
         \A x \in Items(t) : x.data # d, Save(t, d)
  PROVE  CachesFit(SyncCacheItem') /\ Saved(t, d)
<1> DEFINE x == [data |-> d, lockCount |-> 1]
<1>1. /\ SyncCacheItem \subseteq SyncCacheItem' /\ x \in SyncCacheItem'
  BY DEF SyncCacheItem
<1>2. x # NoItem
  BY DEF NoItem
<1>3. /\ fast' \in [Thread -> SyncCacheItem' \cup {NoItem}]
      /\ cache \in [Thread -> Seq(SyncCacheItem')]
  <2>1. fast \in [Thread -> SyncCacheItem' \cup {NoItem}]
    BY <1>1 DEF TypeOK
  <2>2. \A u \in Thread : cache[u] \in Seq(SyncCacheItem')
    BY <1>1, Shape DEF TypeOK
  <2>3. cache \in [Thread -> Seq(SyncCacheItem')]
    BY <2>2 DEF TypeOK
  <2> HIDE DEF x
  <2> QED BY <1>1, <2>1, <2>3 DEF Save, x
<1>4. data' = [data EXCEPT ![t] = d] /\ pc' = [pc EXCEPT ![t] = IF call[t] = "enter" THEN "lock" ELSE "trylock"]
  BY DEF Save, Goto
<1>5. CASE fast[t] = NoItem
  <2>1. fast' = [fast EXCEPT ![t] = x] /\ cache' = cache /\ allocated' = allocated
    BY <1>5 DEF Save
  <2> HIDE DEF x
  <2>2. fast'[t] = x /\ (\A u \in Thread \ {t} : fast'[u] = fast[u])
    BY <2>1 DEF TypeOK
  <2>3. \A u \in Thread \ {t} : Items(u)' = Items(u)
    BY <2>1, <2>2 DEF Items
  <2>4. Items(t)' = Items(t) \cup {x}
    BY <1>2, <1>5, <2>1, <2>2 DEF Items
  <2>5. ApartInv'
    <3>1. \A i \in DOMAIN cache[t] : cache[t][i].data # x.data
      BY DEF Items, x
    <3> QED BY <2>1, <2>2, <3>1 DEF ApartInv
  <2>6. CacheHasRoom' /\ RoomInv'
    BY <1>4, <2>1 DEF TypeOK, CacheHasRoom, RoomInv, Searching
  <2> QED BY <1>3, <1>4, <2>1, <2>3, <2>4, <2>5, <2>6 DEF CachesFit, Saved, TypeOK, x
<1>6. CASE fast[t] # NoItem
  <2> DEFINE s == Append(cache[t], x)  n == IF allocated[t] = 0 THEN InitialSlots ELSE allocated[t]
  <2>1. fast' = fast /\ cache' = [cache EXCEPT ![t] = s] /\ allocated' = [allocated EXCEPT ![t] = n]
    BY <1>6 DEF Save
  <2>2. /\ cache[t] \in Seq(SyncCacheItem') /\ Len(cache[t]) \in Nat
        /\ DOMAIN cache[t] = 1 .. Len(cache[t])
        /\ allocated[t] \in Nat /\ Len(cache[t]) <= allocated[t]
        /\ Len(cache[t]) < allocated[t] \/ allocated[t] = 0
    BY <1>3, Shape DEF TypeOK, CacheHasRoom, RoomInv, Searching
  <2> HIDE DEF x
  <2>3. /\ s \in Seq(SyncCacheItem') /\ Len(s) = Len(cache[t]) + 1
        /\ DOMAIN s = 1 .. Len(cache[t]) + 1
        /\ s[Len(cache[t]) + 1] = x
        /\ \A i \in DOMAIN cache[t] : s[i] = cache[t][i]
    BY <1>1, <2>2
  <2>4. n \in Nat /\ Len(s) <= n
    BY <2>2, <2>3, SlotsAssumption
  <2> HIDE DEF s, n
  <2>5. /\ cache'[t] = s /\ allocated'[t] = n
        /\ \A u \in Thread \ {t} : cache'[u] = cache[u] /\ allocated'[u] = allocated[u]
    BY <2>1 DEF TypeOK
  <2>6. \A u \in Thread \ {t} : Items(u)' = Items(u)
    BY <2>1, <2>5 DEF Items
  <2>7. {s[i] : i \in DOMAIN s} = {cache[t][i] : i \in DOMAIN cache[t]} \cup {x}
    <3>1. \A i \in DOMAIN s : i \in DOMAIN cache[t] \/ i = Len(cache[t]) + 1
      BY <2>2, <2>3
    <3>2. Len(cache[t]) + 1 \in DOMAIN s /\ DOMAIN cache[t] \subseteq DOMAIN s
      BY <2>2, <2>3
    <3> QED BY <2>3, <3>1, <3>2
  <2>8. Items(t)' = Items(t) \cup {x}
    BY <2>1, <2>5, <2>7 DEF Items
  <2>9. ApartInv'
    <3>1. /\ \A i \in DOMAIN cache[t] : cache[t][i].data # x.data
          /\ fast[t].data # x.data
      BY <1>6 DEF Items, x
    <3>2. \A i \in DOMAIN s : fast[t] # NoItem => s[i].data # fast[t].data
      BY <2>2, <2>3, <3>1 DEF ApartInv
    <3>3. ASSUME NEW i \in DOMAIN s, NEW j \in DOMAIN s, s[i].data = s[j].data
          PROVE  i = j
      <4>1. CASE i \in DOMAIN cache[t] /\ j \in DOMAIN cache[t]
        BY <2>3, <3>3, <4>1 DEF ApartInv
      <4>2. CASE i \notin DOMAIN cache[t] \/ j \notin DOMAIN cache[t]
        BY <2>2, <2>3, <3>1, <3>3, <4>2
      <4> QED BY <4>1, <4>2
    <3> QED BY <2>1, <2>5, <3>2, <3>3 DEF ApartInv
  <2>10. CacheHasRoom'
    BY <2>4, <2>5 DEF TypeOK, CacheHasRoom
  <2>11. RoomInv'
    BY <1>4, <2>5 DEF TypeOK, RoomInv, Searching
  <2>12. cache' \in [Thread -> Seq(SyncCacheItem')] /\ allocated' \in [Thread -> Nat]
    BY <1>3, <2>1, <2>3, <2>4 DEF TypeOK
  <2> QED BY <1>3, <1>4, <2>6, <2>8, <2>9, <2>10, <2>11, <2>12 DEF CachesFit, Saved, x
<1> QED BY <1>5, <1>6

\* What a step leaves of the list: every SyncData, its object and its mutex.
LocksKept ==
  /\ DOMAIN list' = DOMAIN list
  /\ \A d \in DOMAIN list : /\ list'[d].object = list[d].object
                            /\ list'[d].owner = list[d].owner
                            /\ list'[d].depth = list[d].depth

\* A sequence with an element replaced is a sequence.
LEMMA ReplaceEffect ==
  ASSUME NEW S, NEW s \in Seq(S), NEW i \in DOMAIN s, NEW r \in S
  PROVE  [s EXCEPT ![i] = r] \in Seq(S)
OBVIOUS

\* A change of one threadCount leaves the objects and the mutexes.
LEMMA CountEffect ==
  ASSUME TypeOK, NEW d \in DOMAIN list, NEW n \in Int,
         list' = [list EXCEPT ![d].threadCount = n]
  PROVE  /\ LocksKept
         /\ \A e \in DOMAIN list :
              list'[e].threadCount = IF e = d THEN n ELSE list[e].threadCount
         /\ n \in Nat => list' \in Seq(SyncData)
<1> DEFINE r == [list[d] EXCEPT !.threadCount = n]
<1>1. list[d] \in SyncData
  BY DEF TypeOK
<1>2. /\ r.object = list[d].object /\ r.owner = list[d].owner /\ r.depth = list[d].depth
      /\ r.threadCount = n /\ (n \in Nat => r \in SyncData)
  BY <1>1 DEF SyncData
<1>3. list' = [list EXCEPT ![d] = r]
  OBVIOUS
<1> HIDE DEF r
<1>4. /\ DOMAIN list' = DOMAIN list
      /\ \A e \in DOMAIN list : list'[e] = IF e = d THEN r ELSE list[e]
  BY <1>3 DEF TypeOK
<1>5. ASSUME n \in Nat PROVE list' \in Seq(SyncData)
  <2>1. r \in SyncData /\ list \in Seq(SyncData)
    BY <1>2, <1>5 DEF TypeOK
  <2> QED BY <1>3, <2>1
<1> QED BY <1>2, <1>4, <1>5 DEF LocksKept

\* The SyncData reused changes its object and keeps its mutex.
LEMMA ReuseEffect ==
  ASSUME TypeOK, NEW t \in Thread, unused[t] # NULL, list' = Reuse(t)
  PROVE  /\ DOMAIN list' = DOMAIN list /\ unused[t] \in DOMAIN list
         /\ list' \in Seq(SyncData)
         /\ \A d \in DOMAIN list \ {unused[t]} : list'[d] = list[d]
         /\ LET d == unused[t] IN
              /\ list'[d].object = object[t] /\ list'[d].threadCount = 1
              /\ list'[d].owner = list[d].owner /\ list'[d].depth = list[d].depth
<1> DEFINE d == unused[t]
           r == [list[d] EXCEPT !.object = object[t], !.threadCount = 1]
<1>1. d \in DOMAIN list /\ list[d] \in SyncData /\ object[t] \in Object
  BY DEF TypeOK
<1>2. /\ r.object = object[t] /\ r.owner = list[d].owner /\ r.depth = list[d].depth
      /\ r.threadCount = 1 /\ r \in SyncData
  BY <1>1 DEF SyncData
<1>3. list' = [list EXCEPT ![d] = r]
  BY <1>1 DEF Reuse, TypeOK
<1> HIDE DEF r
<1> QED BY <1>1, <1>2, <1>3 DEF TypeOK

\* A new SyncData is counted once, and its mutex is free.
LEMMA AppendEffect ==
  ASSUME TypeOK, NEW t \in Thread, list' = Append(list, NewSyncData(object[t]))
  PROVE  /\ Len(list) \in Nat /\ DOMAIN list' = DOMAIN list \cup {Len(list) + 1}
         /\ Len(list) + 1 \notin DOMAIN list
         /\ list' \in Seq(SyncData)
         /\ \A d \in DOMAIN list : list'[d] = list[d]
         /\ LET d == Len(list) + 1 IN
              /\ list'[d].object = object[t] /\ list'[d].threadCount = 1
              /\ list'[d].owner = Nobody /\ list'[d].depth = 0
<1> DEFINE r == NewSyncData(object[t])
<1>1. /\ r \in SyncData
      /\ r.object = object[t] /\ r.threadCount = 1 /\ r.owner = Nobody /\ r.depth = 0
  BY DEF NewSyncData, SyncData, TypeOK
<1> HIDE DEF r
<1>2. list \in Seq(SyncData) /\ list' = Append(list, r)
  BY DEF TypeOK, r
<1>3. /\ Len(list) \in Nat /\ DOMAIN list = 1 .. Len(list)
      /\ list' \in Seq(SyncData) /\ DOMAIN list' = 1 .. Len(list) + 1
      /\ list'[Len(list) + 1] = r
      /\ \A d \in DOMAIN list : list'[d] = list[d]
  BY <1>1, <1>2
<1> QED BY <1>1, <1>3

\* The list in which the mutex of SyncData d has owner o and depth n.
WithMutex(d, o, n) == [list EXCEPT ![d].owner = o, ![d].depth = n]

\* A change of one mutex leaves the objects and the counts.
LEMMA MutexEffect ==
  ASSUME TypeOK, NEW d \in DOMAIN list, NEW o \in Thread \cup {Nobody}, NEW n \in Int,
         list' = WithMutex(d, o, n)
  PROVE  /\ DOMAIN list' = DOMAIN list
         /\ n \in Nat => list' \in Seq(SyncData)
         /\ \A e \in DOMAIN list \ {d} : list'[e] = list[e]
         /\ list'[d].object = list[d].object /\ list'[d].threadCount = list[d].threadCount
         /\ list'[d].owner = o /\ list'[d].depth = n
<1> DEFINE r == [list[d] EXCEPT !.owner = o, !.depth = n]
<1>1. list[d] \in SyncData
  BY DEF TypeOK
<1>2. /\ r.object = list[d].object /\ r.owner = o /\ r.depth = n
      /\ r.threadCount = list[d].threadCount /\ (n \in Nat => r \in SyncData)
  BY <1>1 DEF SyncData
<1>3. list' = [list EXCEPT ![d] = r]
  BY DEF TypeOK, WithMutex
<1> HIDE DEF r
<1>4. ASSUME n \in Nat PROVE list' \in Seq(SyncData)
  <2>1. r \in SyncData /\ list \in Seq(SyncData)
    BY <1>2, <1>4 DEF TypeOK
  <2> QED BY ONLY <1>3, <2>1, d \in DOMAIN list, ReplaceEffect
<1>5. list'[d] = r /\ DOMAIN list' = DOMAIN list /\ \A e \in DOMAIN list \ {d} : list'[e] = list[e]
  BY <1>3 DEF TypeOK
<1> QED BY <1>2, <1>4, <1>5

CachesSame == \A u \in Thread : Items(u)' = Items(u)

Finish(t) == pc' = [pc EXCEPT ![t] = "idle"]

\* The search of an enter ends with SyncData d: its own, an unused one or a new one.
EndsWith(t, d) ==
  /\ pc[t] = "walk" /\ call[t] # "exit"
  /\ spinlock' = Nobody /\ UNCHANGED <<call, object, p, unused, inside>>
  /\ list' \in Seq(SyncData) /\ DOMAIN list' = DOMAIN list \cup {d}
  /\ list'[d].object = object[t]
  /\ \A e \in DOMAIN list \ {d} : list'[e] = list[e] /\ list[e].object # object[t]
  /\ d \in DOMAIN list =>
       /\ list'[d].owner = list[d].owner /\ list'[d].depth = list[d].depth
       /\ list'[d].threadCount = list[d].threadCount + 1
       /\ list[d].object = object[t] \/ list[d].threadCount = 0
  /\ d \notin DOMAIN list =>
       list'[d].owner = Nobody /\ list'[d].depth = 0 /\ list'[d].threadCount = 1
  /\ d # NULL /\ \A x \in Items(t) : x.data # d
  /\ CachesFit(SyncCacheItem') /\ Saved(t, d)

\* The search of an exit ends.
GivesUp(t) ==
  /\ pc[t] = "walk" /\ call[t] = "exit" /\ Finish(t)
  /\ spinlock' = Nobody /\ UNCHANGED <<caches, call, object, p, unused, data, inside>>
  /\ list' \in Seq(SyncData) /\ LocksKept
  /\ \A d \in DOMAIN list : list'[d].threadCount >= list[d].threadCount

MutexStep(t) ==
  /\ UNCHANGED <<spinlock, caches, call, object, p, unused, data>>
  /\ Finish(t)

Locks(t) ==
  /\ pc[t] \in {"lock", "trylock"} /\ Free(t) /\ Acquire(t) /\ MutexStep(t)

Unlocks(t) ==
  /\ pc[t] = "unlock" /\ list[data[t]].owner = t /\ MutexTryUnlock(t) /\ MutexStep(t)

\* A try enter finds the mutex locked, or an exit finds that it is not the thread's.
Fails(t) ==
  /\ pc[t] = "trylock" \/ (pc[t] = "unlock" /\ list[data[t]].owner # t)
  /\ UNCHANGED <<list, inside>> /\ MutexStep(t)

\* The items of a thread have a SyncData each, and keep it from being reused.
LEMMA UsersFinite ==
  ASSUME NEW d PROVE IsFiniteSet(Users(d)) /\ Cardinality(Users(d)) \in Nat
<1>1. Users(d) \subseteq Thread
  BY DEF Users
<1> QED BY <1>1, ThreadAssumption, FS_Subset, FS_CardinalityType

\* The SyncData of an item is in use.
LEMMA ItemKeeps ==
  ASSUME TypeOK, CountInv, NEW t \in Thread, NEW x \in Items(t)
  PROVE  x.data \in DOMAIN list /\ x.data # NULL /\ list[x.data].threadCount > 0
<1>1. x.data \in DOMAIN list
  BY Shape DEF SyncCacheItem
<1>2. t \in Users(x.data)
  BY DEF Users
<1>3. Cardinality(Users(x.data)) > 0
  BY <1>2, UsersFinite, FS_EmptySet
<1> QED BY <1>1, <1>3, UsersFinite, Shape DEF CountInv, NULL

\* A thread has one item of a SyncData.
LEMMA OneItem ==
  ASSUME ApartInv, NEW t \in Thread, NEW x \in Items(t), NEW y \in Items(t), x.data = y.data
  PROVE  x = y
BY DEF ApartInv, Items

\* The walk ends at the SyncData of its object.
LEMMA FoundEffect ==
  ASSUME IInv, NEW t \in Thread, Found(t)
  PROVE  GivesUp(t) \/ \E d : EndsWith(t, d)
<1> DEFINE d == p[t]
<1>1. /\ d \in DOMAIN list /\ d # NULL /\ pc[t] = "walk" /\ list[d].object = object[t]
      /\ spinlock' = Nobody /\ UNCHANGED <<call, object, p, unused, inside>>
      /\ TypeOK /\ RoomInv /\ ApartInv
  BY DEF Found, IInv, TypeOK
<1>2. list[d].threadCount + 1 \in Nat /\ list' = [list EXCEPT ![d].threadCount = list[d].threadCount + 1]
  BY <1>1, Shape DEF Found
<1>3. /\ LocksKept /\ list' \in Seq(SyncData)
      /\ \A e \in DOMAIN list :
           list'[e].threadCount = IF e = d THEN list[d].threadCount + 1 ELSE list[e].threadCount
  <2> DEFINE n == list[d].threadCount + 1
  <2>1. n \in Nat /\ n \in Int /\ list' = [list EXCEPT ![d].threadCount = n] /\ d \in DOMAIN list
    BY <1>1, <1>2
  <2> HIDE DEF n, d
  <2>2. /\ LocksKept /\ list' \in Seq(SyncData)
        /\ \A e \in DOMAIN list :
             list'[e].threadCount = IF e = d THEN n ELSE list[e].threadCount
    BY <1>1, <2>1, CountEffect
  <2> QED BY <2>2 DEF n
<1>4. CASE call[t] = "exit"
  <2>1. \A e \in DOMAIN list : list'[e].threadCount >= list[e].threadCount
    BY <1>1, <1>3, Shape
  <2>2. UNCHANGED <<caches, data>> /\ Finish(t)
    BY <1>4 DEF Found, NotOwning, Goto, Finish
  <2> QED BY <1>1, <1>3, <1>4, <2>1, <2>2 DEF GivesUp
<1>5. CASE call[t] # "exit"
  <2>1. \A x \in Items(t) : x.data # d
    BY <1>1 DEF IInv, CallInv, CallOf, Searching, For
  <2>2. CachesFit(SyncCacheItem') /\ Saved(t, d)
    BY <1>1, <1>3, <1>5, <2>1, SaveEffect DEF Found, LocksKept
  <2>3. \A e \in DOMAIN list \ {d} : list'[e] = list[e] /\ list[e].object # object[t]
    BY <1>1, <1>2 DEF IInv, OneLockPerObject, TypeOK
  <2>4. EndsWith(t, d)
    BY <1>1, <1>3, <1>5, <2>1, <2>2, <2>3 DEF EndsWith, LocksKept
  <2> QED BY <2>4
<1> QED BY <1>4, <1>5

\* The walk ends at the end of the list, with a SyncData reused or new.
LEMMA NotFoundEffect ==
  ASSUME IInv, NEW t \in Thread, NotFound(t)
  PROVE  GivesUp(t) \/ \E d : EndsWith(t, d)
<1>1. /\ pc[t] = "walk" /\ p[t] = NULL
      /\ spinlock' = Nobody /\ UNCHANGED <<call, object, p, unused, inside>>
      /\ TypeOK /\ RoomInv /\ ApartInv /\ CountInv
  BY DEF NotFound, IInv
<1>2. \A e \in DOMAIN list : list[e].object # object[t]
  BY <1>1, Shape DEF IInv, WalkInv, NULL
<1>3. CASE call[t] = "exit"
  <2>1. UNCHANGED <<list, caches, data>> /\ Finish(t)
    BY <1>3 DEF NotFound, NotOwning, Goto, Finish
  <2>2. LocksKept /\ \A d \in DOMAIN list : list'[d].threadCount >= list[d].threadCount
    BY <1>1, <2>1, Shape DEF LocksKept
  <2> QED BY <1>1, <1>3, <2>1, <2>2 DEF GivesUp, TypeOK
<1>4. CASE call[t] # "exit" /\ unused[t] # NULL
  <2> DEFINE d == unused[t]
  <2>1. list' = Reuse(t) /\ Save(t, d)
    BY <1>4 DEF NotFound
  <2>2. d \in DOMAIN list /\ list[d].threadCount = 0
    BY <1>1, <1>4 DEF IInv, WalkInv, TypeOK
  <2>3. \A x \in Items(t) : x.data # d
    BY <1>1, <2>2, ItemKeeps
  <2>4. /\ DOMAIN list' = DOMAIN list /\ list' \in Seq(SyncData)
        /\ \A e \in DOMAIN list \ {d} : list'[e] = list[e]
        /\ list'[d].object = object[t] /\ list'[d].threadCount = 1
        /\ list'[d].owner = list[d].owner /\ list'[d].depth = list[d].depth
    BY <1>1, <1>4, <2>1, ReuseEffect
  <2>5. CachesFit(SyncCacheItem') /\ Saved(t, d)
    BY <1>1, <1>4, <2>1, <2>2, <2>3, <2>4, SaveEffect
  <2>6. d # NULL
    BY <1>4
  <2> HIDE DEF d
  <2>7. DOMAIN list' = DOMAIN list \cup {d}
    BY <2>2, <2>4
  <2>8. list'[d].threadCount = list[d].threadCount + 1
    BY <2>2, <2>4
  <2>9. EndsWith(t, d)
    <3>1. \A e \in DOMAIN list \ {d} : list'[e] = list[e] /\ list[e].object # object[t]
      BY <1>2, <2>4
    <3>2. d \in DOMAIN list =>
            /\ list'[d].owner = list[d].owner /\ list'[d].depth = list[d].depth
            /\ list'[d].threadCount = list[d].threadCount + 1
            /\ list[d].object = object[t] \/ list[d].threadCount = 0
      BY <2>2, <2>4, <2>8
    <3> QED BY <1>1, <1>4, <2>2, <2>3, <2>4, <2>5, <2>6, <2>7, <3>1, <3>2 DEF EndsWith
  <2> QED BY <2>9
<1>5. CASE call[t] # "exit" /\ unused[t] = NULL
  <2> DEFINE d == Len(list) + 1
  <2>1. list' = Append(list, NewSyncData(object[t])) /\ Save(t, d)
    BY <1>5 DEF NotFound
  <2>2. /\ Len(list) \in Nat /\ DOMAIN list' = DOMAIN list \cup {d} /\ d \notin DOMAIN list
        /\ list' \in Seq(SyncData) /\ \A e \in DOMAIN list : list'[e] = list[e]
        /\ list'[d].object = object[t] /\ list'[d].threadCount = 1
        /\ list'[d].owner = Nobody /\ list'[d].depth = 0
    BY <1>1, <2>1, AppendEffect
  <2>3. d # NULL /\ \A x \in Items(t) : x.data # d
    BY <1>1, <2>2, ItemKeeps DEF NULL
  <2> HIDE DEF d
  <2>4. CachesFit(SyncCacheItem') /\ Saved(t, d)
    BY <1>1, <2>1, <2>2, <2>3, SaveEffect
  <2>5. EndsWith(t, d)
    BY <1>1, <1>2, <1>5, <2>2, <2>3, <2>4 DEF EndsWith
  <2> QED BY <2>5
<1> QED BY <1>3, <1>4, <1>5

\* Every step is one of these.
StepOf(t) ==
  \/ \E o \in Object, c \in {"enter", "try_enter", "exit"} :
       CachesFit(SyncCacheItem) /\ Calls(t, o, c)
  \/ ThreadExit(t) \/ TakeSpinlock(t) \/ Walk(t)
  \/ GivesUp(t) \/ (\E d : EndsWith(t, d))
  \/ Locks(t) \/ Unlocks(t) \/ Fails(t)

\* Every step of Next has one of the effects of StepOf.
LEMMA StepEffects ==
  ASSUME IInv, Next PROVE \E t \in Thread : StepOf(t)
<1> PICK t \in Thread :
      \/ \E o \in Object : Enter(t, o) \/ TryEnter(t, o) \/ Exit(t, o) \/ WrongExit(t, o)
      \/ ThreadExit(t) \/ Run(t)
  BY DEF Next
<1>1. ASSUME NEW o \in Object, Enter(t, o) \/ TryEnter(t, o) \/ Exit(t, o) \/ WrongExit(t, o)
      PROVE  \E c \in {"enter", "try_enter", "exit"} : CachesFit(SyncCacheItem) /\ Calls(t, o, c)
  <2>1. pc[t] = "idle" /\ \E c \in {"enter", "try_enter", "exit"} : Begin(t, o, c)
    BY <1>1 DEF Enter, TryEnter, Exit, WrongExit
  <2> QED BY <2>1, BeginEffect DEF IInv
<1>2. CASE Found(t) \/ NotFound(t)
  BY <1>2, FoundEffect, NotFoundEffect DEF StepOf
<1>3. CASE MutexLock(t)
  BY <1>3 DEF MutexLock, Locks, MutexStep, Finish, Goto, StepOf
<1>4. CASE MutexTryLock(t)
  <2>1. CASE Free(t)
    BY <1>4, <2>1 DEF MutexTryLock, Locks, MutexStep, Finish, Goto, StepOf
  <2>2. CASE ~Free(t)
    BY <1>4, <2>2 DEF MutexTryLock, Fails, MutexStep, Finish, Goto, StepOf
  <2> QED BY <2>1, <2>2
<1>5. CASE MutexTryUnlock(t)
  <2>1. CASE list[data[t]].owner = t
    BY <1>5, <2>1 DEF MutexTryUnlock, Unlocks, MutexStep, Finish, Goto, StepOf
  <2>2. CASE list[data[t]].owner # t
    BY <1>5, <2>2 DEF MutexTryUnlock, Fails, MutexStep, Finish, Goto, StepOf
  <2> QED BY <2>1, <2>2
<1> QED BY <1>1, <1>2, <1>3, <1>4, <1>5 DEF Run, StepOf

\* A call that begins leaves the locks alone; it may take 1 from one threadCount.
LEMMA CallsList ==
  ASSUME IInv, NEW t \in Thread, NEW o \in Object, NEW c \in {"enter", "try_enter", "exit"},
         Calls(t, o, c)
  PROVE  /\ LocksKept /\ list' \in Seq(SyncData)
         /\ \/ list' = list /\ \A x \in Items(t) : ~For(x, o)
            \/ \E x \in Items(t) :
                 /\ Used(t, o, c, x)
                 /\ list[x.data].threadCount \in Nat \ {0}
                 /\ \A d \in DOMAIN list : list'[d].threadCount =
                      IF After(x, c) = 0 /\ d = x.data THEN list[d].threadCount - 1
                      ELSE list[d].threadCount
<1>1. TypeOK /\ CountInv
  BY DEF IInv
<1>2. CASE Missed(t, o)
  BY <1>1, <1>2 DEF Missed, LocksKept, TypeOK
<1>3. ASSUME NEW x \in Items(t), Used(t, o, c, x)
      PROVE  /\ LocksKept /\ list' \in Seq(SyncData)
             /\ list[x.data].threadCount \in Nat \ {0}
             /\ \A d \in DOMAIN list : list'[d].threadCount =
                  IF After(x, c) = 0 /\ d = x.data THEN list[d].threadCount - 1
                  ELSE list[d].threadCount
  <2>1. x.data \in DOMAIN list /\ list[x.data].threadCount \in Nat \ {0}
    BY <1>1, ItemKeeps, Shape
  <2>2. CASE After(x, c) # 0
    BY <1>1, <1>3, <2>1, <2>2 DEF Used, LocksKept, TypeOK
  <2>3. CASE After(x, c) = 0
    <3> DEFINE n == list[x.data].threadCount - 1  d0 == x.data
    <3>1. n \in Nat /\ n \in Int /\ list' = [list EXCEPT ![d0].threadCount = n] /\ d0 \in DOMAIN list
      BY <1>3, <2>1, <2>3 DEF Used
    <3> HIDE DEF n, d0
    <3>2. /\ LocksKept /\ list' \in Seq(SyncData)
          /\ \A d \in DOMAIN list : list'[d].threadCount = IF d = d0 THEN n ELSE list[d].threadCount
      BY <1>1, <3>1, CountEffect
    <3> QED BY <2>1, <2>3, <3>2 DEF n, d0
  <2> QED BY <2>1, <2>2, <2>3
<1> QED BY <1>2, <1>3 DEF Calls


\* A change of the enters of one thread and object leaves the others.
LEMMA InsideEffect ==
  ASSUME TypeOK, NEW t \in Thread, NEW o \in Object, NEW n \in Nat,
         inside' = [inside EXCEPT ![t][o] = n]
  PROVE  /\ inside' \in [Thread -> [Object -> Nat]]
         /\ inside'[t][o] = n
         /\ \A u \in Thread, q \in Object : u # t \/ q # o => inside'[u][q] = inside[u][q]
BY DEF TypeOK

\* The mutex is acquired once more, by a thread that has an item for it.
LEMMA LocksEffect ==
  ASSUME IInv, NEW t \in Thread, Locks(t)
  PROVE  LET d == data[t] IN
         /\ d \in DOMAIN list /\ DOMAIN list' = DOMAIN list /\ list' \in Seq(SyncData)
         /\ \A e \in DOMAIN list \ {d} : list'[e] = list[e]
         /\ list'[d].object = list[d].object /\ list'[d].threadCount = list[d].threadCount
         /\ list[d].owner \in {Nobody, t} /\ list[d].object = object[t]
         /\ list'[d].owner = t /\ list'[d].depth = list[d].depth + 1
         /\ inside' \in [Thread -> [Object -> Nat]]
         /\ inside'[t][object[t]] = inside[t][object[t]] + 1
         /\ \A u \in Thread, o \in Object :
              u # t \/ o # object[t] => inside'[u][o] = inside[u][o]
         /\ CachesSame
         /\ \E x \in Items(t) : x.data = d /\ x.lockCount > inside[t][object[t]]
<1> DEFINE d == data[t]  n == list[d].depth + 1
<1>1. TypeOK
  BY DEF IInv
<1>2. PICK x \in Items(t) : x.data = d /\ For(x, object[t]) /\ x.lockCount > inside[t][object[t]]
  BY DEF IInv, CallInv, CallOf, Locks
<1>3. d \in DOMAIN list
  BY <1>1, <1>2, Shape DEF SyncCacheItem
<1>4. n \in Nat /\ n \in Int /\ t \in Thread \cup {Nobody}
  BY <1>1, <1>3, Shape
<1>5. list' = WithMutex(d, t, n)
  BY <1>1, <1>3 DEF Locks, Acquire, TypeOK, SyncData, WithMutex
<1>a. object[t] \in Object /\ inside[t][object[t]] \in Nat
  BY <1>1 DEF TypeOK
<1>b. /\ inside' \in [Thread -> [Object -> Nat]]
      /\ inside'[t][object[t]] = inside[t][object[t]] + 1
      /\ \A u \in Thread, o \in Object :
           u # t \/ o # object[t] => inside'[u][o] = inside[u][o]
  <2> DEFINE k == inside[t][object[t]] + 1  q == object[t]
  <2>1. k \in Nat /\ q \in Object /\ inside' = [inside EXCEPT ![t][q] = k]
    BY <1>1, <1>a DEF Locks, Acquire, TypeOK
  <2> HIDE DEF k, q
  <2>2. /\ inside' \in [Thread -> [Object -> Nat]] /\ inside'[t][q] = k
        /\ \A u \in Thread, o \in Object : u # t \/ o # q => inside'[u][o] = inside[u][o]
    BY <1>1, <2>1, InsideEffect, ZenonT(30)
  <2> QED BY <2>2 DEF k, q
<1>6. list[d].owner \in {Nobody, t}
  BY DEF Locks, Free
<1>c. CachesSame
  BY DEF Locks, MutexStep, CachesSame, Items, caches
<1> HIDE DEF d, n
<1>7. /\ DOMAIN list' = DOMAIN list
      /\ n \in Nat => list' \in Seq(SyncData)
      /\ \A e \in DOMAIN list \ {d} : list'[e] = list[e]
      /\ list'[d].object = list[d].object /\ list'[d].threadCount = list[d].threadCount
      /\ list'[d].owner = t /\ list'[d].depth = n
  BY <1>1, <1>3, <1>4, <1>5, MutexEffect
<1> QED BY <1>2, <1>3, <1>4, <1>b, <1>6, <1>c, <1>7 DEF d, n, For

\* The mutex is released once by its owner.
LEMMA UnlocksEffect ==
  ASSUME IInv, NEW t \in Thread, Unlocks(t)
  PROVE  LET d == data[t] IN
         /\ d \in DOMAIN list /\ DOMAIN list' = DOMAIN list /\ list' \in Seq(SyncData)
         /\ \A e \in DOMAIN list \ {d} : list'[e] = list[e]
         /\ list'[d].object = list[d].object /\ list'[d].threadCount = list[d].threadCount
         /\ list[d].depth \in Nat \ {0} /\ list[d].depth = inside[t][object[t]]
         /\ list'[d].owner = (IF list[d].depth = 1 THEN Nobody ELSE t)
         /\ list'[d].depth = list[d].depth - 1
         /\ inside' \in [Thread -> [Object -> Nat]]
         /\ inside'[t][object[t]] = inside[t][object[t]] - 1
         /\ \A u \in Thread, o \in Object :
              u # t \/ o # object[t] => inside'[u][o] = inside[u][o]
         /\ CachesSame
<1> DEFINE d == data[t]  n == list[d].depth - 1  w == IF list[d].depth = 1 THEN Nobody ELSE t
<1>1. TypeOK
  BY DEF IInv
<1>2. d \in DOMAIN list
  BY <1>1 DEF IInv, CallInv, CallOf, Unlocks, TypeOK
<1>3. list[d].depth \in Nat \ {0} /\ list[d].depth = inside[t][object[t]]
  BY <1>1, <1>2, Shape DEF IInv, OwnerInv, Unlocks, Claim
<1>4. list' = WithMutex(d, w, n)
  BY <1>2, <1>3 DEF Unlocks, MutexTryUnlock, TypeOK, WithMutex
<1>5. n \in Nat /\ n \in Int /\ w \in Thread \cup {Nobody}
  BY <1>3
<1>a. object[t] \in Object /\ inside[t][object[t]] \in Nat \ {0}
  BY <1>1, <1>3 DEF TypeOK
<1>6. /\ inside' \in [Thread -> [Object -> Nat]]
      /\ inside'[t][object[t]] = inside[t][object[t]] - 1
      /\ \A u \in Thread, o \in Object :
           u # t \/ o # object[t] => inside'[u][o] = inside[u][o]
  <2> DEFINE k == inside[t][object[t]] - 1  q == object[t]
  <2>1. k \in Nat /\ q \in Object /\ inside' = [inside EXCEPT ![t][q] = k]
    BY <1>1, <1>a DEF Unlocks, MutexTryUnlock, TypeOK
  <2> HIDE DEF k, q
  <2>2. /\ inside' \in [Thread -> [Object -> Nat]] /\ inside'[t][q] = k
        /\ \A u \in Thread, o \in Object : u # t \/ o # q => inside'[u][o] = inside[u][o]
    BY <1>1, <2>1, InsideEffect, ZenonT(30)
  <2> QED BY <2>2 DEF k, q
<1>c. CachesSame
  BY DEF Unlocks, MutexStep, CachesSame, Items, caches
<1> HIDE DEF d, n, w
<1>7. /\ DOMAIN list' = DOMAIN list
      /\ n \in Nat => list' \in Seq(SyncData)
      /\ \A e \in DOMAIN list \ {d} : list'[e] = list[e]
      /\ list'[d].object = list[d].object /\ list'[d].threadCount = list[d].threadCount
      /\ list'[d].owner = w /\ list'[d].depth = n
  BY <1>1, <1>2, <1>4, <1>5, MutexEffect
<1> QED BY <1>2, <1>3, <1>5, <1>6, <1>c, <1>7 DEF d, n, w

\* The list after any step.
LEMMA ListStep ==
  ASSUME IInv, NEW t \in Thread, StepOf(t)
  PROVE  list' \in Seq(SyncData) /\ DOMAIN list \subseteq DOMAIN list'
<1>1. TypeOK
  BY DEF IInv
<1>2. CASE \E o \in Object, c \in {"enter", "try_enter", "exit"} : Calls(t, o, c)
  BY <1>2, CallsList DEF LocksKept
<1>3. CASE ThreadExit(t) \/ TakeSpinlock(t) \/ Walk(t) \/ Fails(t)
  BY <1>1, <1>3 DEF ThreadExit, TakeSpinlock, Walk, Fails, TypeOK
<1>4. CASE GivesUp(t) \/ \E d : EndsWith(t, d)
  BY <1>4 DEF GivesUp, EndsWith, LocksKept
<1>5. CASE Locks(t) \/ Unlocks(t)
  BY <1>5, LocksEffect, UnlocksEffect
<1> QED BY <1>2, <1>3, <1>4, <1>5 DEF StepOf

\* Every step leaves the types.  The object of an item never changes.
LEMMA TypeStep ==
  ASSUME IInv, NEW t \in Thread, StepOf(t)
  PROVE  TypeOK' /\ RoomInv' /\ ApartInv'
<1>1. TypeOK /\ RoomInv /\ ApartInv
  BY DEF IInv
<1>2. list' \in Seq(SyncData) /\ DOMAIN list \subseteq DOMAIN list'
  BY ListStep
<1>3. DOMAIN list' = DOMAIN list => SyncCacheItem' = SyncCacheItem
  BY DEF SyncCacheItem
<1>4. /\ p \in [Thread -> {NULL} \cup DOMAIN list']
      /\ unused \in [Thread -> {NULL} \cup DOMAIN list']
      /\ data \in [Thread -> {NULL} \cup DOMAIN list']
  BY <1>1, <1>2 DEF TypeOK
<1>5. ASSUME NEW o \in Object, NEW c \in {"enter", "try_enter", "exit"},
             CachesFit(SyncCacheItem), Calls(t, o, c)
      PROVE  TypeOK' /\ RoomInv' /\ ApartInv'
  <2>1. DOMAIN list' = DOMAIN list
    BY <1>5, CallsList DEF LocksKept
  <2>2. \A x \in Items(t) : x.data \in DOMAIN list
    BY <1>1, Shape DEF SyncCacheItem
  <2>3. pc' \in [Thread -> {"idle", "spin", "walk", "lock", "trylock", "unlock"}]
    BY <1>1, <1>5 DEF Calls, Used, Missed, TypeOK
  <2>4. data' \in [Thread -> {NULL} \cup DOMAIN list']
    BY <1>4, <1>5, <2>1, <2>2 DEF Calls, Used, Missed
  <2>5. /\ call' \in [Thread -> {"enter", "try_enter", "exit"}]
        /\ object' \in [Thread -> Object]
    BY <1>1, <1>5 DEF Calls, TypeOK
  <2> QED BY <1>1, <1>2, <1>3, <1>4, <1>5, <2>1, <2>3, <2>4, <2>5 DEF Calls, CachesFit, TypeOK
<1>6. CASE ThreadExit(t)
  <2>1. /\ fast' \in [Thread -> SyncCacheItem \cup {NoItem}]
        /\ cache' \in [Thread -> Seq(SyncCacheItem)] /\ allocated' \in [Thread -> Nat]
    BY <1>1, <1>6 DEF ThreadExit, TypeOK
  <2>2. CacheHasRoom' /\ RoomInv' /\ ApartInv'
    BY <1>1, <1>6 DEF ThreadExit, TypeOK, CacheHasRoom, RoomInv, ApartInv, Searching, local
  <2> QED BY <1>1, <1>3, <1>6, <2>1, <2>2 DEF ThreadExit, TypeOK, local
<1>7. CASE TakeSpinlock(t) \/ Walk(t)
  <2>1. /\ RoomInv' /\ ApartInv' /\ CacheHasRoom'
    BY <1>1, <1>7 DEF TakeSpinlock, Walk, RoomInv, ApartInv, CacheHasRoom, Searching, Goto, caches, TypeOK
  <2>2. p[t] # NULL => p[t] - 1 \in {NULL} \cup DOMAIN list
    BY <1>1, Shape DEF TypeOK, NULL
  <2>3. Len(list) \in {NULL} \cup DOMAIN list
    BY <1>1, Shape DEF NULL
  <2>4. /\ p' \in [Thread -> {NULL} \cup DOMAIN list]
        /\ unused' \in [Thread -> {NULL} \cup DOMAIN list]
    <3>1. CASE TakeSpinlock(t)
      BY <1>1, <3>1, <2>3 DEF TakeSpinlock, TypeOK
    <3>2. CASE Walk(t)
      <4>1. p[t] # NULL
        BY <3>2 DEF Walk
      <4>2. p' \in [Thread -> {NULL} \cup DOMAIN list]
        BY <1>1, <3>2, <4>1, <2>2 DEF Walk, TypeOK
      <4>3. unused' \in [Thread -> {NULL} \cup DOMAIN list]
        BY <1>1, <3>2 DEF Walk, TypeOK
      <4> QED BY <4>2, <4>3
    <3> QED BY <1>7, <3>1, <3>2
  <2> QED BY <1>1, <1>3, <1>7, <2>1, <2>4 DEF TakeSpinlock, Walk, Goto, caches, TypeOK
<1>8. ASSUME NEW d, EndsWith(t, d)
      PROVE  TypeOK' /\ RoomInv' /\ ApartInv'
  <2>1. d \in DOMAIN list'
    BY <1>8 DEF EndsWith
  <2>2. data' \in [Thread -> {NULL} \cup DOMAIN list']
    BY <1>4, <1>8, <2>1 DEF EndsWith, Saved
  <2>3. pc' \in [Thread -> {"idle", "spin", "walk", "lock", "trylock", "unlock"}]
    BY <1>1, <1>8 DEF EndsWith, Saved, TypeOK
  <2> QED BY <1>1, <1>2, <1>4, <1>8, <2>2, <2>3 DEF EndsWith, CachesFit, TypeOK
<1>9. ASSUME UNCHANGED caches, Finish(t), DOMAIN list' = DOMAIN list,
             UNCHANGED <<call, object, p, unused, data>>, spinlock' \in Thread \cup {Nobody},
             inside' \in [Thread -> [Object -> Nat]]
      PROVE  TypeOK' /\ RoomInv' /\ ApartInv'
  <2>1. RoomInv' /\ ApartInv' /\ CacheHasRoom'
    BY <1>1, <1>9 DEF RoomInv, ApartInv, CacheHasRoom, Searching, Finish, caches, TypeOK
  <2>2. pc' \in [Thread -> {"idle", "spin", "walk", "lock", "trylock", "unlock"}]
    BY <1>1, <1>9 DEF Finish, TypeOK
  <2> QED BY <1>1, <1>2, <1>3, <1>4, <1>9, <2>1, <2>2 DEF TypeOK, caches
<1>10. CASE GivesUp(t)
  BY <1>1, <1>9, <1>10 DEF GivesUp, LocksKept, TypeOK
<1>11. CASE Fails(t)
  BY <1>1, <1>9, <1>11 DEF Fails, MutexStep, TypeOK
<1>12. CASE Locks(t)
  BY <1>1, <1>9, <1>12, LocksEffect DEF Locks, MutexStep, TypeOK
<1>13. CASE Unlocks(t)
  BY <1>1, <1>9, <1>13, UnlocksEffect DEF Unlocks, MutexStep, TypeOK
<1> QED BY <1>5, <1>6, <1>7, <1>8, <1>10, <1>11, <1>12, <1>13 DEF StepOf

\* The mutex steps and the steps of a search leave every item as it is.
LEMMA CachesSameStep ==
  ASSUME NEW t \in Thread,
         TakeSpinlock(t) \/ Walk(t) \/ GivesUp(t) \/ Locks(t) \/ Unlocks(t) \/ Fails(t)
  PROVE  CachesSame /\ \A d : Users(d)' = Users(d)
<1>1. UNCHANGED caches
  BY DEF TakeSpinlock, Walk, GivesUp, Locks, Unlocks, Fails, MutexStep
<1>2. CachesSame
  BY <1>1 DEF CachesSame, Items, caches
<1> QED BY <1>2 DEF CachesSame, Users

\* A thread that ends leaves no item.
LEMMA ThreadExitItems ==
  ASSUME TypeOK, NEW t \in Thread, ThreadExit(t)
  PROVE  Items(t)' = {} /\ \A u \in Thread \ {t} : Items(u)' = Items(u)
<1>1. fast'[t] = NoItem /\ cache'[t] = <<>>
      /\ \A u \in Thread \ {t} : fast'[u] = fast[u] /\ cache'[u] = cache[u]
  BY DEF ThreadExit, TypeOK
<1> QED BY <1>1 DEF Items

\* An item is never kept with no lock counted.
LEMMA LockedStep ==
  ASSUME IInv, NEW t \in Thread, StepOf(t) PROVE LockedInv'
<1>1. TypeOK /\ LockedInv
  BY DEF IInv
<1>2. ASSUME NEW o \in Object, NEW c \in {"enter", "try_enter", "exit"}, Calls(t, o, c)
      PROVE  LockedInv'
  <2>1. ASSUME NEW x \in Items(t), Used(t, o, c, x)
        PROVE  LockedInv'
    <3>1. x.lockCount \in Nat \ {0}
      BY <1>1, Shape DEF LockedInv, SyncCacheItem
    <3>2. After(x, c) # 0 => After(x, c) > 0
      BY <3>1 DEF After
    <3> QED BY <1>1, <1>2, <2>1, <3>2 DEF Used, Calls, LockedInv
  <2> QED BY <1>1, <1>2, <2>1 DEF Calls, Missed, LockedInv
<1>3. CASE ThreadExit(t)
  BY <1>1, <1>3, ThreadExitItems DEF LockedInv
<1>4. CASE \E d : EndsWith(t, d)
  BY <1>1, <1>4 DEF EndsWith, Saved, LockedInv
<1>5. CASE TakeSpinlock(t) \/ Walk(t) \/ GivesUp(t) \/ Locks(t) \/ Unlocks(t) \/ Fails(t)
  BY <1>1, <1>5, CachesSameStep DEF CachesSame, LockedInv
<1> QED BY <1>2, <1>3, <1>4, <1>5 DEF StepOf

\* threadCount counts at least the threads that have an item.
LEMMA CountStep ==
  ASSUME IInv, NEW t \in Thread, StepOf(t) PROVE CountInv'
<1>1. TypeOK /\ LockedInv /\ ApartInv /\ CountInv
  BY DEF IInv
<1>2. ASSUME NEW o \in Object, NEW c \in {"enter", "try_enter", "exit"}, Calls(t, o, c)
      PROVE  CountInv'
  <2>1. CASE list' = list /\ Missed(t, o)
    <3>1. \A d : Users(d)' = Users(d)
      BY <1>2, <2>1 DEF Calls, Missed, Users
    <3> QED BY <1>1, <2>1, <3>1 DEF CountInv
  <2>2. ASSUME NEW x \in Items(t), Used(t, o, c, x), LocksKept,
               \A d \in DOMAIN list : list'[d].threadCount =
                 IF After(x, c) = 0 /\ d = x.data THEN list[d].threadCount - 1
                 ELSE list[d].threadCount
        PROVE  CountInv'
    <3>1. \A d : d # x.data => Users(d)' = Users(d)
      BY <1>2, <2>2 DEF Calls, Used, Users
    <3>2. CASE After(x, c) # 0
      <4>1. Users(x.data)' = Users(x.data)
        <5> DEFINE y == [data |-> x.data, lockCount |-> After(x, c)]
        <5>1. y \in Items(t)' /\ y.data = x.data
          BY <2>2, <3>2 DEF Used
        <5> HIDE DEF y
        <5>2. t \in Users(x.data)' /\ t \in Users(x.data)
          BY <5>1 DEF Users
        <5>3. \A u \in Thread \ {t} : u \in Users(x.data)' <=> u \in Users(x.data)
          BY <1>2 DEF Calls, Users
        <5>4. Users(x.data) \subseteq Thread /\ Users(x.data)' \subseteq Thread
          BY DEF Users
        <5> QED BY <5>2, <5>3, <5>4
      <4> QED BY <1>1, <2>2, <3>1, <3>2, <4>1 DEF CountInv, LocksKept
    <3>3. CASE After(x, c) = 0
      <4>1. \A y \in Items(t)' : y.data # x.data
        BY <1>1, <2>2, <3>3, OneItem DEF Used
      <4>2. Users(x.data)' = Users(x.data) \ {t}
        BY <1>2, <4>1 DEF Calls, Users
      <4>3. t \in Users(x.data)
        BY DEF Users
      <4>4. Cardinality(Users(x.data)') = Cardinality(Users(x.data)) - 1
        BY <4>2, <4>3, UsersFinite, FS_RemoveElement
      <4>5. x.data \in DOMAIN list
        BY <1>1, ItemKeeps
      <4>6. \A d \in DOMAIN list : list[d].threadCount \in Nat /\ Cardinality(Users(d)) \in Nat
        BY <1>1, Shape, UsersFinite
      <4>7. ASSUME NEW d \in DOMAIN list PROVE list'[d].threadCount >= Cardinality(Users(d)')
        BY <1>1, <2>2, <3>1, <3>3, <4>4, <4>6 DEF CountInv
      <4> QED BY <2>2, <4>7 DEF CountInv, LocksKept
    <3> QED BY <3>2, <3>3
  <2>3. CASE \A x \in Items(t) : ~For(x, o)
    <3>1. Missed(t, o)
      BY <1>2, <2>3 DEF Calls, Used
    <3> QED BY <2>1, <3>1 DEF Missed
  <2>4. CASE ~ \A x \in Items(t) : ~For(x, o)
    <3>1. PICK x \in Items(t) :
            /\ Used(t, o, c, x) /\ LocksKept
            /\ \A d \in DOMAIN list : list'[d].threadCount =
                 IF After(x, c) = 0 /\ d = x.data THEN list[d].threadCount - 1
                 ELSE list[d].threadCount
      BY <1>2, <2>4, CallsList
    <3> QED BY <2>2, <3>1
  <2> QED BY <2>3, <2>4
<1>3. CASE ThreadExit(t)
  <2>1. ASSUME NEW d \in DOMAIN list PROVE Cardinality(Users(d)') <= Cardinality(Users(d))
    <3>1. Users(d)' \subseteq Users(d)
      BY <1>1, <1>3, ThreadExitItems DEF Users
    <3> QED BY <3>1, UsersFinite, FS_Subset
  <2>2. ASSUME NEW d \in DOMAIN list
        PROVE  Cardinality(Users(d)') \in Nat /\ Cardinality(Users(d)) \in Nat
    <3>1. Users(d)' \subseteq Thread
      BY DEF Users
    <3> QED BY <3>1, ThreadAssumption, UsersFinite, FS_Subset, FS_CardinalityType
  <2>3. list' = list
    BY <1>3 DEF ThreadExit
  <2> QED BY <1>1, <2>1, <2>2, <2>3, Shape DEF CountInv
<1>4. ASSUME NEW d0, EndsWith(t, d0)
      PROVE  CountInv'
  <2>1. \A d : d # d0 => Users(d)' = Users(d)
    BY <1>4 DEF EndsWith, Saved, Users
  <2>2. Users(d0)' = Users(d0) \cup {t} /\ t \notin Users(d0)
    <3> DEFINE x == [data |-> d0, lockCount |-> 1]
    <3>1. x \in Items(t)' /\ x.data = d0 /\ \A y \in Items(t) : y.data # d0
      BY <1>4 DEF EndsWith, Saved
    <3>2. \A u \in Thread \ {t} : Items(u)' = Items(u)
      BY <1>4 DEF EndsWith, Saved
    <3> HIDE DEF x
    <3>3. t \in Users(d0)' /\ t \notin Users(d0)
      BY <3>1 DEF Users
    <3>4. \A u \in Thread \ {t} : u \in Users(d0)' <=> u \in Users(d0)
      BY <3>2 DEF Users
    <3>5. Users(d0) \subseteq Thread /\ Users(d0)' \subseteq Thread
      BY DEF Users
    <3> QED BY <3>3, <3>4, <3>5
  <2>3. Cardinality(Users(d0)') = Cardinality(Users(d0)) + 1
    BY <2>2, UsersFinite, FS_AddElement
  <2>4. d0 \notin DOMAIN list => Cardinality(Users(d0)) = 0
    <3>1. d0 \notin DOMAIN list => Users(d0) = {}
      BY <1>1, ItemKeeps DEF Users
    <3> QED BY <3>1, FS_EmptySet
  <2>5. list'[d0].threadCount >= Cardinality(Users(d0)')
    <3>1. CASE d0 \in DOMAIN list
      <4>1. list'[d0].threadCount = list[d0].threadCount + 1
        BY <1>4, <3>1 DEF EndsWith
      <4>2. list[d0].threadCount >= Cardinality(Users(d0))
        BY <1>1, <3>1 DEF CountInv
      <4> QED BY <1>1, <2>3, <3>1, <4>1, <4>2, UsersFinite, Shape
    <3>2. CASE d0 \notin DOMAIN list
      BY <1>4, <2>3, <2>4, <3>2 DEF EndsWith
    <3> QED BY <3>1, <3>2
  <2>6. \A d \in DOMAIN list \ {d0} : list'[d].threadCount >= Cardinality(Users(d)')
    BY <1>1, <1>4, <2>1 DEF EndsWith, CountInv
  <2> QED BY <1>4, <2>5, <2>6 DEF EndsWith, CountInv
<1>5. CASE TakeSpinlock(t) \/ Walk(t) \/ Locks(t) \/ Unlocks(t) \/ Fails(t) \/ GivesUp(t)
  <2>1. DOMAIN list' = DOMAIN list /\ \A d \in DOMAIN list : list'[d].threadCount >= list[d].threadCount
    <3>1. CASE Locks(t)
      BY <1>1, <3>1, LocksEffect, Shape
    <3>2. CASE Unlocks(t)
      BY <1>1, <3>2, UnlocksEffect, Shape
    <3>3. CASE TakeSpinlock(t) \/ Walk(t) \/ Fails(t)
      BY <1>1, <3>3, Shape DEF TakeSpinlock, Walk, Fails
    <3>4. CASE GivesUp(t)
      BY <3>4 DEF GivesUp, LocksKept
    <3> QED BY <1>5, <3>1, <3>2, <3>3, <3>4
  <2>2. \A d : Users(d)' = Users(d)
    BY <1>5, CachesSameStep
  <2>3. list' \in Seq(SyncData)
    BY <1>5, ListStep
  <2>4. \A d \in DOMAIN list : list'[d].threadCount \in Nat
    <3>1. \A d \in DOMAIN list' : list'[d] \in SyncData
      BY <2>3
    <3> QED BY <2>1, <3>1 DEF SyncData
  <2>5. ASSUME NEW d \in DOMAIN list PROVE list'[d].threadCount >= Cardinality(Users(d))
    <3>1. list'[d].threadCount >= list[d].threadCount /\ list[d].threadCount >= Cardinality(Users(d))
      BY <1>1, <2>1 DEF CountInv
    <3>2. Cardinality(Users(d)) \in Nat /\ list[d].threadCount \in Nat /\ list'[d].threadCount \in Nat
      BY <1>1, <2>4, Shape, UsersFinite
    <3> QED BY <3>1, <3>2
  <2> QED BY <2>1, <2>2, <2>5 DEF CountInv
<1> QED BY <1>2, <1>3, <1>4, <1>5 DEF StepOf

\* No two SyncData have one object, and a mutex that is free is not locked.
LEMMA OneLockStep ==
  ASSUME IInv, NEW t \in Thread, StepOf(t) PROVE OneLockPerObject' /\ FreeInv'
<1>1. TypeOK /\ OneLockPerObject /\ FreeInv
  BY DEF IInv
<1>2. CASE LocksKept
  BY <1>1, <1>2 DEF LocksKept, OneLockPerObject, FreeInv
<1>3. CASE \E o \in Object, c \in {"enter", "try_enter", "exit"} : Calls(t, o, c)
  BY <1>2, <1>3, CallsList
<1>4. CASE ThreadExit(t) \/ TakeSpinlock(t) \/ Walk(t) \/ Fails(t)
  BY <1>1, <1>4 DEF ThreadExit, TakeSpinlock, Walk, Fails, OneLockPerObject, FreeInv
<1>5. CASE GivesUp(t)
  BY <1>2, <1>5 DEF GivesUp
<1>6. CASE \E d : EndsWith(t, d)
  BY <1>1, <1>6 DEF EndsWith, OneLockPerObject, FreeInv
<1>7. CASE Locks(t)
  <2>1. OneLockPerObject'
    BY <1>1, <1>7, LocksEffect DEF OneLockPerObject
  <2>2. FreeInv'
    BY <1>1, <1>7, LocksEffect, NobodyNotThread DEF FreeInv
  <2> QED BY <2>1, <2>2
<1>8. CASE Unlocks(t)
  <2>1. OneLockPerObject'
    BY <1>1, <1>8, UnlocksEffect DEF OneLockPerObject
  <2>2. FreeInv'
    BY <1>1, <1>8, UnlocksEffect, NobodyNotThread DEF FreeInv
  <2> QED BY <2>1, <2>2
<1> QED BY <1>3, <1>4, <1>5, <1>6, <1>7, <1>8 DEF StepOf

\* What a thread inside an object may rely on.
LEMMA InsideFacts ==
  ASSUME IInv, NEW t \in Thread, NEW o \in Object, inside[t][o] > 0, pc[t] # "unlock"
  PROVE  \E d \in DOMAIN list, x \in Items(t) :
           /\ list[d].object = o /\ list[d].owner = t /\ list[d].depth = inside[t][o]
           /\ x.data = d /\ x.lockCount >= inside[t][o] /\ For(x, o)
<1>1. PICK d \in DOMAIN list : list[d].owner = t /\ list[d].object = o /\ Claim(t, d) = o
  BY DEF IInv, InsideInv, Claim
<1>2. /\ inside[t][o] = list[d].depth
      /\ \E x \in Items(t) : x.data = d /\ x.lockCount >= list[d].depth
  BY <1>1 DEF IInv, OwnerInv
<1> QED BY <1>1, <1>2 DEF For

\* A thread that searches for an object is not inside it.
LEMMA SearchingOutside ==
  ASSUME IInv, NEW t \in Thread, Searching(t)
  PROVE  inside[t][object[t]] = 0
<1>1. object[t] \in Object /\ inside[t][object[t]] \in Nat
  BY DEF IInv, TypeOK
<1>2. pc[t] # "unlock"
  BY DEF Searching
<1>3. \A x \in Items(t) : ~For(x, object[t])
  BY DEF IInv, CallInv, CallOf
<1> QED BY <1>1, <1>2, <1>3, InsideFacts

\* A thread that uses an item has counted all its enters in it.
LEMMA ItemCounts ==
  ASSUME IInv, NEW t \in Thread, NEW o \in Object, pc[t] = "idle",
         NEW x \in Items(t), For(x, o)
  PROVE  /\ inside[t][o] \in Nat /\ x.lockCount \in Nat /\ x.lockCount > 0
         /\ x.lockCount >= inside[t][o]
         /\ inside[t][o] > 0 => list[x.data].owner = t
<1>1. TypeOK /\ CountInv /\ ApartInv /\ OneLockPerObject /\ LockedInv
  BY DEF IInv
<1>2. x.data \in DOMAIN list /\ x.lockCount \in Nat /\ x.lockCount > 0
  BY <1>1, ItemKeeps, Shape DEF LockedInv, SyncCacheItem
<1>3. inside[t][o] \in Nat
  BY <1>1 DEF TypeOK
<1>4. CASE inside[t][o] > 0
  <2>1. PICK d \in DOMAIN list, y \in Items(t) :
          /\ list[d].object = o /\ list[d].owner = t
          /\ y.data = d /\ y.lockCount >= inside[t][o]
    BY <1>4, InsideFacts
  <2>2. d = x.data
    BY <1>1, <1>2, <2>1 DEF OneLockPerObject, For
  <2>3. x = y
    BY <1>1, <2>1, <2>2, OneItem
  <2> QED BY <1>2, <1>3, <2>1, <2>2, <2>3
<1> QED BY <1>2, <1>3, <1>4

\* Whose every mutex is, and for which object, stays as it is.
OwnersKept ==
  /\ UNCHANGED inside
  /\ \A d \in DOMAIN list, u \in Thread : list[d].owner = u =>
       /\ d \in DOMAIN list' /\ list'[d].owner = u /\ list'[d].depth = list[d].depth
       /\ Claim(u, d)' = Claim(u, d)
  /\ \A d \in DOMAIN list', u \in Thread : list'[d].owner = u =>
       d \in DOMAIN list /\ list[d].owner = u

\* A step that is not of a mutex changes neither owners nor what they own it for.
LEMMA OwnersStep ==
  ASSUME IInv, NEW t \in Thread, StepOf(t), ~Locks(t), ~Unlocks(t)
  PROVE  OwnersKept
<1>1. TypeOK /\ CountInv
  BY DEF IInv
<1>2. ASSUME NEW o \in Object, NEW c \in {"enter", "try_enter", "exit"}, Calls(t, o, c)
      PROVE  OwnersKept
  <2>1. LocksKept
    BY <1>2, CallsList
  <2>2. ASSUME NEW d \in DOMAIN list, NEW u \in Thread PROVE Claim(u, d)' = Claim(u, d)
    <3>1. CASE u # t
      BY <1>1, <1>2, <2>1, <3>1 DEF Calls, Used, Missed, Claim, LocksKept, TypeOK
    <3>2. CASE u = t
      <4>1. pc[t] = "idle" /\ object'[t] = o
        BY <1>1, <1>2 DEF Calls, TypeOK
      <4>2. CASE Missed(t, o)
        BY <1>1, <2>1, <3>2, <4>1, <4>2 DEF Missed, Claim, LocksKept, TypeOK
      <4>3. ASSUME NEW x \in Items(t), Used(t, o, c, x) PROVE Claim(u, d)' = Claim(u, d)
        <5>1. data'[t] = x.data /\ list[x.data].object = o
          BY <1>1, <4>3 DEF Used, For, TypeOK
        <5> QED BY <2>1, <3>2, <4>1, <5>1 DEF Claim, LocksKept
      <4> QED BY <1>2, <4>2, <4>3 DEF Calls
    <3> QED BY <3>1, <3>2
  <2> QED BY <1>2, <2>1, <2>2 DEF Calls, LocksKept, OwnersKept
<1>3. CASE ThreadExit(t)
  <2>1. UNCHANGED <<list, pc, data, object, inside>>
    BY <1>3 DEF ThreadExit, local
  <2> QED BY <2>1 DEF OwnersKept, Claim
<1>4. CASE TakeSpinlock(t) \/ Walk(t)
  <2>1. /\ UNCHANGED <<list, data, object, inside>>
        /\ \A u \in Thread : pc[u] = "unlock" <=> pc'[u] = "unlock"
    BY <1>1, <1>4 DEF TakeSpinlock, Walk, Goto, TypeOK
  <2> QED BY <2>1 DEF OwnersKept, Claim
<1>5. CASE GivesUp(t)
  <2>1. /\ UNCHANGED <<data, object, inside>> /\ LocksKept
        /\ \A u \in Thread : pc[u] = "unlock" <=> pc'[u] = "unlock"
    BY <1>1, <1>5 DEF GivesUp, Finish, TypeOK
  <2> QED BY <2>1 DEF OwnersKept, Claim, LocksKept
<1>6. ASSUME NEW d0, EndsWith(t, d0) PROVE OwnersKept
  <2>0. pc[t] = "walk" /\ pc'[t] # "unlock"
        /\ \A u \in Thread \ {t} : data'[u] = data[u] /\ pc'[u] = pc[u]
    BY <1>1, <1>6 DEF EndsWith, Saved, TypeOK
  <2>1. /\ UNCHANGED <<object, inside>>
        /\ \A u \in Thread : pc[u] = "unlock" \/ pc'[u] = "unlock" =>
             pc[u] = pc'[u] /\ data'[u] = data[u]
    BY <2>0, <1>6 DEF EndsWith
  <2>2. ASSUME NEW d \in DOMAIN list, NEW u \in Thread, list[d].owner = u
        PROVE  /\ d \in DOMAIN list' /\ list'[d].owner = u /\ list'[d].depth = list[d].depth
               /\ Claim(u, d)' = Claim(u, d)
    <3>1. d \in DOMAIN list' /\ list'[d].owner = u /\ list'[d].depth = list[d].depth
      BY <1>6, <2>2 DEF EndsWith
    <3>2. CASE pc[u] = "unlock" /\ data[u] = d
      BY <2>1, <3>1, <3>2 DEF Claim
    <3>3. CASE ~(pc[u] = "unlock" /\ data[u] = d)
      <4>1. PICK x \in Items(u) : x.data = d
        BY <2>2, <3>3 DEF IInv, OwnerInv
      <4>2. list'[d].object = list[d].object
        <5>1. list[d].threadCount > 0
          BY <1>1, <4>1, ItemKeeps
        <5> QED BY <1>6, <5>1 DEF EndsWith
      <4>3. ~(pc'[u] = "unlock" /\ data'[u] = d)
        BY <2>1, <3>3
      <4> QED BY <3>1, <3>3, <4>2, <4>3 DEF Claim
    <3> QED BY <3>1, <3>2, <3>3
  <2>3. ASSUME NEW d \in DOMAIN list', NEW u \in Thread, list'[d].owner = u
        PROVE  d \in DOMAIN list /\ list[d].owner = u
    BY <1>6, <2>3, NobodyNotThread DEF EndsWith
  <2> QED BY <2>1, <2>2, <2>3 DEF OwnersKept
<1>7. CASE Fails(t)
  <2>1. /\ UNCHANGED <<list, data, object, inside>>
        /\ \A u \in Thread \ {t} : pc'[u] = pc[u]
        /\ pc'[t] = "idle"
        /\ pc[t] = "trylock" \/ (pc[t] = "unlock" /\ list[data[t]].owner # t)
    BY <1>1, <1>7 DEF Fails, MutexStep, Finish, TypeOK
  <2> QED BY <2>1 DEF OwnersKept, Claim
<1> QED BY <1>2, <1>3, <1>4, <1>5, <1>6, <1>7 DEF StepOf

\* A mutex that stays with its owner keeps the item its owner has for it.
LEMMA OwnerItemStep ==
  ASSUME IInv, NEW t \in Thread, StepOf(t), ~Locks(t), ~Unlocks(t),
         NEW d \in DOMAIN list, NEW u \in Thread, list[d].owner = u
  PROVE  \/ pc'[u] = "unlock" /\ data'[u] = d
         \/ \E item \in Items(u)' : item.data = d /\ item.lockCount >= list[d].depth
<1>1. TypeOK /\ LockedInv
  BY DEF IInv
<1>2. \/ pc[u] = "unlock" /\ data[u] = d
      \/ \E item \in Items(u) : item.data = d /\ item.lockCount >= list[d].depth
  BY DEF IInv, OwnerInv
<1>3. list[d].depth \in Nat /\ list[d].depth > 0
  BY <1>1, Shape DEF IInv, OwnerInv
<1>4. ASSUME NEW o \in Object, NEW c \in {"enter", "try_enter", "exit"}, Calls(t, o, c)
      PROVE  \/ pc'[u] = "unlock" /\ data'[u] = d
             \/ \E item \in Items(u)' : item.data = d /\ item.lockCount >= list[d].depth
  <2>1. CASE u # t
    <3>1. pc'[u] = pc[u] /\ data'[u] = data[u] /\ Items(u)' = Items(u)
      BY <1>1, <1>4, <2>1 DEF Calls, Used, Missed, TypeOK
    <3> QED BY <1>2, <3>1
  <2>2. CASE u = t
    <3>1. PICK y \in Items(t) : y.data = d /\ y.lockCount >= list[d].depth
      BY <1>2, <1>4, <2>2 DEF Calls
    <3>2. CASE Missed(t, o)
      BY <2>2, <3>1, <3>2 DEF Missed
    <3>3. ASSUME NEW x \in Items(t), Used(t, o, c, x)
          PROVE  \/ pc'[u] = "unlock" /\ data'[u] = d
                 \/ \E item \in Items(u)' : item.data = d /\ item.lockCount >= list[d].depth
      <4>1. CASE y # x
        <5>1. y \in Items(t)'
          BY <3>3, <4>1 DEF Used
        <5> QED BY <2>2, <3>1, <5>1
      <4>2. CASE y = x /\ c = "exit"
        BY <1>1, <2>2, <3>1, <3>3, <4>2 DEF Used, TypeOK
      <4>3. CASE y = x /\ c # "exit"
        <5> DEFINE z == [data |-> x.data, lockCount |-> x.lockCount + 1]
        <5>1. x.lockCount \in Nat /\ After(x, c) = x.lockCount + 1 /\ After(x, c) # 0
          BY <1>1, <4>3, Shape DEF After, SyncCacheItem
        <5>2. z \in Items(t)' /\ z.data = d /\ z.lockCount = x.lockCount + 1
          BY <3>1, <3>3, <4>3, <5>1 DEF Used
        <5> HIDE DEF z
        <5> QED BY <1>3, <2>2, <3>1, <4>3, <5>1, <5>2
      <4> QED BY <4>1, <4>2, <4>3
    <3> QED BY <1>4, <3>2, <3>3 DEF Calls
  <2> QED BY <2>1, <2>2
<1>5. CASE ThreadExit(t)
  <2>1. u # t
    <3>1. inside[u][Claim(u, d)] > 0 /\ Claim(u, d) \in Object
      BY <1>1, <1>3, Shape, ZenonT(30) DEF IInv, OwnerInv, Claim, TypeOK
    <3> QED BY <1>5, <3>1 DEF ThreadExit
  <2> QED BY <1>1, <1>2, <1>5, <2>1, ThreadExitItems DEF ThreadExit, local
<1>6. CASE TakeSpinlock(t) \/ Walk(t) \/ GivesUp(t) \/ Fails(t)
  <2>1. Items(u)' = Items(u) /\ data'[u] = data[u]
    BY <1>6, CachesSameStep DEF CachesSame, TakeSpinlock, Walk, GivesUp, Fails, MutexStep
  <2>2. u # t => pc'[u] = pc[u]
    BY <1>1, <1>6 DEF TakeSpinlock, Walk, GivesUp, Fails, MutexStep, Finish, Goto, TypeOK
  <2>3. u = t => ~(pc[u] = "unlock" /\ data[u] = d)
    BY <1>6 DEF TakeSpinlock, Walk, GivesUp, Fails
  <2> QED BY <1>2, <2>1, <2>2, <2>3
<1>7. CASE \E d0 : EndsWith(t, d0)
  <2>1. Items(u) \subseteq Items(u)'
    BY <1>7 DEF EndsWith, Saved
  <2>2. u # t => pc'[u] = pc[u] /\ data'[u] = data[u]
    BY <1>1, <1>7 DEF EndsWith, Saved, TypeOK
  <2>3. u = t => pc[u] # "unlock"
    BY <1>7 DEF EndsWith
  <2> QED BY <1>2, <2>1, <2>2, <2>3
<1> QED BY <1>4, <1>5, <1>6, <1>7 DEF StepOf

\* An owner is inside its object as often as its mutex is locked, and inside no object
\* without owning the mutex.
LEMMA OwnerStepLocks ==
  ASSUME IInv, NEW t \in Thread, Locks(t) PROVE OwnerInv' /\ InsideInv'
<1> DEFINE d0 == data[t]  o0 == object[t]
<1>1. TypeOK /\ OneLockPerObject /\ FreeInv
  BY DEF IInv
<1>2. /\ d0 \in DOMAIN list /\ DOMAIN list' = DOMAIN list
      /\ \A e \in DOMAIN list \ {d0} : list'[e] = list[e]
      /\ list'[d0].object = list[d0].object
      /\ list[d0].owner \in {Nobody, t} /\ list[d0].object = o0
      /\ list'[d0].owner = t /\ list'[d0].depth = list[d0].depth + 1
      /\ inside'[t][o0] = inside[t][o0] + 1
      /\ \A u \in Thread, o \in Object : u # t \/ o # o0 => inside'[u][o] = inside[u][o]
      /\ CachesSame
  BY LocksEffect
<1>3. PICK x \in Items(t) : x.data = d0 /\ x.lockCount > inside[t][o0]
  BY LocksEffect
<1>4. /\ UNCHANGED <<data, object>> /\ pc[t] # "unlock" /\ pc'[t] # "unlock"
      /\ \A u \in Thread \ {t} : pc'[u] = pc[u]
  BY <1>1 DEF Locks, MutexStep, Finish, TypeOK
<1>5. o0 \in Object /\ inside[t][o0] \in Nat /\ list[d0].depth \in Nat /\ x.lockCount \in Nat
  <2>1. o0 \in Object /\ inside[t][o0] \in Nat
    BY <1>1 DEF TypeOK
  <2>2. x \in SyncCacheItem
    BY <1>1, Shape
  <2> HIDE DEF d0, o0
  <2>3. list[d0].depth \in Nat
    BY <1>1, <1>2, Shape
  <2> QED BY <2>1, <2>2, <2>3 DEF SyncCacheItem
<1> HIDE DEF d0, o0
<1>6. \A d \in DOMAIN list, u \in Thread : Claim(u, d)' = Claim(u, d)
  <2> TAKE d \in DOMAIN list, u \in Thread
  <2>1. list'[d].object = list[d].object
    BY <1>2
  <2> QED BY <1>4, <2>1 DEF Claim
<1>7. Claim(t, d0) = o0 /\ \A d \in DOMAIN list : Claim(t, d) = o0 => d = d0
  BY <1>1, <1>2, <1>4 DEF Claim, OneLockPerObject
<1>8. inside[t][o0] = list[d0].depth
  <2>1. CASE list[d0].owner = t
    BY <1>2, <1>7, <2>1 DEF IInv, OwnerInv
  <2>2. CASE list[d0].owner = Nobody
    <3>1. list[d0].depth = 0
      BY <1>1, <1>2, <2>2 DEF FreeInv
    <3>2. ~(inside[t][o0] > 0)
      BY <1>2, <1>7, <1>5, <2>2, NobodyNotThread DEF IInv, InsideInv
    <3> QED BY <1>5, <3>1, <3>2
  <2> QED BY <1>2, <2>1, <2>2
<1>9. ASSUME NEW d \in DOMAIN list, NEW u \in Thread, list'[d].owner = u
      PROVE  \/ d = d0 /\ u = t
             \/ d # d0 /\ list[d].owner = u /\ list'[d].depth = list[d].depth
  <2>1. CASE d = d0
    BY <1>2, <1>9, <2>1
  <2>2. CASE d # d0
    <3>1. list'[d] = list[d]
      BY <1>2, <2>2
    <3> QED BY <1>9, <2>2, <3>1
  <2> QED BY <2>1, <2>2
<1>10. ASSUME NEW d \in DOMAIN list, NEW u \in Thread, list'[d].owner = u
       PROVE  /\ list'[d].depth > 0 /\ inside'[u][Claim(u, d)'] = list'[d].depth
              /\ \A e \in DOMAIN list : list'[e].owner = u /\ Claim(u, e)' = Claim(u, d)' => e = d
              /\ \/ pc'[u] = "unlock" /\ data'[u] = d
                 \/ \E item \in Items(u)' : item.data = d /\ item.lockCount >= list'[d].depth
  <2>1. CASE d = d0 /\ u = t
    <3>1. list'[d].depth > 0 /\ inside'[t][o0] = list'[d0].depth
      BY <1>2, <1>5, <1>8, <2>1
    <3>2. x \in Items(t)' /\ x.lockCount >= list'[d0].depth
      BY <1>2, <1>3, <1>5, <1>8 DEF CachesSame
    <3> QED BY <1>3, <1>6, <1>7, <2>1, <3>1, <3>2
  <2>2. CASE d # d0
    <3>1. list[d].owner = u /\ list'[d].depth = list[d].depth
      BY <1>9, <1>10, <2>2
    <3>2. /\ list[d].depth > 0 /\ inside[u][Claim(u, d)] = list[d].depth
          /\ \A e \in DOMAIN list : list[e].owner = u /\ Claim(u, e) = Claim(u, d) => e = d
          /\ \/ pc[u] = "unlock" /\ data[u] = d
             \/ \E item \in Items(u) : item.data = d /\ item.lockCount >= list[d].depth
      BY <3>1 DEF IInv, OwnerInv
    <3>3. u # t \/ Claim(u, d) # o0
      BY <1>7, <2>2
    <3>4. Claim(u, d) \in Object
      BY <1>1, Shape DEF Claim, TypeOK
    <3>5. inside'[u][Claim(u, d)] = inside[u][Claim(u, d)]
      BY <1>2, <3>3, <3>4
    <3>6. \/ pc'[u] = "unlock" /\ data'[u] = d
          \/ \E item \in Items(u)' : item.data = d /\ item.lockCount >= list'[d].depth
      BY <1>2, <1>4, <3>1, <3>2 DEF CachesSame
    <3>7. ASSUME NEW e \in DOMAIN list, list'[e].owner = u, Claim(u, e)' = Claim(u, d)'
          PROVE  e = d
      <4>1. Claim(u, e) = Claim(u, d)
        BY <1>6, <3>7
      <4>2. e # d0
        BY <1>2, <1>7, <3>3, <3>7, <4>1
      <4> QED BY <1>9, <3>2, <3>7, <4>1, <4>2
    <3> QED BY <1>6, <3>1, <3>2, <3>5, <3>6, <3>7
  <2> QED BY <1>9, <1>10, <2>1, <2>2
<1>11. OwnerInv'
  BY <1>2, <1>10 DEF OwnerInv
<1>12. InsideInv'
  <2> SUFFICES ASSUME NEW u \in Thread, NEW o \in Object, inside'[u][o] > 0
               PROVE  \E d \in DOMAIN list : list'[d].owner = u /\ Claim(u, d)' = o
    BY <1>2 DEF InsideInv
  <2>1. CASE u = t /\ o = o0
    BY <1>2, <1>6, <1>7, <2>1
  <2>2. CASE u # t \/ o # o0
    <3>1. PICK d \in DOMAIN list : list[d].owner = u /\ Claim(u, d) = o
      BY <1>2, <2>2 DEF IInv, InsideInv
    <3>2. d # d0
      BY <1>2, <1>7, <2>2, <3>1, NobodyNotThread
    <3> QED BY <1>2, <1>6, <3>1, <3>2
  <2> QED BY <2>1, <2>2
<1> QED BY <1>11, <1>12

\* The owners and the enters agree after an unlock.
LEMMA OwnerStepUnlocks ==
  ASSUME IInv, NEW t \in Thread, Unlocks(t) PROVE OwnerInv' /\ InsideInv'
<1> DEFINE d0 == data[t]  o0 == object[t]
<1>1. TypeOK
  BY DEF IInv
<1>2. /\ d0 \in DOMAIN list /\ DOMAIN list' = DOMAIN list
      /\ \A e \in DOMAIN list \ {d0} : list'[e] = list[e]
      /\ list'[d0].object = list[d0].object
      /\ list[d0].depth \in Nat \ {0} /\ list[d0].depth = inside[t][o0]
      /\ list'[d0].owner = (IF list[d0].depth = 1 THEN Nobody ELSE t)
      /\ list'[d0].depth = list[d0].depth - 1
      /\ inside'[t][o0] = inside[t][o0] - 1
      /\ \A u \in Thread, o \in Object : u # t \/ o # o0 => inside'[u][o] = inside[u][o]
      /\ CachesSame
  BY UnlocksEffect
<1>3. list[d0].owner = t /\ pc[t] = "unlock"
  BY DEF Unlocks
<1>4. /\ UNCHANGED <<data, object>> /\ pc'[t] = "idle"
      /\ \A u \in Thread \ {t} : pc'[u] = pc[u]
  BY <1>1 DEF Unlocks, MutexStep, Finish, TypeOK
<1>5. o0 \in Object /\ inside[t][o0] \in Nat
  BY <1>1 DEF TypeOK
<1>6. Claim(t, d0) = o0
  BY <1>3 DEF Claim
<1>7. list[d0].depth # 1 =>
        /\ list[d0].object = o0
        /\ \E x \in Items(t) : x.data = d0 /\ x.lockCount + 1 >= inside[t][o0]
  <2>1. list[d0].depth # 1 => inside[t][o0] > 1
    BY <1>2
  <2> QED BY <1>3, <2>1 DEF IInv, CallInv, CallOf, For
<1>8. \A d \in DOMAIN list, u \in Thread :
        u # t \/ d # d0 \/ list[d0].depth # 1 => Claim(u, d)' = Claim(u, d)
  <2> TAKE d \in DOMAIN list, u \in Thread
  <2>1. list'[d].object = list[d].object
    BY <1>2
  <2>2. CASE u # t
    BY <1>4, <2>1, <2>2 DEF Claim
  <2>3. CASE u = t
    BY <1>3, <1>4, <1>7, <2>1, <2>3 DEF Claim
  <2> QED BY <2>2, <2>3
<1> HIDE DEF d0, o0
<1>9. \A d \in DOMAIN list : list[d].owner = t /\ Claim(t, d) = o0 => d = d0
  BY <1>2, <1>3, <1>6 DEF IInv, OwnerInv
<1>10. ASSUME NEW d \in DOMAIN list, NEW u \in Thread, list'[d].owner = u
       PROVE  /\ list[d].owner = u
              /\ u # t \/ d # d0 \/ list[d0].depth # 1
  BY <1>2, <1>3, <1>10, NobodyNotThread
<1>11. ASSUME NEW d \in DOMAIN list, NEW u \in Thread, list'[d].owner = u
       PROVE  /\ list'[d].depth > 0 /\ inside'[u][Claim(u, d)'] = list'[d].depth
              /\ \A e \in DOMAIN list : list'[e].owner = u /\ Claim(u, e)' = Claim(u, d)' => e = d
              /\ \/ pc'[u] = "unlock" /\ data'[u] = d
                 \/ \E item \in Items(u)' : item.data = d /\ item.lockCount >= list'[d].depth
  <2>1. list[d].owner = u /\ Claim(u, d)' = Claim(u, d)
    BY <1>8, <1>10, <1>11
  <2>2. /\ list[d].depth > 0 /\ inside[u][Claim(u, d)] = list[d].depth
        /\ \A e \in DOMAIN list : list[e].owner = u /\ Claim(u, e) = Claim(u, d) => e = d
        /\ \/ pc[u] = "unlock" /\ data[u] = d
           \/ \E item \in Items(u) : item.data = d /\ item.lockCount >= list[d].depth
    BY <2>1 DEF IInv, OwnerInv
  <2>3. \A e \in DOMAIN list : list'[e].owner = u /\ Claim(u, e)' = Claim(u, d)' => e = d
    BY <1>8, <1>10, <2>1, <2>2
  <2>4. CASE d = d0
    <3>1. u = t /\ list[d0].depth # 1
      BY <1>3, <1>10, <1>11, <2>1, <2>4
    <3>2. PICK x \in Items(t) : x.data = d0 /\ x.lockCount + 1 >= inside[t][o0]
      BY <1>7, <3>1
    <3>3. x.lockCount \in Nat
      BY <1>1, Shape DEF SyncCacheItem
    <3>4. x \in Items(t)' /\ x.lockCount >= list'[d0].depth
      BY <1>2, <3>2, <3>3 DEF CachesSame
    <3>5. list'[d0].depth > 0 /\ inside'[t][o0] = list'[d0].depth
      BY <1>2, <3>1
    <3> QED BY <1>6, <2>1, <2>3, <2>4, <3>1, <3>2, <3>4, <3>5
  <2>5. CASE d # d0
    <3>1. u # t \/ Claim(u, d) # o0
      BY <1>9, <2>1, <2>5
    <3>2. Claim(u, d) \in Object
      BY <1>1, Shape DEF Claim, TypeOK
    <3>3. inside'[u][Claim(u, d)] = inside[u][Claim(u, d)] /\ list'[d].depth = list[d].depth
      BY <1>2, <2>5, <3>1, <3>2
    <3>4. u = t => ~(pc[u] = "unlock" /\ data[u] = d)
      BY <2>5 DEF d0
    <3>5. \/ pc'[u] = "unlock" /\ data'[u] = d
          \/ \E item \in Items(u)' : item.data = d /\ item.lockCount >= list'[d].depth
      BY <1>2, <1>4, <2>2, <3>3, <3>4 DEF CachesSame
    <3> QED BY <2>1, <2>2, <2>3, <3>3, <3>5
  <2> QED BY <2>4, <2>5
<1>12. OwnerInv'
  BY <1>2, <1>11 DEF OwnerInv
<1>13. InsideInv'
  <2> SUFFICES ASSUME NEW u \in Thread, NEW o \in Object, inside'[u][o] > 0
               PROVE  \E d \in DOMAIN list : list'[d].owner = u /\ Claim(u, d)' = o
    BY <1>2 DEF InsideInv
  <2>1. CASE u = t /\ o = o0
    <3>1. list[d0].depth # 1
      BY <1>2, <2>1
    <3> QED BY <1>2, <1>6, <1>8, <2>1, <3>1
  <2>2. CASE u # t \/ o # o0
    <3>1. PICK d \in DOMAIN list : list[d].owner = u /\ Claim(u, d) = o
      BY <1>2, <2>2 DEF IInv, InsideInv
    <3>2. d # d0
      BY <1>3, <1>6, <2>2, <3>1
    <3> QED BY <1>2, <1>8, <3>1, <3>2
  <2> QED BY <2>1, <2>2
<1> QED BY <1>12, <1>13

\* The owners and the enters agree after every step.
LEMMA OwnerStep ==
  ASSUME IInv, NEW t \in Thread, StepOf(t) PROVE OwnerInv' /\ InsideInv'
<1>1. CASE Locks(t)
  BY <1>1, OwnerStepLocks
<1>2. CASE Unlocks(t)
  BY <1>2, OwnerStepUnlocks
<1>3. CASE ~Locks(t) /\ ~Unlocks(t)
  <2>1. OwnersKept
    BY <1>3, OwnersStep
  <2>2. InsideInv'
    BY <2>1 DEF OwnersKept, InsideInv, IInv
  <2>3. ASSUME NEW d \in DOMAIN list', NEW u \in Thread, list'[d].owner = u
        PROVE  /\ list'[d].depth > 0 /\ inside'[u][Claim(u, d)'] = list'[d].depth
               /\ \A e \in DOMAIN list' : list'[e].owner = u /\ Claim(u, e)' = Claim(u, d)' => e = d
               /\ \/ pc'[u] = "unlock" /\ data'[u] = d
                  \/ \E item \in Items(u)' : item.data = d /\ item.lockCount >= list'[d].depth
    <3>1. /\ d \in DOMAIN list /\ list[d].owner = u /\ list'[d].depth = list[d].depth
          /\ Claim(u, d)' = Claim(u, d) /\ inside' = inside
      BY <2>1, <2>3 DEF OwnersKept
    <3>2. /\ list[d].depth > 0 /\ inside[u][Claim(u, d)] = list[d].depth
          /\ \A e \in DOMAIN list : list[e].owner = u /\ Claim(u, e) = Claim(u, d) => e = d
      BY <3>1 DEF IInv, OwnerInv
    <3>3. \A e \in DOMAIN list' : list'[e].owner = u => 
            e \in DOMAIN list /\ list[e].owner = u /\ Claim(u, e)' = Claim(u, e)
      BY <2>1 DEF OwnersKept
    <3>4. \/ pc'[u] = "unlock" /\ data'[u] = d
          \/ \E item \in Items(u)' : item.data = d /\ item.lockCount >= list[d].depth
      BY <1>3, <3>1, OwnerItemStep
    <3> QED BY <3>1, <3>2, <3>3, <3>4
  <2>4. OwnerInv'
    BY <2>3 DEF OwnerInv
  <2> QED BY <2>2, <2>4
<1> QED BY <1>1, <1>2, <1>3

\* The SyncData of an item is not given to another object.
LEMMA ItemObjectStep ==
  ASSUME IInv, NEW t \in Thread, StepOf(t), NEW u \in Thread, NEW x \in Items(u)
  PROVE  list'[x.data].object = list[x.data].object
<1>1. TypeOK /\ CountInv
  BY DEF IInv
<1>2. x.data \in DOMAIN list /\ list[x.data].threadCount > 0
  BY <1>1, ItemKeeps
<1>3. CASE \E o \in Object, c \in {"enter", "try_enter", "exit"} : Calls(t, o, c)
  BY <1>2, <1>3, CallsList DEF LocksKept
<1>4. CASE ThreadExit(t) \/ TakeSpinlock(t) \/ Walk(t) \/ Fails(t)
  BY <1>4 DEF ThreadExit, TakeSpinlock, Walk, Fails
<1>5. CASE GivesUp(t)
  BY <1>2, <1>5 DEF GivesUp, LocksKept
<1>6. CASE \E d : EndsWith(t, d)
  BY <1>2, <1>6 DEF EndsWith
<1>7. CASE Locks(t)
  BY <1>2, <1>7, LocksEffect
<1>8. CASE Unlocks(t)
  BY <1>2, <1>8, UnlocksEffect
<1> QED BY <1>3, <1>4, <1>5, <1>6, <1>7, <1>8 DEF StepOf

\* A mutex step changes one mutex, which was free or the thread's.
LEMMA MutexListStep ==
  ASSUME IInv, NEW t \in Thread, Locks(t) \/ Unlocks(t)
  PROVE  /\ DOMAIN list' = DOMAIN list
         /\ \A d \in DOMAIN list :
              /\ list'[d].object = list[d].object /\ list'[d].threadCount = list[d].threadCount
              /\ \A u \in Thread \ {t} : list[d].owner = u => list'[d].owner = u
         /\ CachesSame
         /\ \A u \in Thread \ {t}, o \in Object : inside'[u][o] = inside[u][o]
<1> DEFINE d0 == data[t]
<1>1. /\ DOMAIN list' = DOMAIN list
      /\ \A d \in DOMAIN list \ {d0} : list'[d] = list[d]
      /\ list'[d0].object = list[d0].object /\ list'[d0].threadCount = list[d0].threadCount
      /\ CachesSame
      /\ \A u \in Thread \ {t}, o \in Object : inside'[u][o] = inside[u][o]
  BY LocksEffect, UnlocksEffect
<1>2. list[d0].owner \in {Nobody, t}
  BY DEF Locks, Unlocks, Free
<1> HIDE DEF d0
<1>3. ASSUME NEW d \in DOMAIN list
      PROVE  /\ list'[d].object = list[d].object /\ list'[d].threadCount = list[d].threadCount
             /\ \A u \in Thread \ {t} : list[d].owner = u => list'[d].owner = u
  <2>1. CASE d = d0
    BY <1>1, <1>2, <2>1, NobodyNotThread
  <2>2. CASE d # d0
    <3>1. list'[d] = list[d]
      BY <1>1, <2>2
    <3> QED BY <3>1
  <2> QED BY <2>1, <2>2
<1> QED BY <1>1, <1>3

\* What a step of t leaves of another thread.
LEMMA OthersStep ==
  ASSUME IInv, NEW t \in Thread, StepOf(t), NEW u \in Thread, u # t
  PROVE  /\ pc'[u] = pc[u] /\ object'[u] = object[u] /\ data'[u] = data[u]
         /\ p'[u] = p[u] /\ unused'[u] = unused[u]
         /\ Items(u)' = Items(u)
         /\ \A o \in Object : inside'[u][o] = inside[u][o]
         /\ \A d \in DOMAIN list : list[d].owner = u => list'[d].owner = u
<1>1. TypeOK
  BY DEF IInv
<1>2. CASE \E o \in Object, c \in {"enter", "try_enter", "exit"} : Calls(t, o, c)
  <2>1. LocksKept
    BY <1>2, CallsList
  <2> QED BY <1>1, <1>2, <2>1, ZenonT(30) DEF Calls, Used, Missed, LocksKept, TypeOK
<1>3. CASE ThreadExit(t)
  BY <1>1, <1>3, ThreadExitItems DEF ThreadExit, local
<1>4. CASE TakeSpinlock(t) \/ Walk(t)
  BY <1>1, <1>4, CachesSameStep DEF TakeSpinlock, Walk, Goto, CachesSame, TypeOK
<1>5. CASE GivesUp(t)
  BY <1>1, <1>5, CachesSameStep DEF GivesUp, Finish, LocksKept, CachesSame, TypeOK
<1>6. CASE \E d : EndsWith(t, d)
  BY <1>1, <1>6 DEF EndsWith, Saved, TypeOK
<1>7. CASE Fails(t)
  BY <1>1, <1>7, CachesSameStep DEF Fails, MutexStep, Finish, CachesSame, TypeOK
<1>8. CASE Locks(t) \/ Unlocks(t)
  <2>1. /\ pc'[u] = pc[u] /\ object'[u] = object[u] /\ data'[u] = data[u]
        /\ p'[u] = p[u] /\ unused'[u] = unused[u]
    BY <1>1, <1>8 DEF Locks, Unlocks, MutexStep, Finish, TypeOK
  <2> QED BY <1>8, <2>1, MutexListStep DEF CachesSame
<1> QED BY <1>2, <1>3, <1>4, <1>5, <1>6, <1>7, <1>8 DEF StepOf

\* The walk meets no SyncData of its object behind it, and what it will reuse stays
\* unused: threadCount is incremented under the spinlock only.
LEMMA WalkStep ==
  ASSUME IInv, NEW t \in Thread, StepOf(t) PROVE WalkInv'
<1>1. TypeOK /\ WalkInv
  BY DEF IInv
<1> SUFFICES ASSUME NEW u \in Thread, pc'[u] = "walk"
             PROVE  /\ spinlock' = u
                    /\ \A d \in DOMAIN list' : d > p'[u] => list'[d].object # object'[u]
                    /\ unused'[u] # NULL => list'[unused'[u]].threadCount = 0
  BY DEF WalkInv
<1>2. CASE u # t
  <2>1. /\ pc[u] = "walk" /\ object'[u] = object[u] /\ p'[u] = p[u] /\ unused'[u] = unused[u]
    BY <1>2, OthersStep
  <2>2. /\ spinlock = u
        /\ \A d \in DOMAIN list : d > p[u] => list[d].object # object[u]
        /\ unused[u] # NULL => list[unused[u]].threadCount = 0
        /\ unused[u] \in {NULL} \cup DOMAIN list
    BY <1>1, <2>1 DEF WalkInv, TypeOK
  <2>3. CASE \E o \in Object, c \in {"enter", "try_enter", "exit"} : Calls(t, o, c)
    <3>1. LocksKept /\ spinlock' = u
      BY <2>2, <2>3, CallsList DEF Calls
    <3>2. \A d \in DOMAIN list : list[d].threadCount = 0 => list'[d].threadCount = 0
      BY <2>3, CallsList
    <3> QED BY <2>1, <2>2, <3>1, <3>2 DEF LocksKept
  <2>4. CASE ThreadExit(t) \/ TakeSpinlock(t) \/ Walk(t) \/ Fails(t)
    <3>1. UNCHANGED <<list, spinlock>>
      BY <2>2, <2>4, NobodyNotThread DEF ThreadExit, TakeSpinlock, Walk, Fails, MutexStep
    <3> QED BY <2>1, <2>2, <3>1
  <2>5. CASE GivesUp(t) \/ \E d : EndsWith(t, d)
    BY <1>1, <1>2, <2>2, <2>5 DEF GivesUp, EndsWith, WalkInv
  <2>6. CASE Locks(t) \/ Unlocks(t)
    <3>1. spinlock' = spinlock
      BY <2>6 DEF Locks, Unlocks, MutexStep
    <3> QED BY <2>1, <2>2, <2>6, <3>1, MutexListStep
  <2> QED BY <2>3, <2>4, <2>5, <2>6 DEF StepOf
<1>3. CASE u = t
  <2>1. TakeSpinlock(t) \/ Walk(t)
    BY <1>1, <1>3 DEF StepOf, Calls, Used, Missed, ThreadExit, local, GivesUp, EndsWith, Saved,
          Locks, Unlocks, Fails, MutexStep, Finish, TypeOK
  <2>2. CASE TakeSpinlock(t)
    BY <1>1, <1>3, <2>2, Shape DEF TakeSpinlock, TypeOK
  <2>3. CASE Walk(t)
    <3>1. /\ list' = list /\ spinlock' = spinlock /\ object' = object /\ pc[t] = "walk"
          /\ p[t] \in DOMAIN list /\ list[p[t]].object # object[t] /\ p'[t] = p[t] - 1
          /\ unused'[t] = IF unused[t] = NULL /\ list[p[t]].threadCount = 0 THEN p[t] ELSE unused[t]
      BY <1>1, <2>3 DEF Walk, TypeOK
    <3>2. ASSUME NEW d \in DOMAIN list, d > p[t] - 1 PROVE d >= p[t]
      BY <1>1, <3>1, <3>2, Shape
    <3>3. \A d \in DOMAIN list : d > p[t] => list[d].object # object[t]
      BY <1>1, <3>1 DEF WalkInv
    <3>4. \A d \in DOMAIN list : d > p[t] - 1 => list[d].object # object[t]
      BY <1>1, <3>1, <3>2, <3>3, Shape
    <3> QED BY <1>1, <1>3, <3>1, <3>4 DEF WalkInv
  <2> QED BY <2>1, <2>2, <2>3
<1> QED BY <1>2, <1>3

\* A thread waits for the mutex of its object, with an item that has counted the call.
LEMMA CallStep ==
  ASSUME IInv, NEW t \in Thread, StepOf(t) PROVE CallInv'
<1>1. TypeOK /\ CallInv /\ CountInv /\ LockedInv
  BY DEF IInv
<1>2. \A u \in Thread : \A x \in Items(u) : list'[x.data].object = list[x.data].object
  BY ItemObjectStep
<1>3. ASSUME NEW u \in Thread \ {t} PROVE CallOf(u)'
  <2>1. /\ pc'[u] = pc[u] /\ object'[u] = object[u] /\ data'[u] = data[u]
        /\ Items(u)' = Items(u)
        /\ inside'[u][object[u]] = inside[u][object[u]]
        /\ \A d \in DOMAIN list : list[d].owner = u => list'[d].owner = u
    BY <1>1, OthersStep DEF TypeOK
  <2>2. CallOf(u)
    BY <1>1 DEF CallInv
  <2>3. \A x \in Items(u) : For(x, object[u])' <=> For(x, object[u])
    BY <1>2, <2>1 DEF For
  <2>4. Searching(u)' <=> Searching(u)
    BY <2>1 DEF Searching
  <2>5. data[u] # NULL => data[u] \in DOMAIN list
    BY <1>1 DEF TypeOK
  <2>6. \A x \in Items(u) : list'[x.data].object = object[u] <=> list[x.data].object = object[u]
    BY <1>2
  <2> QED BY <2>1, <2>2, <2>4, <2>5, <2>6 DEF For, CallOf
<1>4. ASSUME NEW o \in Object, NEW c \in {"enter", "try_enter", "exit"}, Calls(t, o, c)
      PROVE  CallOf(t)'
  <2>1. object'[t] = o /\ inside' = inside /\ pc[t] = "idle"
    BY <1>1, <1>4 DEF Calls, TypeOK
  <2>2. CASE Missed(t, o)
    <3>1. pc'[t] = "spin"
      BY <1>1, <2>2 DEF Missed, TypeOK
    <3> QED BY <2>1, <2>2, <3>1 DEF Missed, For, CallOf
  <2>3. ASSUME NEW x \in Items(t), Used(t, o, c, x) PROVE CallOf(t)'
    <3>1. /\ inside[t][o] \in Nat /\ x.lockCount \in Nat /\ x.lockCount > 0
          /\ x.lockCount >= inside[t][o]
          /\ inside[t][o] > 0 => list[x.data].owner = t
          /\ x.data \in DOMAIN list /\ x.data # NULL
      BY <1>1, <2>1, <2>3, ItemCounts, ItemKeeps DEF Used
    <3>2. LocksKept
      BY <1>4, CallsList
    <3>3. /\ data'[t] = x.data /\ list'[x.data].object = o /\ list'[x.data].owner = list[x.data].owner
          /\ pc'[t] = IF c = "enter" THEN "lock" ELSE IF c = "try_enter" THEN "trylock" ELSE "unlock"
      BY <1>1, <2>3, <3>1, <3>2 DEF Used, For, LocksKept, TypeOK
    <3> DEFINE z == [data |-> x.data, lockCount |-> After(x, c)]
    <3>4. After(x, c) # 0 => z \in Items(t)'
      BY <2>3 DEF Used
    <3>5. z.data = x.data /\ z.lockCount = After(x, c)
      OBVIOUS
    <3> HIDE DEF z
    <3>6. CASE c # "exit"
      <4>1. After(x, c) # 0 /\ After(x, c) > inside[t][o]
        BY <3>1, <3>6 DEF After
      <4>2. pc'[t] \in {"lock", "trylock"}
        BY <3>3, <3>6
      <4> QED BY <2>1, <3>3, <3>4, <3>5, <4>1, <4>2 DEF For, Searching, CallOf
    <3>7. CASE c = "exit"
      <4>1. /\ inside[t][o] > 1 => After(x, c) # 0
            /\ After(x, c) + 1 >= inside[t][o]
        BY <3>1, <3>7 DEF After
      <4>2. pc'[t] = "unlock"
        BY <3>3, <3>7
      <4> QED BY <2>1, <3>1, <3>3, <3>4, <3>5, <4>1, <4>2 DEF For, Searching, CallOf
    <3> QED BY <3>6, <3>7
  <2> QED BY <1>4, <2>2, <2>3 DEF Calls
<1>5. ASSUME TakeSpinlock(t) \/ Walk(t) PROVE CallOf(t)'
  <2>1. /\ list' = list /\ object' = object /\ pc'[t] = "walk" /\ Searching(t)
        /\ Items(t)' = Items(t)
    BY <1>1, <1>5, CachesSameStep DEF TakeSpinlock, Walk, Goto, Searching, CachesSame, TypeOK
  <2>2. \A item \in Items(t) : ~For(item, object[t])
    BY <1>1, <2>1 DEF CallInv, CallOf
  <2>3. pc'[t] \notin {"lock", "trylock", "unlock"} /\ object'[t] = object[t]
    BY <2>1
  <2>4. \A item \in Items(t)' : ~For(item, object[t])'
    BY <2>1, <2>2 DEF For
  <2> QED BY <2>3, <2>4 DEF CallOf, For, Searching
<1>6. ASSUME NEW d, EndsWith(t, d) PROVE CallOf(t)'
  <2> DEFINE z == [data |-> d, lockCount |-> 1]
  <2>1. /\ pc'[t] \in {"lock", "trylock"} /\ data'[t] = d /\ object' = object /\ inside' = inside
        /\ list'[d].object = object[t] /\ z \in Items(t)'
    BY <1>1, <1>6 DEF EndsWith, Saved, TypeOK
  <2>2. z.data = d /\ z.lockCount = 1
    OBVIOUS
  <2> HIDE DEF z
  <2>3. inside[t][object[t]] = 0
    BY <1>6, SearchingOutside DEF EndsWith, Searching
  <2>4. 1 > inside[t][object[t]]
    BY <2>3
  <2> QED BY <2>1, <2>2, <2>4 DEF For, Searching, CallOf
<1>7. ASSUME ThreadExit(t) \/ GivesUp(t) \/ Locks(t) \/ Unlocks(t) \/ Fails(t)
      PROVE  CallOf(t)'
  <2>1. pc'[t] = "idle"
    BY <1>1, <1>7 DEF ThreadExit, local, GivesUp, Locks, Unlocks, Fails, MutexStep, Finish, TypeOK
  <2> QED BY <2>1 DEF CallOf, Searching
<1>8. CallOf(t)'
  <2>1. \/ \E o \in Object, c \in {"enter", "try_enter", "exit"} : Calls(t, o, c)
        \/ TakeSpinlock(t) \/ Walk(t) \/ (\E d : EndsWith(t, d))
        \/ ThreadExit(t) \/ GivesUp(t) \/ Locks(t) \/ Unlocks(t) \/ Fails(t)
    BY DEF StepOf
  <2> QED BY <1>4, <1>5, <1>6, <1>7, <2>1
<1>9. \A u \in Thread : CallOf(u)'
  BY <1>3, <1>8
<1> QED BY <1>9 DEF CallInv

\* At first no thread uses a SyncData, and there is none.
LEMMA InitIInv == Init => IInv
<1> SUFFICES ASSUME Init PROVE IInv
  OBVIOUS
<1>1. list = <<>> /\ DOMAIN list = {} /\ spinlock = Nobody
  BY DEF Init
<1>2. ASSUME NEW t \in Thread
      PROVE  /\ fast[t] = NoItem /\ cache[t] = <<>> /\ allocated[t] = 0 /\ pc[t] = "idle"
             /\ \A o \in Object : inside[t][o] = 0
  BY DEF Init
<1>3. \A t \in Thread : Len(cache[t]) = 0 /\ DOMAIN cache[t] = {} /\ Items(t) = {}
  BY <1>2 DEF Items
<1>4. TypeOK
  <2>1. list \in Seq(SyncData) /\ \A t \in Thread : Len(cache[t]) <= allocated[t]
    BY <1>1, <1>2, <1>3
  <2>2. cache \in [Thread -> Seq(SyncCacheItem)]
    BY DEF Init
  <2> QED BY <2>1, <2>2 DEF Init, TypeOK, CacheHasRoom, NULL
<1>5. RoomInv /\ ApartInv /\ LockedInv
  BY <1>2, <1>3 DEF RoomInv, ApartInv, LockedInv
<1>6. CountInv /\ OneLockPerObject /\ OwnerInv /\ FreeInv
  BY <1>1 DEF CountInv, OneLockPerObject, OwnerInv, FreeInv
<1>7. WalkInv /\ CallInv /\ InsideInv
  BY <1>2 DEF WalkInv, CallInv, CallOf, Searching, InsideInv
<1> QED BY <1>4, <1>5, <1>6, <1>7 DEF IInv

\* The invariant holds after a step that changes nothing.
LEMMA StutterIInv ==
  ASSUME IInv, UNCHANGED vars PROVE IInv'
<1> USE DEF vars, caches, local
<1>1. TypeOK' /\ RoomInv' /\ ApartInv' /\ OneLockPerObject' /\ FreeInv'
  BY DEF IInv, TypeOK, CacheHasRoom, SyncCacheItem, RoomInv, Searching, ApartInv,
         OneLockPerObject, FreeInv
<1>2. \A t \in Thread : Items(t)' = Items(t)
  BY DEF Items
<1>3. LockedInv' /\ CountInv'
  <2>1. \A d : Users(d)' = Users(d)
    BY <1>2 DEF Users
  <2> QED BY <1>2, <2>1 DEF IInv, LockedInv, CountInv
<1>4. WalkInv'
  BY DEF IInv, WalkInv
<1>5. CallInv'
  <2>1. \A t \in Thread : CallOf(t)
    BY DEF IInv, CallInv
  <2> SUFFICES ASSUME NEW t \in Thread PROVE CallOf(t)'
    BY DEF CallInv
  <2> QED BY <1>2, <2>1 DEF CallOf, Searching, For
<1>6. OwnerInv' /\ InsideInv'
  <2>1. \A t, d : Claim(t, d)' = Claim(t, d)
    BY DEF Claim
  <2> QED BY <1>2, <2>1 DEF IInv, OwnerInv, InsideInv
<1> QED BY <1>1, <1>3, <1>4, <1>5, <1>6 DEF IInv

\* The inductive invariant holds in every state of objc_sync_enter, objc_sync_try_enter
\* and objc_sync_exit.
THEOREM SpecIInv == Spec => []IInv
<1>1. IInv /\ [Next]_vars => IInv'
  <2> SUFFICES ASSUME IInv, [Next]_vars PROVE IInv'
    OBVIOUS
  <2>1. CASE Next
    <3>1. PICK t \in Thread : StepOf(t)
      BY <2>1, StepEffects
    <3>2. TypeOK' /\ RoomInv' /\ ApartInv' /\ LockedInv' /\ CountInv' /\ WalkInv'
      BY <3>1, TypeStep, LockedStep, CountStep, WalkStep
    <3>3. OneLockPerObject' /\ FreeInv' /\ CallInv' /\ OwnerInv' /\ InsideInv'
      BY <3>1, OneLockStep, CallStep, OwnerStep
    <3> QED BY <3>2, <3>3 DEF IInv
  <2>2. CASE UNCHANGED vars
    BY <2>2, StutterIInv
  <2> QED BY <2>1, <2>2
<1> QED BY <1>1, InitIInv, PTL DEF Spec

\* Every variable keeps its type: threadCount and lockCount are never negative, and
\* fetch_cache has made room before a SyncCacheItem is written.
THEOREM SpecTypeOK == Spec => []TypeOK
<1>1. IInv => TypeOK
  BY DEF IInv
<1> QED BY <1>1, SpecIInv, PTL

\* id2data does not reach "fastcache is buggy" nor "cache is buggy".
THEOREM SpecNotBuggy == Spec => []NotBuggy
<1>1. IInv => NotBuggy
  <2> SUFFICES ASSUME IInv, NEW t \in Thread, NEW item \in Items(t)
               PROVE  list[item.data].threadCount > 0 /\ item.lockCount > 0
    BY DEF NotBuggy
  <2> QED BY ItemKeeps DEF IInv, LockedInv
<1> QED BY <1>1, SpecIInv, PTL

\* id2data gives the SyncData a thread waits for to no other object.
THEOREM SpecWaitsForItsObject == Spec => []WaitsForItsObject
<1>1. IInv => WaitsForItsObject
  BY DEF IInv, CallInv, CallOf, For, WaitsForItsObject
<1> QED BY <1>1, SpecIInv, PTL

\* The SyncData by which a thread is inside an object is of that object, in use, and
\* locked as often as the thread has entered.
LEMMA HeldLock ==
  ASSUME IInv, NEW t \in Thread, NEW o \in Object, Holds(t, o)
  PROVE  \E d \in DOMAIN list :
           /\ list[d].object = o /\ list[d].threadCount > 0
           /\ list[d].owner = t /\ list[d].depth = inside[t][o]
<1>1. PICK d \in DOMAIN list : list[d].owner = t /\ Claim(t, d) = o
  BY DEF IInv, InsideInv, Holds
<1>2. /\ list[d].depth = inside[t][o] /\ list[d].depth > 0 /\ inside[t][o] \in Nat
      /\ \A e \in DOMAIN list : list[e].owner = t /\ Claim(t, e) = o => e = d
      /\ \/ pc[t] = "unlock" /\ data[t] = d
         \/ \E item \in Items(t) : item.data = d
  BY <1>1 DEF IInv, OwnerInv, TypeOK
<1>3. CASE pc[t] = "unlock" /\ data[t] = d
  <2>1. object[t] = o /\ inside[t][o] > 1
    BY <1>1, <1>2, <1>3 DEF Claim, Holds, Leaving
  <2>2. PICK item \in Items(t) : item.data = d /\ For(item, o)
    BY <1>3, <2>1 DEF IInv, CallInv, CallOf
  <2>3. list[d].object = o /\ list[d].threadCount > 0
    BY <2>2, ItemKeeps DEF IInv, For
  <2> QED BY <1>1, <1>2, <2>3
<1>4. CASE ~(pc[t] = "unlock" /\ data[t] = d)
  <2>1. list[d].object = o
    BY <1>1, <1>4 DEF Claim
  <2>2. PICK item \in Items(t) : item.data = d
    BY <1>2, <1>4
  <2>3. list[d].threadCount > 0
    BY <2>2, ItemKeeps DEF IInv
  <2> QED BY <1>1, <1>2, <2>1, <2>3
<1> QED BY <1>3, <1>4

\* While a thread is inside an object, there is one SyncData of the object, in use and
\* locked by that thread alone, whatever id2data reuses meanwhile.
THEOREM SpecLockKept == Spec => []LockKept
<1>1. IInv => LockKept
  BY HeldLock DEF IInv, LockKept
<1> QED BY <1>1, SpecIInv, PTL

\* objc_sync_enter lets one thread at a time into an object.
THEOREM SpecMutualExclusion == Spec => []MutualExclusion
<1>1. IInv => MutualExclusion
  <2> SUFFICES ASSUME IInv, NEW o \in Object, NEW t \in Thread, NEW u \in Thread,
                      Holds(t, o), Holds(u, o)
               PROVE  t = u
    BY DEF MutualExclusion
  <2>1. PICK d \in DOMAIN list : list[d].object = o /\ list[d].owner = t
    BY HeldLock
  <2>2. PICK e \in DOMAIN list : list[e].object = o /\ list[e].owner = u
    BY HeldLock
  <2>3. d = e
    BY <2>1, <2>2 DEF IInv, OneLockPerObject
  <2> QED BY <2>1, <2>2, <2>3
<1> QED BY <1>1, SpecIInv, PTL

\* objc_sync_exit reports OBJC_SYNC_NOT_OWNING_THREAD_ERROR to the threads that are not
\* inside, and to no other.
THEOREM SpecExitReportsOwnership == Spec => []ExitReportsOwnership
<1>1. IInv => ExitReportsOwnership
  <2> SUFFICES ASSUME IInv, NEW t \in Thread
               PROVE  /\ Searching(t) => inside[t][object[t]] = 0
                      /\ pc[t] = "unlock" =>
                           (list[data[t]].owner = t <=> inside[t][object[t]] > 0)
    BY DEF ExitReportsOwnership, Searching
  <2>1. ASSUME pc[t] = "unlock", list[data[t]].owner = t
        PROVE  inside[t][object[t]] > 0
    <3>1. data[t] \in DOMAIN list /\ Claim(t, data[t]) = object[t]
      BY <2>1 DEF IInv, CallInv, CallOf, TypeOK, Claim
    <3> QED BY <2>1, <3>1 DEF IInv, OwnerInv
  <2>2. ASSUME pc[t] = "unlock", inside[t][object[t]] > 0
        PROVE  list[data[t]].owner = t
    BY <2>2 DEF IInv, CallInv, CallOf
  <2> QED BY <2>1, <2>2, SearchingOutside
<1> QED BY <1>1, SpecIInv, PTL


--------------------------------------------------------------------------------
(* The counters are exact in a program without the misuses *)

\* The steps of a program that only leaves what it has entered, and tries nothing.
ProperStep(t) ==
  \/ \E o \in Object : Calls(t, o, "enter")
  \/ \E o \in Object : inside[t][o] > 0 /\ Calls(t, o, "exit")
  \/ ThreadExit(t) \/ TakeSpinlock(t) \/ Walk(t) \/ (\E d : EndsWith(t, d))
  \/ (Locks(t) /\ pc[t] = "lock") \/ Unlocks(t)

\* Without the misuses, no search is for an exit, and no exit finds another's mutex.
LEMMA ProperSteps ==
  ASSUME Misuse = {}, IInv, ExactInv, Next
  PROVE  \E t \in Thread : StepOf(t) /\ ProperStep(t)
<1>1. PICK t \in Thread :
        \/ \E o \in Object : Enter(t, o) \/ Exit(t, o)
        \/ ThreadExit(t) \/ Run(t)
  BY DEF Next, TryEnter, WrongExit
<1>2. ASSUME NEW o \in Object, Enter(t, o) PROVE StepOf(t) /\ ProperStep(t)
  <2>1. pc[t] = "idle" /\ Begin(t, o, "enter")
    BY <1>2 DEF Enter
  <2>2. CachesFit(SyncCacheItem) /\ Calls(t, o, "enter")
    BY <2>1, BeginEffect DEF IInv
  <2> QED BY <2>2 DEF StepOf, ProperStep
<1>3. ASSUME NEW o \in Object, Exit(t, o) PROVE StepOf(t) /\ ProperStep(t)
  <2>1. pc[t] = "idle" /\ Begin(t, o, "exit") /\ inside[t][o] > 0
    BY <1>3 DEF Exit
  <2>2. CachesFit(SyncCacheItem) /\ Calls(t, o, "exit")
    BY <2>1, BeginEffect DEF IInv
  <2> QED BY <2>1, <2>2 DEF StepOf, ProperStep
<1>4. CASE ThreadExit(t) \/ TakeSpinlock(t) \/ Walk(t)
  BY <1>4 DEF StepOf, ProperStep
<1>5. CASE Found(t) \/ NotFound(t)
  <2>1. call[t] = "enter"
    BY <1>5 DEF ExactInv, ProperCall, Searching, Found, NotFound
  <2>2. GivesUp(t) \/ \E d : EndsWith(t, d)
    BY <1>5, FoundEffect, NotFoundEffect
  <2> QED BY <2>1, <2>2 DEF GivesUp, StepOf, ProperStep
<1>6. CASE MutexLock(t)
  BY <1>6 DEF MutexLock, Locks, MutexStep, Finish, Goto, StepOf, ProperStep
<1>7. CASE MutexTryLock(t)
  BY <1>7 DEF MutexTryLock, ExactInv, ProperCall
<1>8. CASE MutexTryUnlock(t)
  <2>1. list[data[t]].owner = t
    BY <1>8 DEF MutexTryUnlock, ExactInv, ProperCall, IInv, CallInv, CallOf
  <2> QED BY <1>8, <2>1 DEF MutexTryUnlock, Unlocks, MutexStep, Finish, Goto, StepOf, ProperStep
<1> QED BY <1>1, <1>2, <1>3, <1>4, <1>5, <1>6, <1>7, <1>8 DEF Run

\* A thread that ends outside every lock has no item.
LEMMA NoItemLeft ==
  ASSUME IInv, ExactInv, NEW t \in Thread, ThreadExit(t) PROVE Items(t) = {}
<1>1. ASSUME NEW x \in Items(t) PROVE FALSE
  <2>1. x.data \in DOMAIN list /\ list[x.data].object \in Object /\ x.lockCount > 0
    BY ItemKeeps, Shape DEF IInv, LockedInv
  <2>2. inside[t][list[x.data].object] = 0 /\ pc[t] = "idle"
    BY <2>1 DEF ThreadExit
  <2>3. x.lockCount = 0 + 0
    BY <2>2 DEF ExactInv, ProperCall, UnderWay
  <2> QED BY <2>1, <2>3
<1> QED BY <1>1

\* threadCount stays the number of the threads that have an item.
LEMMA ThreadCountStep ==
  ASSUME IInv, ExactInv, NEW t \in Thread, StepOf(t), ProperStep(t)
  PROVE  ThreadCountExact'
<1>1. TypeOK /\ LockedInv /\ ApartInv /\ CountInv
      /\ \A d \in DOMAIN list : list[d].threadCount = Cardinality(Users(d))
  BY DEF IInv, ExactInv, ThreadCountExact, Users
<1> SUFFICES \A d \in DOMAIN list' : list'[d].threadCount = Cardinality(Users(d)')
  BY DEF ThreadCountExact, Users
<1>2. ASSUME NEW o \in Object, NEW c \in {"enter", "exit"}, Calls(t, o, c)
      PROVE  \A d \in DOMAIN list' : list'[d].threadCount = Cardinality(Users(d)')
  <2>1. CASE \A x \in Items(t) : ~For(x, o)
    <3>1. Missed(t, o)
      BY <1>2, <2>1 DEF Calls, Used
    <3>2. list' = list /\ \A d : Users(d)' = Users(d)
      BY <1>2, <3>1 DEF Calls, Missed, Users
    <3> QED BY <1>1, <3>2
  <2>2. ASSUME NEW x \in Items(t), Used(t, o, c, x), LocksKept,
               \A d \in DOMAIN list : list'[d].threadCount =
                 IF After(x, c) = 0 /\ d = x.data THEN list[d].threadCount - 1
                 ELSE list[d].threadCount
        PROVE  \A d \in DOMAIN list' : list'[d].threadCount = Cardinality(Users(d)')
    <3>1. \A d : d # x.data => Users(d)' = Users(d)
      BY <1>2, <2>2 DEF Calls, Used, Users
    <3>2. CASE After(x, c) # 0
      <4>1. Users(x.data)' = Users(x.data)
        <5>1. PICK y \in Items(t)' : y.data = x.data
          <6>1. [data |-> x.data, lockCount |-> After(x, c)] \in Items(t)'
            BY <2>2, <3>2 DEF Used
          <6>2. [data |-> x.data, lockCount |-> After(x, c)].data = x.data
            OBVIOUS
          <6> QED BY <6>1, <6>2
        <5>2. t \in Users(x.data)' /\ t \in Users(x.data)
          BY <5>1 DEF Users
        <5>3. \A u \in Thread \ {t} : u \in Users(x.data)' <=> u \in Users(x.data)
          BY <1>2 DEF Calls, Users
        <5>4. Users(x.data) \subseteq Thread /\ Users(x.data)' \subseteq Thread
          BY DEF Users
        <5> QED BY <5>2, <5>3, <5>4
      <4> QED BY <1>1, <2>2, <3>1, <3>2, <4>1 DEF LocksKept
    <3>3. CASE After(x, c) = 0
      <4>1. \A y \in Items(t)' : y.data # x.data
        BY <1>1, <2>2, <3>3, OneItem DEF Used
      <4>2. Users(x.data)' = Users(x.data) \ {t}
        BY <1>2, <4>1 DEF Calls, Users
      <4>3. t \in Users(x.data)
        BY DEF Users
      <4>4. Cardinality(Users(x.data)') = Cardinality(Users(x.data)) - 1
        BY <4>2, <4>3, UsersFinite, FS_RemoveElement
      <4> QED BY <1>1, <2>2, <3>1, <3>3, <4>4 DEF LocksKept
    <3> QED BY <3>2, <3>3
  <2>3. CASE ~ \A x \in Items(t) : ~For(x, o)
    <3>1. PICK x \in Items(t) :
            /\ Used(t, o, c, x) /\ LocksKept
            /\ \A d \in DOMAIN list : list'[d].threadCount =
                 IF After(x, c) = 0 /\ d = x.data THEN list[d].threadCount - 1
                 ELSE list[d].threadCount
      BY <1>2, <2>3, CallsList
    <3> QED BY <2>2, <3>1
  <2> QED BY <2>1, <2>3
<1>3. CASE ThreadExit(t)
  <2>1. list' = list /\ \A u \in Thread : Items(u)' = Items(u)
    BY <1>1, <1>3, ThreadExitItems, NoItemLeft DEF ThreadExit
  <2>2. \A d : Users(d)' = Users(d)
    BY <2>1 DEF Users
  <2> QED BY <1>1, <2>1, <2>2
<1>4. ASSUME NEW d0, EndsWith(t, d0)
      PROVE  \A d \in DOMAIN list' : list'[d].threadCount = Cardinality(Users(d)')
  <2>1. \A d : d # d0 => Users(d)' = Users(d)
    BY <1>4 DEF EndsWith, Saved, Users
  <2>2. Users(d0)' = Users(d0) \cup {t} /\ t \notin Users(d0)
    <3>1. \E y \in Items(t)' : y.data = d0
      <4>1. [data |-> d0, lockCount |-> 1] \in Items(t)' /\ [data |-> d0, lockCount |-> 1].data = d0
        BY <1>4 DEF EndsWith, Saved
      <4> QED BY <4>1
    <3>2. \A y \in Items(t) : y.data # d0
      BY <1>4 DEF EndsWith
    <3>3. t \in Users(d0)' /\ t \notin Users(d0)
      BY <3>1, <3>2 DEF Users
    <3>4. \A u \in Thread \ {t} : u \in Users(d0)' <=> u \in Users(d0)
      BY <1>4 DEF EndsWith, Saved, Users
    <3>5. Users(d0) \subseteq Thread /\ Users(d0)' \subseteq Thread
      BY DEF Users
    <3> QED BY <3>3, <3>4, <3>5
  <2>3. Cardinality(Users(d0)') = Cardinality(Users(d0)) + 1
    BY <2>2, UsersFinite, FS_AddElement
  <2>4. d0 \notin DOMAIN list => Cardinality(Users(d0)) = 0
    <3>1. d0 \notin DOMAIN list => Users(d0) = {}
      BY <1>1, ItemKeeps DEF Users
    <3> QED BY <3>1, FS_EmptySet
  <2>5. list'[d0].threadCount = Cardinality(Users(d0)')
    BY <1>1, <1>4, <2>3, <2>4 DEF EndsWith
  <2>6. \A d \in DOMAIN list \ {d0} : list'[d].threadCount = Cardinality(Users(d)')
    BY <1>1, <1>4, <2>1 DEF EndsWith
  <2> QED BY <1>4, <2>5, <2>6 DEF EndsWith
<1>5. CASE TakeSpinlock(t) \/ Walk(t) \/ Locks(t) \/ Unlocks(t)
  <2>1. DOMAIN list' = DOMAIN list /\ \A d \in DOMAIN list : list'[d].threadCount = list[d].threadCount
    <3>1. CASE Locks(t) \/ Unlocks(t)
      BY <3>1, MutexListStep
    <3>2. CASE TakeSpinlock(t) \/ Walk(t)
      BY <3>2 DEF TakeSpinlock, Walk
    <3> QED BY <1>5, <3>1, <3>2
  <2>2. \A d : Users(d)' = Users(d)
    BY <1>5, CachesSameStep
  <2> QED BY <1>1, <2>1, <2>2
<1> QED BY <1>2, <1>3, <1>4, <1>5 DEF ProperStep


\* lockCount stays the number of the enters that the thread has not left.
LEMMA ProperCallStep ==
  ASSUME IInv, ExactInv, NEW t \in Thread, StepOf(t), ProperStep(t)
  PROVE  \A u \in Thread : ProperCall(u)'
<1>1. TypeOK /\ LockedInv /\ ApartInv /\ CountInv /\ OneLockPerObject
  BY DEF IInv
<1>2. \A u \in Thread : \A x \in Items(u) :
        /\ list'[x.data].object = list[x.data].object
        /\ x.data \in DOMAIN list /\ list[x.data].object \in Object
  BY <1>1, ItemObjectStep, ItemKeeps, Shape
<1>3. ProperCall(t)
  BY DEF ExactInv
<1>4. ASSUME NEW u \in Thread \ {t} PROVE ProperCall(u)'
  <2>1. /\ pc'[u] = pc[u] /\ object'[u] = object[u] /\ data'[u] = data[u]
        /\ Items(u)' = Items(u) /\ \A o \in Object : inside'[u][o] = inside[u][o]
        /\ object[u] \in Object
    BY <1>1, OthersStep DEF TypeOK
  <2>2. call'[u] = call[u]
    BY <1>1 DEF ProperStep, Calls, ThreadExit, local, TakeSpinlock, Walk, EndsWith, Locks, Unlocks,
             MutexStep, TypeOK
  <2>3. ProperCall(u)
    BY DEF ExactInv
  <2>4. Searching(u)' <=> Searching(u)
    BY <2>1 DEF Searching
  <2>5. \A x \in Items(u) : For(x, object[u])' <=> For(x, object[u])
    BY <1>2, <2>1 DEF For
  <2>6. \A d : UnderWay(u, d)' = UnderWay(u, d)
    BY <2>1 DEF UnderWay
  <2>7. \A x \in Items(u) : inside'[u][list'[x.data].object] = inside[u][list[x.data].object]
    BY <1>2, <2>1
  <2> QED BY <2>1, <2>2, <2>3, <2>4, <2>5, <2>6, <2>7 DEF ProperCall, For
<1>5. ASSUME NEW o \in Object, NEW c \in {"enter", "exit"}, c = "exit" => inside[t][o] > 0,
             Calls(t, o, c)
      PROVE  ProperCall(t)'
  <2>1. /\ object'[t] = o /\ call'[t] = c /\ inside' = inside /\ pc[t] = "idle"
        /\ \A x \in Items(t) : x.lockCount = inside[t][list[x.data].object] + 0
    BY <1>1, <1>3, <1>5 DEF Calls, TypeOK, ProperCall, UnderWay
  <2>2. \A x \in Items(t) : inside[t][list[x.data].object] \in Nat
    BY <1>1, <1>2 DEF TypeOK
  <2>3. CASE Missed(t, o)
    <3>1. c = "enter"
      <4>1. inside[t][o] > 0 => \E x \in Items(t) : For(x, o)
        BY <2>1, InsideFacts
      <4> QED BY <1>5, <2>3, <4>1 DEF Missed
    <3>2. pc'[t] = "spin" /\ Items(t)' = Items(t) /\ list' = list
      BY <1>1, <2>3 DEF Missed, TypeOK
    <3> QED BY <2>1, <3>1, <3>2 DEF ProperCall, UnderWay
  <2>4. ASSUME NEW x \in Items(t), Used(t, o, c, x) PROVE ProperCall(t)'
    <3>1. /\ data'[t] = x.data /\ list[x.data].object = o
          /\ pc'[t] = IF c = "enter" THEN "lock" ELSE "unlock"
      BY <1>1, <2>4 DEF Used, For, TypeOK
    <3>2. \A y \in Items(t) : y # x => y.data # x.data /\ list[y.data].object # o
      BY <1>1, <1>2, <2>4, <3>1, OneItem DEF OneLockPerObject
    <3>3. x.lockCount = inside[t][o] /\ inside[t][o] \in Nat
      BY <2>1, <2>2, <3>1
    <3>4. ASSUME NEW y \in Items(t)'
          PROVE  \/ y \in Items(t) /\ y # x
                 \/ y.data = x.data /\ y.lockCount = After(x, c)
      <4>1. y \in Items(t) \ {x} \/ y = [data |-> x.data, lockCount |-> After(x, c)]
        BY <2>4, <3>4 DEF Used
      <4> QED BY <4>1
    <3>5. ASSUME NEW y \in Items(t)'
          PROVE  /\ list'[y.data].object = o <=> y.data = x.data
                 /\ y.lockCount = inside[t][list'[y.data].object]
                       + (IF y.data = x.data THEN (IF c = "enter" THEN 1 ELSE -1) ELSE 0)
      <4>1. CASE y \in Items(t) /\ y # x
        BY <1>2, <2>1, <2>2, <3>2, <4>1
      <4>2. CASE y.data = x.data /\ y.lockCount = After(x, c)
        BY <1>2, <3>1, <3>3, <4>2 DEF After
      <4> QED BY <3>4, <4>1, <4>2
    <3>6. \A d : UnderWay(t, d)' = IF d = x.data THEN (IF c = "enter" THEN 1 ELSE -1) ELSE 0
      BY <3>1 DEF UnderWay
    <3> QED BY <1>5, <2>1, <3>1, <3>5, <3>6 DEF ProperCall, For, Searching
  <2> QED BY <1>5, <2>3, <2>4 DEF Calls
<1>6. ASSUME ThreadExit(t) PROVE ProperCall(t)'
  <2>1. Items(t)' = {} /\ pc'[t] = "idle"
    BY <1>1, <1>6, ThreadExitItems DEF ThreadExit, local, TypeOK
  <2> QED BY <2>1 DEF ProperCall, Searching, UnderWay
<1>7. ASSUME TakeSpinlock(t) \/ Walk(t) PROVE ProperCall(t)'
  <2>1. /\ list' = list /\ call' = call /\ inside' = inside /\ pc'[t] = "walk" /\ Searching(t)
        /\ Items(t)' = Items(t) /\ pc[t] \in {"spin", "walk"}
    BY <1>1, <1>7, CachesSameStep DEF TakeSpinlock, Walk, Goto, Searching, CachesSame, TypeOK
  <2>2. \A d : UnderWay(t, d)' = 0 /\ UnderWay(t, d) = 0
    BY <2>1 DEF UnderWay
  <2>3. \A x \in Items(t) : x.lockCount = inside[t][list[x.data].object] + 0
    BY <1>3, <2>2 DEF ProperCall
  <2>4. call'[t] = "enter"
    BY <1>3, <2>1 DEF ProperCall
  <2> QED BY <2>1, <2>3, <2>4 DEF ProperCall, Searching, UnderWay
<1>8. ASSUME NEW d, EndsWith(t, d) PROVE ProperCall(t)'
  <2>1. /\ pc[t] = "walk" /\ call[t] = "enter"
    BY <1>3, <1>8 DEF ProperCall, Searching, EndsWith
  <2>2. /\ pc'[t] = "lock" /\ data'[t] = d /\ object' = object /\ inside' = inside
        /\ list'[d].object = object[t] /\ \A y \in Items(t) : y.data # d
        /\ Items(t)' = Items(t) \cup {[data |-> d, lockCount |-> 1]}
    BY <1>1, <1>8, <2>1 DEF EndsWith, Saved, TypeOK
  <2>3. inside[t][object[t]] = 0
    BY <2>1, SearchingOutside DEF Searching
  <2>4. \A y \in Items(t) : y.lockCount = inside[t][list[y.data].object] + 0
    BY <1>3, <2>1 DEF ProperCall, UnderWay
  <2>5. ASSUME NEW y \in Items(t)'
        PROVE  y.lockCount = inside[t][list'[y.data].object] + UnderWay(t, y.data)'
    <3>1. CASE y \in Items(t)
      <4>1. UnderWay(t, y.data)' = 0
        BY <2>2, <3>1 DEF UnderWay
      <4> QED BY <1>2, <2>4, <3>1, <4>1
    <3>2. CASE y = [data |-> d, lockCount |-> 1]
      <4>1. y.data = d /\ y.lockCount = 1
        BY <3>2
      <4> QED BY <2>2, <2>3, <4>1 DEF UnderWay
    <3> QED BY <2>2, <3>1, <3>2
  <2> QED BY <2>2, <2>5 DEF ProperCall, Searching
<1>9. ASSUME Locks(t) /\ pc[t] = "lock" PROVE ProperCall(t)'
  <2>1. /\ \A y \in Items(t) : list'[y.data].object = list[y.data].object
        /\ data[t] \in DOMAIN list /\ list[data[t]].object = object[t] /\ object[t] \in Object
        /\ inside'[t][object[t]] = inside[t][object[t]] + 1
        /\ \A o \in Object : o # object[t] => inside'[t][o] = inside[t][o]
        /\ Items(t)' = Items(t) /\ pc'[t] = "idle"
    <3>1. pc'[t] = "idle" /\ object[t] \in Object
      BY <1>1, <1>9 DEF Locks, MutexStep, Finish, TypeOK
    <3>2. CachesSame
      BY <1>9, MutexListStep
    <3> QED BY <1>2, <1>9, <3>1, <3>2, LocksEffect DEF CachesSame
  <2>2. ASSUME NEW y \in Items(t) PROVE y.lockCount = inside'[t][list[y.data].object]
    <3>1. y.lockCount = inside[t][list[y.data].object] + (IF y.data = data[t] THEN 1 ELSE 0)
      BY <1>3, <1>9 DEF ProperCall, UnderWay
    <3>2. y.data = data[t] <=> list[y.data].object = object[t]
      BY <1>1, <1>2, <2>1 DEF OneLockPerObject
    <3>3. inside[t][list[y.data].object] \in Nat
      BY <1>1, <1>2 DEF TypeOK
    <3> QED BY <1>2, <2>1, <3>1, <3>2, <3>3
  <2>3. \A y \in Items(t) : inside'[t][list[y.data].object] \in Int
    BY <1>1, <1>2, <1>9, LocksEffect
  <2>5. \A y \in Items(t)' : y.lockCount = inside'[t][list'[y.data].object] + 0
    BY <2>1, <2>2, <2>3
  <2> QED BY <2>1, <2>5 DEF ProperCall, Searching, UnderWay
<1>10. ASSUME Unlocks(t) PROVE ProperCall(t)'
  <2>1. /\ pc[t] = "unlock" /\ object[t] \in Object
        /\ inside'[t][object[t]] = inside[t][object[t]] - 1
        /\ \A o \in Object : o # object[t] => inside'[t][o] = inside[t][o]
        /\ Items(t)' = Items(t) /\ pc'[t] = "idle"
    <3>1. pc'[t] = "idle" /\ object[t] \in Object /\ pc[t] = "unlock"
      BY <1>1, <1>10 DEF Unlocks, MutexStep, Finish, TypeOK
    <3>2. CachesSame
      BY <1>10, MutexListStep
    <3> QED BY <1>10, <3>1, <3>2, UnlocksEffect DEF CachesSame
  <2>2. ASSUME NEW y \in Items(t) PROVE y.lockCount = inside'[t][list[y.data].object]
    <3>1. y.lockCount = inside[t][list[y.data].object] + (IF y.data = data[t] THEN -1 ELSE 0)
      BY <1>3, <2>1 DEF ProperCall, UnderWay
    <3>2. y.data = data[t] <=> list[y.data].object = object[t]
      BY <1>3, <2>1 DEF ProperCall, For
    <3>3. inside[t][list[y.data].object] \in Nat
      BY <1>1, <1>2 DEF TypeOK
    <3> QED BY <1>2, <2>1, <3>1, <3>2, <3>3
  <2>3. \A y \in Items(t) : inside'[t][list[y.data].object] \in Int
    BY <1>1, <1>2, <1>10, UnlocksEffect
  <2>5. \A y \in Items(t)' : y.lockCount = inside'[t][list'[y.data].object] + 0
    BY <1>2, <2>1, <2>2, <2>3
  <2> QED BY <2>1, <2>5 DEF ProperCall, Searching, UnderWay
<1> QED BY <1>4, <1>5, <1>6, <1>7, <1>8, <1>9, <1>10 DEF ProperStep

LEMMA InitExact == Init => ExactInv
<1> SUFFICES ASSUME Init PROVE ExactInv
  OBVIOUS
<1>1. DOMAIN list = {} /\ \A t \in Thread : pc[t] = "idle" /\ Items(t) = {}
  BY DEF Init, Items
<1> QED BY <1>1 DEF ExactInv, ThreadCountExact, ProperCall, Searching

LEMMA StutterExact == ASSUME ExactInv, UNCHANGED vars PROVE ExactInv'
<1> USE DEF vars, caches, local
<1>1. \A t \in Thread : Items(t)' = Items(t)
  BY DEF Items
<1>2. ThreadCountExact'
  BY <1>1 DEF ExactInv, ThreadCountExact
<1>3. ASSUME NEW t \in Thread PROVE ProperCall(t)'
  <2>1. ProperCall(t)
    BY DEF ExactInv
  <2>2. \A d : UnderWay(t, d)' = UnderWay(t, d)
    BY DEF UnderWay
  <2> QED BY <1>1, <2>1, <2>2 DEF ProperCall, Searching, For
<1> QED BY <1>2, <1>3 DEF ExactInv

\* threadCount and lockCount count what their comments say, in any program that calls no
\* objc_sync_try_enter and exits what it has entered; each misuse breaks it.
THEOREM SpecCountsExact ==
  ASSUME Misuse = {} PROVE Spec => []CountsExact
<1>1. ASSUME IInv, ExactInv, Next PROVE ExactInv'
  <2>1. PICK t \in Thread : StepOf(t) /\ ProperStep(t)
    BY <1>1, ProperSteps
  <2> QED BY <1>1, <2>1, ThreadCountStep, ProperCallStep DEF ExactInv
<1>2. IInv /\ ExactInv /\ [Next]_vars => ExactInv'
  BY <1>1, StutterExact
<1>3. ASSUME IInv, ExactInv PROVE CountsExact
  <2>1. ASSUME NEW t \in Thread, pc[t] = "idle", NEW o \in Object, inside[t][o] > 0
        PROVE  \E item \in Items(t) : For(item, o)
    BY <1>3, <2>1, InsideFacts
  <2>2. ASSUME NEW t \in Thread, pc[t] = "idle", NEW item \in Items(t)
        PROVE  inside[t][list[item.data].object] = item.lockCount
    <3>1. item.lockCount = inside[t][list[item.data].object] + 0
      BY <1>3, <2>2 DEF ExactInv, ProperCall, UnderWay
    <3>2. list[item.data].object \in Object
      BY <1>3, ItemKeeps, Shape DEF IInv
    <3>3. inside[t][list[item.data].object] \in Nat
      BY <1>3, <3>2 DEF IInv, TypeOK
    <3> QED BY <3>1, <3>3
  <2> QED BY <1>3, <2>1, <2>2 DEF CountsExact, LockCountExact, ExactInv
<1> QED BY <1>2, <1>3, InitExact, SpecIInv, PTL DEF Spec
================================================================================
