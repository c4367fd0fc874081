------------------------------ MODULE ObjcSyncInv ------------------------------
(***************************************************************************)
(* The inductive invariant of ObjcSync: what each thread may rely on, from *)
(* which the properties of @synchronized follow.                           *)
(***************************************************************************)
EXTENDS ObjcSync

\* The threads that have an item of SyncData d; threadCount counts at least these.
Users(d) == {t \in Thread : \E item \in Items(t) : item.data = d}

\* What t holds d for.  Between the decrement of threadCount and the unlock of its
\* exit, d may be given to another object.
Claim(t, d) == IF pc[t] = "unlock" /\ data[t] = d THEN object[t] ELSE list[d].object

\* The search of the list is under way, or about to start.
Searching(t) == pc[t] \in {"spin", "walk"}

\* While there is a search, the cache has room for what it will find.
RoomInv ==
  \A t \in Thread : Searching(t) => Len(cache[t]) < allocated[t] \/ allocated[t] = 0

\* No two items of a thread are of one SyncData.
ApartInv ==
  \A t \in Thread :
    /\ \A i \in DOMAIN cache[t] : fast[t] # NoItem => cache[t][i].data # fast[t].data
    /\ \A i, j \in DOMAIN cache[t] : cache[t][i].data = cache[t][j].data => i = j

LockedInv == \A t \in Thread : \A item \in Items(t) : item.lockCount > 0

CountInv == \A d \in DOMAIN list : list[d].threadCount >= Cardinality(Users(d))

\* The walk holds the spinlock; none it has passed is of its object, and the one it
\* will reuse is in no use.
WalkInv ==
  \A t \in Thread : pc[t] = "walk" =>
    /\ spinlock = t
    /\ \A d \in DOMAIN list : d > p[t] => list[d].object # object[t]
    /\ unused[t] # NULL => list[unused[t]].threadCount = 0

\* A thread searches for an object it has no item for; when it has one, the SyncData
\* stays with the object, and lockCount has counted the call.
CallOf(t) ==
  /\ Searching(t) => \A item \in Items(t) : ~For(item, object[t])
  /\ pc[t] \in {"lock", "trylock"} =>
       \E item \in Items(t) : /\ item.data = data[t] /\ For(item, object[t])
                              /\ item.lockCount > inside[t][object[t]]
  /\ pc[t] = "unlock" =>
       /\ data[t] # NULL
       /\ inside[t][object[t]] > 0 => list[data[t]].owner = t
       /\ inside[t][object[t]] > 1 =>
            \E item \in Items(t) : /\ item.data = data[t] /\ For(item, object[t])
                                   /\ item.lockCount + 1 >= inside[t][object[t]]

CallInv == \A t \in Thread : CallOf(t)

\* Who owns a mutex is inside the object as often as it is locked, by that mutex alone.
OwnerInv ==
  \A d \in DOMAIN list, t \in Thread : list[d].owner = t =>
    /\ list[d].depth > 0 /\ inside[t][Claim(t, d)] = list[d].depth
    /\ \A e \in DOMAIN list : list[e].owner = t /\ Claim(t, e) = Claim(t, d) => e = d
    /\ \/ pc[t] = "unlock" /\ data[t] = d
       \/ \E item \in Items(t) : item.data = d /\ item.lockCount >= list[d].depth

FreeInv == \A d \in DOMAIN list : list[d].owner = Nobody => list[d].depth = 0

InsideInv ==
  \A t \in Thread, o \in Object : inside[t][o] > 0 =>
    \E d \in DOMAIN list : list[d].owner = t /\ Claim(t, d) = o

IInv ==
  /\ TypeOK /\ RoomInv /\ ApartInv /\ LockedInv /\ CountInv /\ WalkInv /\ OneLockPerObject
  /\ CallInv /\ OwnerInv /\ FreeInv /\ InsideInv

\* What is exact while the program calls neither objc_sync_try_enter nor an exit of an
\* object it is not inside: lockCount is ahead of the enters by the call under way.
UnderWay(t, d) ==
  IF data[t] = d /\ pc[t] = "lock" THEN 1 ELSE IF data[t] = d /\ pc[t] = "unlock" THEN -1 ELSE 0

ProperCall(t) ==
  /\ pc[t] # "trylock" /\ (Searching(t) => call[t] = "enter")
  /\ pc[t] = "unlock" =>
       /\ inside[t][object[t]] > 0
       /\ \A item \in Items(t) : For(item, object[t]) <=> item.data = data[t]
  /\ \A item \in Items(t) :
       item.lockCount = inside[t][list[item.data].object] + UnderWay(t, item.data)

ExactInv == ThreadCountExact /\ \A t \in Thread : ProperCall(t)
================================================================================
