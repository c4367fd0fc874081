----------------------------- MODULE RefCountProofs -----------------------------
(***************************************************************************)
(* RefCount, proved for any number of threads, any number of references    *)
(* and any range of the packed count.                                      *)
(*                                                                         *)
(* IInv of RefCountInv is inductive: the lemmas <Conjunct>Step each show   *)
(* that one conjunct survives every action.  The properties of RefCount    *)
(* follow from it, and the refinement of StrongRef from it and the action. *)
(***************************************************************************)
EXTENDS RefCountInv, FiniteSetTheorems, TLAPS

\* The range of isa.extra_rc: what overflow keeps and what a borrow brings back fit.
LEMMA RangeFacts ==
  /\ RC_HALF \in Nat /\ RC_HALF >= 1
  /\ RC_MAX \in Nat /\ RC_MAX = 2 * RC_HALF - 1
  /\ {0, RC_HALF, RC_HALF - 1} \subseteq 0 .. RC_MAX
  BY RC_HALF_Assumption DEF RC_MAX

\* rootRetain moves RC_HALF at a time to the side table, rootRelease borrows RC_HALF
\* at a time: the count of a packed object there stays a multiple of RC_HALF.
LEMMA HalvesZero == Halves(0)
BY RangeFacts DEF Halves

LEMMA HalvesAdd ==
  ASSUME NEW n \in Nat, Halves(n) PROVE Halves(n + RC_HALF)
<1>1. PICK k \in 0 .. n : n = k * RC_HALF
  BY DEF Halves
<1>2. n + RC_HALF = (k + 1) * RC_HALF
  BY <1>1, RangeFacts
<1>3. k + 1 \in 0 .. (n + RC_HALF)
  BY RangeFacts
<1> QED BY <1>2, <1>3 DEF Halves

\* So a borrow from a count that is not zero never meets less than RC_HALF.
LEMMA HalvesSub ==
  ASSUME NEW n \in Nat, Halves(n), n # 0
  PROVE  n >= RC_HALF /\ Halves(n - RC_HALF)
<1>1. PICK k \in 0 .. n : n = k * RC_HALF
  BY DEF Halves
<1>2. k # 0
  BY <1>1, RangeFacts
<1>3. n - RC_HALF = (k - 1) * RC_HALF
  BY <1>1, RangeFacts
<1>4. (k - 1) * RC_HALF >= k - 1
  <2> DEFINE j == k - 1  h == RC_HALF - 1
  <2>1. j \in Nat /\ h \in Nat
    BY <1>2, RangeFacts
  <2>2. j * h \in Nat
    BY <2>1
  <2>3. j * (h + 1) = j * h + j
    BY <2>1
  <2> QED BY <2>1, <2>2, <2>3, RangeFacts
<1>5. k - 1 \in 0 .. (n - RC_HALF)
  BY <1>2, <1>3, <1>4, RangeFacts
<1> QED BY <1>2, <1>3, <1>4, <1>5, RangeFacts DEF Halves

\* The strong references, counted.
LEMMA OwnedFinite == IsFiniteSet(Owned) /\ Cardinality(Owned) \in Nat
<1>1. Owned \subseteq Ref  BY DEF Owned
<1> QED BY <1>1, RefAssumption, FS_Subset, FS_CardinalityType

LEMMA OwnedSome ==
  ASSUME NEW r \in Owned PROVE Cardinality(Owned) > 0
BY OwnedFinite, FS_EmptySet

LEMMA OwnedOne ==
  ASSUME NEW r \in Owned, Cardinality(Owned) = 1 PROVE Owned = {r}
<1>1. PICK x : Owned = {x}
  BY OwnedFinite, FS_Singleton
<1> QED BY <1>1

LEMMA OwnedTake ==
  ASSUME TypeOK, NEW r \in Ref, NEW t \in Thread, owner[r] = Nobody,
         owner' = [owner EXCEPT ![r] = t]
  PROVE  Owned' = Owned \cup {r} /\ Cardinality(Owned') = Cardinality(Owned) + 1
<1>1. Owned' = Owned \cup {r} /\ r \notin Owned
  BY NobodyAssumption DEF Owned, TypeOK
<1> QED BY <1>1, OwnedFinite, FS_AddElement

LEMMA OwnedGiveUp ==
  ASSUME TypeOK, NEW r \in Ref, NEW t \in Thread, owner[r] = t,
         owner' = [owner EXCEPT ![r] = Nobody]
  PROVE  Owned' = Owned \ {r} /\ Cardinality(Owned') = Cardinality(Owned) - 1
<1>1. Owned' = Owned \ {r} /\ r \in Owned
  BY NobodyAssumption DEF Owned, TypeOK
<1> QED BY <1>1, OwnedFinite, FS_RemoveElement

LEMMA CountTypes ==
  ASSUME TypeOK
  PROVE  isa.extra_rc \in Nat /\ side.rc \in Nat /\ InTransit \in Nat
<1>1. isa.extra_rc \in Nat /\ side.rc \in Nat /\ (sidelock # Nobody => old[sidelock].extra_rc \in Nat)
  BY RangeFacts DEF TypeOK, IsaWord, SideEntry
<1> QED BY <1>1, RangeFacts DEF InTransit

\* A reference to a deallocating object is counted: releasing it does not find the
\* isa word and the side table empty.
LEMMA DeallocatingIsCounted ==
  ASSUME IInv, NEW t \in Thread, pc[t] = "release_load",
         Packed, "deallocating" \in isa.bits, isa.extra_rc = 0
  PROVE  /\ "has_sidetable_rc" \in isa.bits
         /\ sidelock = t => side.rc > 0
<1>1. arg[t] \in Owned /\ memory = "object" /\ TypeOK
  BY NobodyAssumption DEF IInv, RefInv, ReleaseWork, LifeInv, Owned
<1>2. disposer # Nobody
  BY <1>1 DEF IInv, MarkInv, Deallocating
<1>3. side.rc + InTransit > 0
  <2>1. isa.extra_rc + side.rc + InTransit = Cardinality(Owned)
    BY <1>1, <1>2, CountTypes DEF IInv, Conservation
  <2> QED BY <1>1, <2>1, OwnedSome, CountTypes
<1>4. "has_sidetable_rc" \in isa.bits
  <2> SUFFICES ASSUME "has_sidetable_rc" \notin isa.bits PROVE FALSE
    OBVIOUS
  <2>1. side.rc = 0
    BY <1>1 DEF IInv, WordInv, NoEntry
  <2>2. InTransit = 0
    BY <1>1 DEF InTransit, Carrying, IInv, OldInv, TypeOK
  <2> QED BY <1>3, <2>1, <2>2
<1>5. sidelock = t => InTransit = 0
  BY NobodyAssumption DEF InTransit, Carrying
<1> QED BY <1>1, <1>3, <1>4, <1>5, CountTypes

\* rootRelease is not about to report an over-release.
LEMMA NotOverreleased == IInv => NoOverrelease
BY DEF IInv, OldInv, NoOverrelease, Overreleased

\* The store of rootRelease that sets the deallocating bit gives up the only reference.
LEMMA LastReleaseIsa ==
  ASSUME IInv, NEW t \in Thread, pc[t] = "release_dealloc", isa = old[t]
  PROVE  /\ isa.extra_rc = 0 /\ side.rc = 0 /\ InTransit = 0 /\ disposer = Nobody
         /\ "deallocating" \notin isa.bits
         /\ Owned = {arg[t]} /\ arg[t] \in Ref /\ owner[arg[t]] = t /\ memory = "object"
<1>1. arg[t] \in Ref /\ owner[arg[t]] = t /\ arg[t] \in Owned
  BY NobodyAssumption DEF IInv, RefInv, ReleaseWork, Owned
<1>2. memory = "object"
  BY DEF IInv, LifeInv, TypeOK
<1>3. isa.extra_rc = 0 /\ Packed
  BY DEF IInv, OldInv, Packed
<1>4. side.rc = 0 /\ ("has_sidetable_rc" \in isa.bits => sidelock = t)
  BY <1>2, <1>3 DEF IInv, OldInv, WordInv, NoEntry
<1>5. InTransit = 0
  BY <1>2, <1>3, <1>4 DEF IInv, InTransit, OldInv, Carrying, TypeOK
<1>6. (IF disposer = Nobody THEN 1 ELSE 0) = Cardinality(Owned)
  BY <1>2, <1>3, <1>4, <1>5, OwnedFinite DEF IInv, Conservation
<1>7. disposer = Nobody /\ Cardinality(Owned) = 1
  BY <1>1, <1>6, OwnedSome
<1>8. Owned = {arg[t]}
  BY <1>1, <1>7, OwnedOne
<1>9. "deallocating" \notin isa.bits
  BY <1>2, <1>7 DEF IInv, MarkInv, Deallocating
<1> QED BY <1>1, <1>2, <1>3, <1>4, <1>5, <1>7, <1>8, <1>9

LEMMA DeallocStore ==
  ASSUME IInv, NEW t \in Thread, ReleaseDealloc(t)
  PROVE  /\ pc[t] = "release_dealloc" /\ isa = old[t]
         /\ isa'.bits = isa.bits \cup {"deallocating"} /\ isa'.extra_rc = 0
         /\ disposer' = t
         /\ owner' = [owner EXCEPT ![arg[t]] = Nobody]
         /\ pc' = [pc EXCEPT ![t] = pc'[t]] /\ pc'[t] \in {"idle", "unlock"}
         /\ UNCHANGED <<side, sidelock, location, memory, old, arg, mode>>
         /\ isa.extra_rc = 0 /\ side.rc = 0 /\ InTransit = 0 /\ disposer = Nobody
         /\ "deallocating" \notin isa.bits
         /\ Owned = {arg[t]} /\ arg[t] \in Ref /\ owner[arg[t]] = t /\ memory = "object"
<1>1. /\ pc[t] = "release_dealloc" /\ isa = old[t]
      /\ isa' = [isa EXCEPT !.bits = @ \cup {"deallocating"}]
      /\ disposer' = t
      /\ owner' = [owner EXCEPT ![arg[t]] = Nobody]
      /\ UNCHANGED <<side, sidelock, location, memory, old, arg, mode>>
  BY NotOverreleased DEF NoOverrelease, ReleaseDealloc, GiveUp
<1>2. pc' = [pc EXCEPT ![t] = pc'[t]] /\ pc'[t] \in {"idle", "unlock"}
  BY DEF ReleaseDealloc, Finish, Goto, IInv, TypeOK
<1>3. isa'.bits = isa.bits \cup {"deallocating"} /\ isa'.extra_rc = isa.extra_rc
  BY <1>1 DEF IInv, TypeOK, IsaWord
<1> QED BY <1>1, <1>2, <1>3, LastReleaseIsa

\* sidetable_release sets the deallocating bit for the only reference and no other.
LEMMA LastReleaseSide ==
  ASSUME IInv, NEW t \in Thread, pc[t] = "release_side", sidelock = Nobody
  PROVE  /\ isa.extra_rc = 0 /\ InTransit = 0
         /\ arg[t] \in Ref /\ owner[arg[t]] = t /\ memory = "object"
         /\ "deallocating" \in side.bits => side.rc > 0
         /\ "deallocating" \notin side.bits /\ side.rc = 0
              => disposer = Nobody /\ Owned = {arg[t]}
         /\ disposer = Nobody => "deallocating" \notin side.bits
<1>1. arg[t] \in Ref /\ owner[arg[t]] = t /\ arg[t] \in Owned
  BY NobodyAssumption DEF IInv, RefInv, ReleaseWork, Owned
<1>2. memory = "object"
  BY DEF IInv, LifeInv, TypeOK
<1>3. isa = RawIsa /\ isa.extra_rc = 0 /\ side.rc \in Nat
  BY DEF IInv, OldInv, WordInv, RawIsa, TypeOK, SideEntry
<1>4. InTransit = 0
  BY DEF InTransit
<1>5. side.rc + (IF disposer = Nobody THEN 1 ELSE 0) = Cardinality(Owned)
  BY <1>2, <1>3, <1>4, OwnedFinite DEF IInv, Conservation
<1>6. disposer # Nobody => pc[disposer] # "free"
  BY <1>1 DEF IInv, LifeInv, TypeOK
<1>7. disposer # Nobody <=> "deallocating" \in side.bits
  BY <1>2, <1>3, <1>6 DEF IInv, MarkInv, Deallocating, RawIsa
<1>8. Cardinality(Owned) > 0
  BY <1>1, OwnedSome
<1>9. CASE "deallocating" \in side.bits
  BY <1>1, <1>2, <1>3, <1>4, <1>5, <1>7, <1>8, <1>9
<1>10. CASE "deallocating" \notin side.bits
  BY <1>1, <1>2, <1>3, <1>4, <1>5, <1>7, <1>8, <1>10, OwnedOne
<1> QED BY <1>9, <1>10

\* An object some thread uses is not being cleared or freed.
LEMMA NotDisposed ==
  ASSUME IInv, NEW t \in Thread,
         Uses(t), pc[t] \notin {"clear", "free"}
  PROVE  \A u \in Thread : pc[u] \notin {"clear", "free"}
<1>1. ASSUME NEW u \in Thread, pc[u] \in {"clear", "free"} PROVE FALSE
  <2>1. disposer = u /\ Owned = {}
    BY <1>1 DEF IInv, LifeInv
  <2>2. t # u
    BY <1>1
  <2> QED BY <2>1, <2>2, NobodyAssumption DEF Uses, Owned
<1> QED BY <1>1

\* The bit that rootRetain(tryRetain) and rootIsDeallocating read tells a live object.
LEMMA LiveIsa ==
  ASSUME IInv, memory = "object", Packed, "deallocating" \notin isa.bits,
         \A u \in Thread : pc[u] # "free"
  PROVE  disposer = Nobody
<1>1. "deallocating" \notin side.bits
  BY DEF IInv, WordInv
<1>2. sidelock # Nobody => pc[sidelock] # "change_move"
  BY DEF IInv, OldInv, TypeOK
<1> QED BY <1>1, <1>2 DEF IInv, MarkInv, Deallocating, TypeOK

\* The same for the bit in the side table, once no changeIsa is moving it there.
LEMMA LiveSide ==
  ASSUME IInv, memory = "object", ~Packed, "deallocating" \notin side.bits,
         sidelock # Nobody => pc[sidelock] # "change_move",
         \A u \in Thread : pc[u] # "free"
  PROVE  disposer = Nobody
<1>1. "deallocating" \notin isa.bits
  BY DEF IInv, WordInv, RawIsa
<1> QED BY <1>1 DEF IInv, MarkInv, Deallocating, TypeOK

\* The store that counts a new reference: the object is still there, and a load of
\* the weak variable has found it alive.
LEMMA RetainCommits ==
  ASSUME IInv, NEW t \in Thread,
         \/ pc[t] = "retain_store" /\ isa = old[t]
         \/ /\ pc[t] = "retain_side"
            /\ "tryRetain" \in mode[t] => "deallocating" \notin side.bits
  PROVE  /\ arg[t] \in Ref /\ owner[arg[t]] = Nobody /\ memory = "object"
         /\ \A u \in Thread : pc[u] \notin {"clear", "free"}
         /\ "tryRetain" \in mode[t] => disposer = Nobody
<1>1. arg[t] \in Ref /\ owner[arg[t]] = Nobody /\ memory = "object"
  BY DEF IInv, RefInv, RetainLabel, LifeInv
<1>2. CASE "tryRetain" \notin mode[t]
  <2>1. Uses(t)
    BY <1>2 DEF IInv, RefInv, RetainWork, RetainLabel
  <2> QED BY <1>1, <1>2, <2>1, NotDisposed
<1>3. CASE "tryRetain" \in mode[t]
  <2>1. \A u \in Thread : pc[u] # "free"
    BY <1>3 DEF IInv, TryInv, WeakInv, RetainWork, RetainLabel
  <2>2. sidelock = t
    BY <1>3 DEF IInv, TryInv, RetainWork, RetainLabel
  <2>3. disposer = Nobody
    <3>1. CASE pc[t] = "retain_store" /\ isa = old[t]
      BY <1>1, <1>3, <2>1, <3>1, LiveIsa DEF IInv, OldInv, Packed
    <3>2. CASE pc[t] = "retain_side"
      BY <1>1, <1>3, <2>1, <2>2, <3>2, LiveSide DEF IInv, OldInv
    <3> QED BY <3>1, <3>2
  <2>4. \A u \in Thread : pc[u] # "clear"
    BY <2>3, NobodyAssumption DEF IInv, LifeInv
  <2> QED BY <1>1, <2>1, <2>3, <2>4
<1> QED BY <1>2, <1>3

\* A release under way still owns its reference.
LEMMA OwnerNotDisposed ==
  ASSUME IInv, NEW t \in Thread, pc[t] \in ReleaseWork \cup {"retain_move"}
  PROVE  \A u \in Thread : pc[u] \notin {"clear", "free"}
<1>1. Uses(t)
  BY DEF IInv, RefInv, Uses
<1> QED BY <1>1, NotDisposed DEF ReleaseWork

\* What the stores of rootRetain and rootRelease leave as it was.
LEMMA StoreKeeps ==
  ASSUME TypeOK, NEW t \in Thread,
         RetainStore(t) \/ ReleaseStore(t) \/ ReleasePut(t) \/ ReleasePut2(t)
  PROVE  /\ \A b \in {"nonpointer", "deallocating", "weakly_referenced"} :
              b \in isa'.bits <=> b \in isa.bits
         /\ isa.bits \subseteq isa'.bits
         /\ UNCHANGED <<side, sidelock, location, memory, disposer, old, arg, mode>>
         /\ isa = old[t]
         /\ pc[t] \in {"retain_store", "release_store", "release_put", "release_put2"}
         /\ pc' = [pc EXCEPT ![t] = pc'[t]]
         /\ pc'[t] \in {"idle", "unlock", "retain_move"}
BY DEF TypeOK, IsaWord, RetainStore, ReleaseStore, ReleasePut, ReleasePut2, StoreBorrowed, Goto, Finish

\* What the side table operations of rootRetain and rootRelease leave as it was.
LEMMA SideKeeps ==
  ASSUME TypeOK, NEW t \in Thread,
         RetainMove(t) \/ ReleasePutBack(t) \/ ReleaseBorrow(t) \/ RetainSide(t)
  PROVE  /\ \A b \in {"deallocating", "weakly_referenced"} :
              b \in side'.bits <=> b \in side.bits
         /\ UNCHANGED <<isa, sidelock, location, memory, disposer, old, arg, mode>>
         /\ pc[t] \in {"retain_move", "release_putback", "release_borrow", "retain_side"}
         /\ pc' = [pc EXCEPT ![t] = pc'[t]]
         /\ pc'[t] \in {"idle", "unlock", "release_load", "release_dealloc", "release_put"}
BY DEF TypeOK, SideEntry, RetainMove, ReleasePutBack, ReleaseBorrow, RetainSide,
       addExtraRC, subExtraRC, Goto, Finish, program

\* The asserted conditions follow from the inductive invariant.
LEMMA AssertsHoldLemma == IInv => AssertsHold
<1> SUFFICES ASSUME IInv, NEW t \in Thread PROVE AssertsHold!(t)
  BY DEF AssertsHold
<1> USE NobodyAssumption
    DEF IInv, TypeOK, LifeInv, OldInv, WordInv, RefInv, Carrying, ReleaseWork
<1>1. pc[t] \in {"retain_move", "release_borrow", "release_putback"}
        => Packed /\ memory = "object" /\ side.bits \subseteq {"present"}
  OBVIOUS
<1>2. pc[t] = "release_borrow" => side.rc = 0 \/ side.rc >= RC_HALF
  BY <1>1, HalvesSub DEF SideEntry
<1>3. pc[t] \in {"retain_side", "release_side", "change_move"} => ~Packed
  OBVIOUS
<1>4. pc[t] = "release_side" /\ sidelock = Nobody /\ "deallocating" \in side.bits
        => side.rc > 0
  BY LastReleaseSide
<1>5. pc[t] = "change_move" => side.bits \subseteq {"present"}
  OBVIOUS
<1> QED BY <1>1, <1>2, <1>3, <1>4, <1>5

\* Every step preserves every conjunct of the inductive invariant.
LEMMA TypeStep == ASSUME IInv, [Next]_vars PROVE TypeOK'
<1> USE NobodyAssumption, RangeFacts
    DEF TypeOK, Label, Goto, Finish, LoadExclusive, Lock, object, program
<1>0. TypeOK
  BY DEF IInv
<1>1. CASE UNCHANGED vars
  BY <1>0, <1>1 DEF vars
<1>2. ASSUME NEW t \in Thread, Begin(t) PROVE TypeOK'
  <2>1. ASSUME NEW r \in Ref, Alloc(t, r) PROVE TypeOK'
    BY <1>0, <2>1 DEF Alloc, IsaWord, PackedIsa, RawIsa
  <2>2. ASSUME NEW r \in Ref, NEW u \in Thread \ {t}, Pass(t, u, r) PROVE TypeOK'
    BY <1>0, <2>2 DEF Pass
  <2>3. ASSUME NEW r \in Ref, Retain(t, r) \/ Release(t, r) \/ LoadWeak(t, r) PROVE TypeOK'
    BY <1>0, <2>3 DEF Retain, Release, LoadWeak, Reserve
  <2>4. CASE ChangeIsa(t) \/ StoreWeak(t) \/ StoreWeakNil(t)
    BY <1>0, <2>4 DEF ChangeIsa, StoreWeak, StoreWeakNil
  <2> QED BY <1>2, <2>1, <2>2, <2>3, <2>4 DEF Begin
<1>3. ASSUME NEW t \in Thread, StoreExclusiveFails(t) PROVE TypeOK'
  BY <1>0, <1>3 DEF StoreExclusiveFails, Retry
<1>4. ASSUME NEW t \in Thread, Store(t) PROVE TypeOK'
  <2>1. isa' \in IsaWord
    <3>1. CASE RetainStore(t)
      <4>1. CASE RetainOverflows(t)
        BY <1>0, <3>1, <4>1 DEF RetainStore, IsaWord
      <4>2. CASE ~RetainOverflows(t)
        <5>1. isa.extra_rc \in 0 .. RC_MAX /\ isa.extra_rc # RC_MAX
          BY <1>0, <3>1, <4>2 DEF RetainStore, RetainOverflows, IsaWord
        <5>2. isa.extra_rc + 1 \in 0 .. RC_MAX
          BY <5>1
        <5> QED BY <1>0, <3>1, <4>2, <5>2 DEF RetainStore, IsaWord
      <4> QED BY <4>1, <4>2
    <3>2. CASE ReleaseStore(t)
      BY <1>0, <3>2 DEF ReleaseStore, IsaWord, IInv, OldInv
    <3>3. CASE ReleasePut(t)
      BY <1>0, <3>3 DEF ReleasePut, StoreBorrowed, IsaWord
    <3>4. CASE ReleasePut2(t)
      BY <1>0, <3>4 DEF ReleasePut2, StoreBorrowed, IsaWord, IInv, OldInv
    <3>5. CASE ReleaseDealloc(t) \/ MarkStore(t)
      BY <1>0, <3>5 DEF ReleaseDealloc, MarkStore, IsaWord
    <3>6. CASE ChangeStore(t)
      BY <1>0, <3>6 DEF ChangeStore, RawIsa, IsaWord
    <3> QED BY <1>4, <3>1, <3>2, <3>3, <3>4, <3>5, <3>6 DEF Store
  <2>2. CASE RetainStore(t) \/ ReleaseStore(t) \/ ReleasePut(t) \/ ReleasePut2(t)
    BY <1>0, <2>1, <2>2 DEF RetainStore, ReleaseStore, ReleasePut, ReleasePut2, StoreBorrowed, Take, GiveUp
  <2>3. CASE ReleaseDealloc(t) \/ ChangeStore(t) \/ MarkStore(t)
    BY <1>0, <2>1, <2>3 DEF ReleaseDealloc, ChangeStore, MarkStore, GiveUp
  <2> QED BY <1>4, <2>2, <2>3 DEF Store
<1>5. ASSUME NEW t \in Thread, Run(t) PROVE TypeOK'
  <2>1. CASE RetainLoad(t) \/ ReleaseLoad(t)
    BY <1>0, <2>1 DEF RetainLoad, ReleaseLoad
  <2>2. CASE ReleaseReload(t) \/ ChangeLoad(t)
    BY <1>0, <2>2 DEF ReleaseReload, ChangeLoad
  <2>3. CASE RetainLock(t) \/ ReleaseLock(t) \/ ChangeLock(t) \/ LoadWeakLock(t)
             \/ StoreWeakLock(t)
    BY <1>0, <2>3 DEF RetainLock, ReleaseLock, ChangeLock, LoadWeakLock, StoreWeakLock
  <2>4. CASE RetainMove(t) \/ ReleasePutBack(t) \/ ChangeMove(t)
    <3>1. side' \in SideEntry
      BY <1>0, <2>4 DEF RetainMove, ReleasePutBack, ChangeMove, addExtraRC, moveExtraRC,
                        SideEntry, IsaWord
    <3> QED BY <1>0, <2>4, <3>1 DEF RetainMove, ReleasePutBack, ChangeMove
  <2>5. CASE ReleaseBorrow(t)
    <3>1. side.rc = 0 \/ side.rc >= RC_HALF
      BY <2>5, AssertsHoldLemma DEF AssertsHold, ReleaseBorrow
    <3>2. side' \in SideEntry
      BY <1>0, <2>5, <3>1 DEF ReleaseBorrow, subExtraRC, SideEntry
    <3> QED BY <1>0, <2>5, <3>2 DEF ReleaseBorrow
  <2>6. CASE RetainSide(t)
    BY <1>0, <2>6 DEF RetainSide, addExtraRC, SideEntry, Take
  <2>7. CASE ReleaseSide(t)
    <3>1. "deallocating" \in side.bits => side.rc > 0
      BY <2>7, LastReleaseSide DEF ReleaseSide
    <3>2. side' \in SideEntry
      BY <1>0, <2>7, <3>1 DEF ReleaseSide, subExtraRC, SideEntry
    <3> QED BY <1>0, <2>7, <3>2 DEF ReleaseSide, GiveUp
  <2>8. CASE MarkLoad(t) \/ MarkDone(t)
    BY <1>0, <2>8 DEF MarkLoad, MarkDone, SideEntry
  <2>9. CASE RootDealloc(t) \/ ClearDeallocating(t) \/ Free(t) \/ Unlock(t)
    BY <1>0, <2>9 DEF RootDealloc, ClearDeallocating, Free, Unlock, NoEntry, SideEntry
  <2> QED BY <1>5, <2>1, <2>2, <2>3, <2>4, <2>5, <2>6, <2>7, <2>8, <2>9 DEF Run
<1> QED BY <1>1, <1>2, <1>3, <1>4, <1>5 DEF Next

LEMMA LockStep == ASSUME IInv, [Next]_vars PROVE LockInv'
<1> USE NobodyAssumption
    DEF IInv, TypeOK, LockInv, TryInv, OldInv, HoldsLock, MayHoldLock, Carrying, RetainWork,
        RetainLabel, Goto, Finish, LoadExclusive, Lock, object, program
<1>1. CASE UNCHANGED vars
  BY <1>1 DEF vars
<1>2. ASSUME NEW t \in Thread, Begin(t) PROVE LockInv'
  <2>1. ASSUME NEW r \in Ref, NEW u \in Thread, Alloc(t, r) \/ Pass(t, u, r) PROVE LockInv'
    BY <2>1 DEF Alloc, Pass
  <2>2. ASSUME NEW r \in Ref, Retain(t, r) \/ Release(t, r) \/ LoadWeak(t, r) PROVE LockInv'
    BY <2>2 DEF Retain, Release, LoadWeak
  <2>3. CASE ChangeIsa(t) \/ StoreWeak(t) \/ StoreWeakNil(t)
    BY <2>3 DEF ChangeIsa, StoreWeak, StoreWeakNil
  <2> QED BY <1>2, <2>1, <2>2, <2>3 DEF Begin
<1>3. ASSUME NEW t \in Thread, StoreExclusiveFails(t) PROVE LockInv'
  BY <1>3 DEF StoreExclusiveFails, Retry
<1>4. ASSUME NEW t \in Thread, Store(t) PROVE LockInv'
  BY <1>4 DEF Store, RetainStore, RetainOverflows, ReleaseStore, ReleasePut, ReleasePut2, StoreBorrowed,
              ReleaseDealloc, ChangeStore, MarkStore
<1>5. ASSUME NEW t \in Thread, Run(t) PROVE LockInv'
  <2>1. CASE RetainLoad(t) \/ ReleaseLoad(t) \/ ReleaseReload(t) \/ ChangeLoad(t)
    BY <2>1 DEF RetainLoad, ReleaseLoad, ReleaseReload, ChangeLoad
  <2>2. CASE RetainLock(t) \/ ReleaseLock(t) \/ ChangeLock(t) \/ LoadWeakLock(t)
             \/ StoreWeakLock(t)
    BY <2>2 DEF RetainLock, ReleaseLock, ChangeLock, LoadWeakLock, StoreWeakLock
  <2>3. CASE RetainMove(t) \/ ReleasePutBack(t) \/ ReleaseBorrow(t) \/ RetainSide(t)
    BY <2>3, SideKeeps DEF RetainMove, ReleasePutBack, ReleaseBorrow, RetainSide
  <2>4. CASE ChangeMove(t) \/ MarkLoad(t) \/ MarkDone(t) \/ ReleaseSide(t)
    BY <2>4 DEF ChangeMove, MarkLoad, MarkDone, ReleaseSide
  <2>5. CASE RootDealloc(t) \/ ClearDeallocating(t) \/ Free(t) \/ Unlock(t)
    BY <2>5 DEF RootDealloc, ClearDeallocating, Free, Unlock
  <2> QED BY <1>5, <2>1, <2>2, <2>3, <2>4, <2>5 DEF Run
<1> QED BY <1>1, <1>2, <1>3, <1>4, <1>5 DEF Next

LEMMA RefStep == ASSUME IInv, [Next]_vars PROVE RefInv'
<1> USE NobodyAssumption
    DEF IInv, TypeOK, RefInv, TryInv, RetainLabel, RetainWork, ReleaseWork, ChangeWork,
        MarkWork, Uses, Goto, Finish, LoadExclusive, Lock, object, program
<1>1. CASE UNCHANGED vars
  BY <1>1 DEF vars
<1>2. ASSUME NEW t \in Thread, Begin(t) PROVE RefInv'
  <2>1. ASSUME NEW r \in Ref, Alloc(t, r) PROVE RefInv'
    BY <2>1 DEF Alloc, Vacant
  <2>2. ASSUME NEW r \in Ref, NEW u \in Thread \ {t}, Pass(t, u, r) PROVE RefInv'
    BY <2>2 DEF Pass
  <2>3. ASSUME NEW r \in Ref, Retain(t, r) PROVE RefInv'
    BY <2>3 DEF Retain, Reserve, Vacant
  <2>4. ASSUME NEW r \in Ref, Release(t, r) PROVE RefInv'
    BY <2>4 DEF Release
  <2>5. ASSUME NEW r \in Ref, LoadWeak(t, r) PROVE RefInv'
    BY <2>5 DEF LoadWeak, Reserve, Vacant
  <2>6. CASE ChangeIsa(t) \/ StoreWeak(t) \/ StoreWeakNil(t)
    BY <2>6 DEF ChangeIsa, StoreWeak, StoreWeakNil
  <2> QED BY <1>2, <2>1, <2>2, <2>3, <2>4, <2>5, <2>6 DEF Begin
<1>3. ASSUME NEW t \in Thread, StoreExclusiveFails(t) PROVE RefInv'
  BY <1>3 DEF StoreExclusiveFails, Retry
<1>4. ASSUME NEW t \in Thread, Store(t) PROVE RefInv'
  <2>1. CASE RetainStore(t)
    BY <2>1 DEF RetainStore, Take, Distinct, IInv
  <2>2. CASE ReleaseStore(t) \/ ReleasePut(t) \/ ReleasePut2(t)
    BY <2>2 DEF ReleaseStore, ReleasePut, ReleasePut2, StoreBorrowed, GiveUp
  <2>3. CASE ReleaseDealloc(t)
    <3>1. Owned = {arg[t]} /\ disposer = Nobody
      BY <2>3, DeallocStore
    <3> QED BY <2>3, <3>1 DEF ReleaseDealloc, GiveUp, Owned
  <2>4. CASE ChangeStore(t) \/ MarkStore(t)
    BY <2>4 DEF ChangeStore, MarkStore
  <2> QED BY <1>4, <2>1, <2>2, <2>3, <2>4 DEF Store
<1>5. ASSUME NEW t \in Thread, Run(t) PROVE RefInv'
  <2>1. CASE RetainLoad(t) \/ ReleaseLoad(t) \/ ReleaseReload(t) \/ ChangeLoad(t)
    BY <2>1 DEF RetainLoad, ReleaseLoad, ReleaseReload, ChangeLoad
  <2>2. CASE RetainLock(t) \/ ReleaseLock(t) \/ ChangeLock(t) \/ LoadWeakLock(t)
             \/ StoreWeakLock(t)
    BY <2>2 DEF RetainLock, ReleaseLock, ChangeLock, LoadWeakLock, StoreWeakLock, TryInv
  <2>3. CASE RetainMove(t) \/ ReleasePutBack(t) \/ ChangeMove(t) \/ MarkLoad(t)
             \/ ReleaseBorrow(t)
    BY <2>3 DEF RetainMove, ReleasePutBack, ChangeMove, MarkLoad, ReleaseBorrow
  <2>4. CASE RetainSide(t)
    BY <2>4 DEF RetainSide, Take, Distinct, IInv
  <2>5. CASE ReleaseSide(t)
    <3>1. "deallocating" \notin side.bits /\ side.rc = 0
           => Owned = {arg[t]} /\ disposer = Nobody
      BY <2>5, LastReleaseSide DEF ReleaseSide
    <3> QED BY <2>5, <3>1 DEF ReleaseSide, GiveUp, Owned
  <2>6. CASE MarkDone(t) \/ RootDealloc(t) \/ ClearDeallocating(t) \/ Unlock(t)
    BY <2>6 DEF MarkDone, RootDealloc, ClearDeallocating, Unlock
  <2>7. CASE Free(t)
    BY <2>7 DEF Free, LifeInv, Owned, IInv
  <2> QED BY <1>5, <2>1, <2>2, <2>3, <2>4, <2>5, <2>6, <2>7 DEF Run
<1> QED BY <1>1, <1>2, <1>3, <1>4, <1>5 DEF Next

LEMMA DistinctStep == ASSUME IInv, [Next]_vars PROVE Distinct'
<1> USE NobodyAssumption
    DEF IInv, TypeOK, Distinct, RetainLabel, Goto, Finish, LoadExclusive, Lock, object, program
<1>1. CASE UNCHANGED vars
  BY <1>1 DEF vars
<1>2. ASSUME NEW t \in Thread, Begin(t) PROVE Distinct'
  <2>1. ASSUME NEW r \in Ref, NEW u \in Thread, Alloc(t, r) \/ Pass(t, u, r) \/ Release(t, r)
        PROVE  Distinct'
    BY <2>1 DEF Alloc, Pass, Release
  <2>3. ASSUME NEW r \in Ref, Retain(t, r) PROVE Distinct'
    BY <2>3 DEF Retain, Reserve, Vacant
  <2>5. ASSUME NEW r \in Ref, LoadWeak(t, r) PROVE Distinct'
    BY <2>5 DEF LoadWeak, Reserve, Vacant
  <2>6. CASE ChangeIsa(t) \/ StoreWeak(t) \/ StoreWeakNil(t)
    BY <2>6 DEF ChangeIsa, StoreWeak, StoreWeakNil
  <2> QED BY <1>2, <2>1, <2>3, <2>5, <2>6 DEF Begin
<1>3. ASSUME NEW t \in Thread, StoreExclusiveFails(t) PROVE Distinct'
  BY <1>3 DEF StoreExclusiveFails, Retry
<1>4. ASSUME NEW t \in Thread, Store(t) PROVE Distinct'
  BY <1>4 DEF Store, RetainStore, ReleaseStore, ReleasePut, ReleasePut2, StoreBorrowed, ReleaseDealloc,
              ChangeStore, MarkStore
<1>5. ASSUME NEW t \in Thread, Run(t) PROVE Distinct'
  <2>1. CASE RetainLoad(t) \/ ReleaseLoad(t) \/ ReleaseReload(t) \/ ChangeLoad(t)
    BY <2>1 DEF RetainLoad, ReleaseLoad, ReleaseReload, ChangeLoad
  <2>2. CASE RetainLock(t) \/ ReleaseLock(t) \/ ChangeLock(t) \/ LoadWeakLock(t)
             \/ StoreWeakLock(t)
    BY <2>2 DEF RetainLock, ReleaseLock, ChangeLock, LoadWeakLock, StoreWeakLock
  <2>3. CASE RetainMove(t) \/ ReleasePutBack(t) \/ ChangeMove(t) \/ MarkLoad(t)
             \/ ReleaseBorrow(t)
    BY <2>3 DEF RetainMove, ReleasePutBack, ChangeMove, MarkLoad, ReleaseBorrow
  <2>4. CASE RetainSide(t) \/ ReleaseSide(t)
    BY <2>4 DEF RetainSide, ReleaseSide
  <2>6. CASE MarkDone(t) \/ RootDealloc(t) \/ ClearDeallocating(t) \/ Unlock(t) \/ Free(t)
    BY <2>6 DEF MarkDone, RootDealloc, ClearDeallocating, Unlock, Free
  <2> QED BY <1>5, <2>1, <2>2, <2>3, <2>4, <2>6 DEF Run
<1> QED BY <1>1, <1>2, <1>3, <1>4, <1>5 DEF Next

LEMMA TryStep == ASSUME IInv, [Next]_vars PROVE TryInv'
<1> USE NobodyAssumption
    DEF IInv, TypeOK, TryInv, LockInv, RetainLabel, RetainWork, HoldsLock, MayHoldLock,
        Carrying, Goto, Finish, LoadExclusive, Lock, object, program
<1>1. CASE UNCHANGED vars
  BY <1>1 DEF vars
<1>2. ASSUME NEW t \in Thread, Begin(t) PROVE TryInv'
  <2>1. ASSUME NEW r \in Ref, Alloc(t, r) PROVE TryInv'
    BY <2>1, OwnedTake DEF Alloc, Vacant, PackedIsa, RawIsa
  <2>2. ASSUME NEW r \in Ref, NEW u \in Thread \ {t}, Pass(t, u, r) PROVE TryInv'
    BY <2>2 DEF Pass
  <2>3. ASSUME NEW r \in Ref, Retain(t, r) \/ Release(t, r) \/ LoadWeak(t, r) PROVE TryInv'
    BY <2>3 DEF Retain, Reserve, Vacant, Release, LoadWeak
  <2>4. CASE ChangeIsa(t) \/ StoreWeak(t) \/ StoreWeakNil(t)
    BY <2>4 DEF ChangeIsa, StoreWeak, StoreWeakNil
  <2> QED BY <1>2, <2>1, <2>2, <2>3, <2>4 DEF Begin
<1>3. ASSUME NEW t \in Thread, StoreExclusiveFails(t) PROVE TryInv'
  BY <1>3 DEF StoreExclusiveFails, Retry
<1>4. ASSUME NEW t \in Thread, Store(t) PROVE TryInv'
  <2>1. CASE RetainStore(t)
    BY <2>1 DEF RetainStore, Take
  <2>2. CASE ReleaseStore(t) \/ ReleasePut(t) \/ ReleasePut2(t)
    BY <2>2 DEF ReleaseStore, ReleasePut, ReleasePut2, StoreBorrowed, GiveUp
  <2>3. CASE ReleaseDealloc(t)
    BY <2>3, DeallocStore
  <2>4. CASE ChangeStore(t) \/ MarkStore(t)
    BY <2>4 DEF ChangeStore, MarkStore
  <2> QED BY <1>4, <2>1, <2>2, <2>3, <2>4 DEF Store
<1>5. ASSUME NEW t \in Thread, Run(t) PROVE TryInv'
  <2>1. CASE RetainLoad(t) \/ ReleaseLoad(t) \/ ReleaseReload(t) \/ ChangeLoad(t)
    BY <2>1 DEF RetainLoad, ReleaseLoad, ReleaseReload, ChangeLoad
  <2>2. CASE RetainLock(t) \/ ReleaseLock(t) \/ ChangeLock(t) \/ LoadWeakLock(t)
             \/ StoreWeakLock(t)
    BY <2>2 DEF RetainLock, ReleaseLock, ChangeLock, LoadWeakLock, StoreWeakLock
  <2>3. CASE RetainMove(t) \/ ReleasePutBack(t) \/ ChangeMove(t) \/ MarkLoad(t)
             \/ ReleaseBorrow(t)
    BY <2>3 DEF RetainMove, ReleasePutBack, ChangeMove, MarkLoad, ReleaseBorrow
  <2>4. CASE RetainSide(t)
    BY <2>4 DEF RetainSide, Take
  <2>5. CASE ReleaseSide(t)
    BY <2>5, LastReleaseSide DEF ReleaseSide, GiveUp
  <2>6. CASE MarkDone(t) \/ RootDealloc(t) \/ ClearDeallocating(t) \/ Unlock(t)
    BY <2>6 DEF MarkDone, RootDealloc, ClearDeallocating, Unlock
  <2>7. CASE Free(t)
    BY <2>7 DEF Free
  <2> QED BY <1>5, <2>1, <2>2, <2>3, <2>4, <2>5, <2>6, <2>7 DEF Run
<1> QED BY <1>1, <1>2, <1>3, <1>4, <1>5 DEF Next

LEMMA LifeStep == ASSUME IInv, [Next]_vars PROVE LifeInv'
<1> USE NobodyAssumption
    DEF IInv, TypeOK, LifeInv, RefInv, TryInv, WeakInv, Owned, Uses, Label, RetainLabel,
        RetainWork, ReleaseWork, ChangeWork, MarkWork, Goto, Finish, LoadExclusive, Lock,
        object, program
<1>1. CASE UNCHANGED vars
  BY <1>1 DEF vars
<1>2. ASSUME NEW t \in Thread, Begin(t) PROVE LifeInv'
  <2>1. ASSUME NEW r \in Ref, Alloc(t, r) PROVE LifeInv'
    BY <2>1, OwnedTake DEF Alloc, Vacant, PackedIsa, RawIsa
  <2>2. ASSUME NEW r \in Ref, NEW u \in Thread \ {t}, Pass(t, u, r) PROVE LifeInv'
    BY <2>2 DEF Pass
  <2>3. ASSUME NEW r \in Ref, Retain(t, r) \/ Release(t, r) \/ LoadWeak(t, r) PROVE LifeInv'
    BY <2>3 DEF Retain, Reserve, Vacant, Release, LoadWeak
  <2>4. CASE ChangeIsa(t) \/ StoreWeak(t) \/ StoreWeakNil(t)
    BY <2>4 DEF ChangeIsa, StoreWeak, StoreWeakNil
  <2> QED BY <1>2, <2>1, <2>2, <2>3, <2>4 DEF Begin
<1>3. ASSUME NEW t \in Thread, StoreExclusiveFails(t) PROVE LifeInv'
  BY <1>3 DEF StoreExclusiveFails, Retry
<1>4. ASSUME NEW t \in Thread, Store(t) PROVE LifeInv'
  <2>1. CASE RetainStore(t)
    <3>1. arg[t] \in Ref /\ memory = "object"
          /\ \A u \in Thread : pc[u] \notin {"clear", "free"}
      BY <2>1, RetainCommits DEF RetainStore
    <3> QED BY <2>1, <3>1 DEF RetainStore, Take
  <2>2. CASE ReleaseStore(t) \/ ReleasePut(t) \/ ReleasePut2(t)
    BY <2>2 DEF ReleaseStore, ReleasePut, ReleasePut2, StoreBorrowed, GiveUp
  <2>3. CASE ReleaseDealloc(t)
    BY <2>3, DeallocStore
  <2>4. CASE ChangeStore(t) \/ MarkStore(t)
    BY <2>4 DEF ChangeStore, MarkStore
  <2> QED BY <1>4, <2>1, <2>2, <2>3, <2>4 DEF Store
<1>5. ASSUME NEW t \in Thread, Run(t) PROVE LifeInv'
  <2>1. CASE RetainLoad(t) \/ ReleaseLoad(t) \/ ReleaseReload(t) \/ ChangeLoad(t)
    BY <2>1 DEF RetainLoad, ReleaseLoad, ReleaseReload, ChangeLoad
  <2>2. CASE RetainLock(t) \/ ReleaseLock(t) \/ ChangeLock(t) \/ LoadWeakLock(t)
    BY <2>2 DEF RetainLock, ReleaseLock, ChangeLock, LoadWeakLock
  <2>8. CASE StoreWeakLock(t)
    <3>1. memory = "object" /\ \A u \in Thread : pc[u] \notin {"clear", "free"}
      BY <2>8, NotDisposed DEF StoreWeakLock
    <3>2. ~rootIsDeallocating => disposer = Nobody
      BY <2>8, <3>1, LiveIsa, LiveSide DEF StoreWeakLock, rootIsDeallocating
    <3> QED BY <2>8, <3>1, <3>2 DEF StoreWeakLock
  <2>3. CASE RetainMove(t) \/ ReleasePutBack(t) \/ ChangeMove(t) \/ MarkLoad(t)
             \/ ReleaseBorrow(t)
    BY <2>3 DEF RetainMove, ReleasePutBack, ChangeMove, MarkLoad, ReleaseBorrow
  <2>4. CASE RetainSide(t)
    <3>1. CASE "tryRetain" \in mode[t] /\ "deallocating" \in side.bits
      BY <2>4, <3>1 DEF RetainSide
    <3>2. CASE ~("tryRetain" \in mode[t] /\ "deallocating" \in side.bits)
      <4>1. arg[t] \in Ref /\ memory = "object"
            /\ \A u \in Thread : pc[u] \notin {"clear", "free"}
        BY <2>4, <3>2, RetainCommits DEF RetainSide
      <4> QED BY <2>4, <3>2, <4>1 DEF RetainSide, Take
    <3> QED BY <3>1, <3>2
  <2>5. CASE ReleaseSide(t)
    BY <2>5, LastReleaseSide DEF ReleaseSide, GiveUp
  <2>6. CASE MarkDone(t) \/ RootDealloc(t) \/ ClearDeallocating(t) \/ Unlock(t)
    BY <2>6 DEF MarkDone, RootDealloc, ClearDeallocating, Unlock
  <2>7. CASE Free(t)
    BY <2>7 DEF Free
  <2> QED BY <1>5, <2>1, <2>2, <2>3, <2>4, <2>5, <2>6, <2>7, <2>8 DEF Run
<1> QED BY <1>1, <1>2, <1>3, <1>4, <1>5 DEF Next

LEMMA WeakStep == ASSUME IInv, [Next]_vars PROVE WeakInv'
<1> USE NobodyAssumption
    DEF IInv, TypeOK, WeakInv, WeakBit, LifeInv, LockInv, WordInv, OldInv, RefInv, HoldsLock,
        MayHoldLock, Carrying, MarkWork, Packed, Uses, Owned, Goto, Finish, LoadExclusive, Lock,
        object, program
<1>1. CASE UNCHANGED vars
  BY <1>1 DEF vars
<1>2. ASSUME NEW t \in Thread, Begin(t) PROVE WeakInv'
  <2>1. ASSUME NEW r \in Ref, Alloc(t, r) PROVE WeakInv'
    BY <2>1, OwnedTake DEF Alloc, Vacant, PackedIsa, RawIsa
  <2>2. ASSUME NEW r \in Ref, NEW u \in Thread \ {t}, Pass(t, u, r) PROVE WeakInv'
    BY <2>2 DEF Pass
  <2>3. ASSUME NEW r \in Ref, Retain(t, r) \/ Release(t, r) \/ LoadWeak(t, r) PROVE WeakInv'
    BY <2>3 DEF Retain, Reserve, Vacant, Release, LoadWeak
  <2>4. CASE ChangeIsa(t) \/ StoreWeak(t) \/ StoreWeakNil(t)
    BY <2>4 DEF ChangeIsa, StoreWeak, StoreWeakNil
  <2> QED BY <1>2, <2>1, <2>2, <2>3, <2>4 DEF Begin
<1>3. ASSUME NEW t \in Thread, StoreExclusiveFails(t) PROVE WeakInv'
  BY <1>3 DEF StoreExclusiveFails, Retry
<1>4. ASSUME NEW t \in Thread, Store(t) PROVE WeakInv'
  <2>1. CASE RetainStore(t) \/ ReleaseStore(t) \/ ReleasePut(t) \/ ReleasePut2(t)
    BY <2>1, StoreKeeps
  <2>3. CASE ReleaseDealloc(t)
    BY <2>3, DeallocStore
  <2>4. CASE ChangeStore(t)
    BY <2>4 DEF ChangeStore
  <2>5. CASE MarkStore(t)
    BY <2>5 DEF MarkStore
  <2> QED BY <1>4, <2>1, <2>3, <2>4, <2>5 DEF Store
<1>5. ASSUME NEW t \in Thread, Run(t) PROVE WeakInv'
  <2>1. CASE RetainLoad(t) \/ ReleaseLoad(t) \/ ReleaseReload(t) \/ ChangeLoad(t)
    BY <2>1 DEF RetainLoad, ReleaseLoad, ReleaseReload, ChangeLoad
  <2>2. CASE RetainLock(t) \/ ReleaseLock(t) \/ ChangeLock(t) \/ LoadWeakLock(t)
             \/ StoreWeakLock(t)
    BY <2>2 DEF RetainLock, ReleaseLock, ChangeLock, LoadWeakLock, StoreWeakLock
  <2>3. CASE RetainMove(t) \/ ReleasePutBack(t) \/ ReleaseBorrow(t) \/ RetainSide(t)
    BY <2>3, SideKeeps
  <2>4. CASE ChangeMove(t)
    BY <2>4 DEF ChangeMove, moveExtraRC, SideEntry
  <2>8. CASE MarkLoad(t)
    BY <2>8 DEF MarkLoad, SideEntry
  <2>5. CASE ReleaseSide(t)
    BY <2>5, LastReleaseSide DEF ReleaseSide, GiveUp, subExtraRC, SideEntry
  <2>6. CASE MarkDone(t) \/ Unlock(t)
    BY <2>6 DEF MarkDone, Unlock
  <2>9. CASE RootDealloc(t)
    BY <2>9 DEF RootDealloc
  <2>10. CASE ClearDeallocating(t)
    <3>1. location = "object"
            => "weakly_referenced" \in (IF Packed THEN isa.bits ELSE side.bits)
      BY <2>10 DEF ClearDeallocating, RawIsa
    <3>2. location' = "nil"
      BY <2>10, <3>1 DEF ClearDeallocating
    <3>3. \A u \in Thread : pc[u] # "mark_done"
      BY <2>10 DEF ClearDeallocating
    <3> QED BY <2>10, <3>2, <3>3 DEF ClearDeallocating
  <2>7. CASE Free(t)
    BY <2>7 DEF Free
  <2> QED BY <1>5, <2>1, <2>2, <2>3, <2>4, <2>5, <2>6, <2>7, <2>8, <2>9, <2>10 DEF Run
<1> QED BY <1>1, <1>2, <1>3, <1>4, <1>5 DEF Next

LEMMA WordStep == ASSUME IInv, [Next]_vars PROVE WordInv'
<1> USE NobodyAssumption
    DEF IInv, TypeOK, WordInv, Packed, NoEntry, OldInv, LockInv, LifeInv, HoldsLock,
        MayHoldLock, Carrying, Goto, Finish, LoadExclusive, Lock, object, program
<1>1. CASE UNCHANGED vars
  BY <1>1 DEF vars
<1>2. ASSUME NEW t \in Thread, Begin(t) PROVE WordInv'
  <2>1. ASSUME NEW r \in Ref, Alloc(t, r) PROVE WordInv'
    BY <2>1, HalvesZero DEF Alloc, PackedIsa, RawIsa
  <2>2. ASSUME NEW r \in Ref, NEW u \in Thread \ {t}, Pass(t, u, r) PROVE WordInv'
    BY <2>2 DEF Pass
  <2>3. ASSUME NEW r \in Ref, Retain(t, r) \/ Release(t, r) \/ LoadWeak(t, r) PROVE WordInv'
    BY <2>3 DEF Retain, Reserve, Vacant, Release, LoadWeak
  <2>4. CASE ChangeIsa(t) \/ StoreWeak(t) \/ StoreWeakNil(t)
    BY <2>4 DEF ChangeIsa, StoreWeak, StoreWeakNil
  <2> QED BY <1>2, <2>1, <2>2, <2>3, <2>4 DEF Begin
<1>3. ASSUME NEW t \in Thread, StoreExclusiveFails(t) PROVE WordInv'
  BY <1>3 DEF StoreExclusiveFails, Retry
<1>4. ASSUME NEW t \in Thread, Store(t) PROVE WordInv'
  <2>1. CASE RetainStore(t) \/ ReleaseStore(t) \/ ReleasePut(t) \/ ReleasePut2(t)
    BY <2>1, StoreKeeps
  <2>3. CASE ReleaseDealloc(t)
    BY <2>3, DeallocStore
  <2>4. CASE ChangeStore(t)
    BY <2>4 DEF ChangeStore, RawIsa
  <2>5. CASE MarkStore(t)
    BY <2>5 DEF MarkStore, IsaWord
  <2> QED BY <1>4, <2>1, <2>3, <2>4, <2>5 DEF Store
<1>5. ASSUME NEW t \in Thread, Run(t) PROVE WordInv'
  <2>1. CASE RetainLoad(t) \/ ReleaseLoad(t) \/ ReleaseReload(t) \/ ChangeLoad(t)
    BY <2>1 DEF RetainLoad, ReleaseLoad, ReleaseReload, ChangeLoad
  <2>2. CASE RetainLock(t) \/ ReleaseLock(t) \/ ChangeLock(t) \/ LoadWeakLock(t)
             \/ StoreWeakLock(t)
    BY <2>2 DEF RetainLock, ReleaseLock, ChangeLock, LoadWeakLock, StoreWeakLock
  <2>3. CASE RetainMove(t) \/ ReleasePutBack(t)
    <3>1. memory = "object" /\ \A u \in Thread : pc[u] # "free"
      BY <2>3, OwnerNotDisposed DEF RetainMove, ReleasePutBack, ReleaseWork, LifeInv
    <3>2. Halves(side.rc + RC_HALF)
      BY <2>3, <3>1, HalvesAdd DEF RetainMove, ReleasePutBack, SideEntry
    <3> QED BY <2>3, <3>1, <3>2 DEF RetainMove, ReleasePutBack, addExtraRC
  <2>8. CASE ReleaseBorrow(t)
    <3>1. memory = "object" /\ \A u \in Thread : pc[u] # "free"
      BY <2>8, OwnerNotDisposed DEF ReleaseBorrow, ReleaseWork, LifeInv
    <3>2. side.rc # 0 => Halves(side.rc - RC_HALF)
      BY <2>8, <3>1, HalvesSub DEF ReleaseBorrow, SideEntry
    <3> QED BY <2>8, <3>1, <3>2 DEF ReleaseBorrow, subExtraRC, SideEntry
  <2>4. CASE RetainSide(t)
    <3>1. CASE "tryRetain" \in mode[t] /\ "deallocating" \in side.bits
      BY <2>4, <3>1 DEF RetainSide
    <3>2. CASE ~("tryRetain" \in mode[t] /\ "deallocating" \in side.bits)
      <4>1. memory = "object" /\ \A u \in Thread : pc[u] \notin {"clear", "free"}
        BY <2>4, <3>2, RetainCommits DEF RetainSide
      <4> QED BY <2>4, <3>2, <4>1 DEF RetainSide, addExtraRC
    <3> QED BY <3>1, <3>2
  <2>9. CASE ChangeMove(t) \/ MarkLoad(t)
    <3>1. memory = "object" /\ \A u \in Thread : pc[u] \notin {"clear", "free"}
      BY <2>9, NotDisposed DEF ChangeMove, MarkLoad, LifeInv, RefInv, ChangeWork, MarkWork
    <3> QED BY <2>9, <3>1 DEF ChangeMove, MarkLoad, moveExtraRC
  <2>5. CASE ReleaseSide(t)
    <3>1. memory = "object" /\ \A u \in Thread : pc[u] # "free"
      BY <2>5, OwnerNotDisposed DEF ReleaseSide, ReleaseWork, LifeInv
    <3> QED BY <2>5, <3>1 DEF ReleaseSide, subExtraRC
  <2>6. CASE MarkDone(t) \/ Unlock(t)
    BY <2>6 DEF MarkDone, Unlock
  <2>10. CASE RootDealloc(t)
    BY <2>10 DEF RootDealloc
  <2>11. CASE ClearDeallocating(t)
    BY <2>11, HalvesZero DEF ClearDeallocating
  <2>7. CASE Free(t)
    BY <2>7 DEF Free
  <2> QED BY <1>5, <2>1, <2>2, <2>3, <2>4, <2>5, <2>6, <2>7, <2>8, <2>9,
           <2>10, <2>11 DEF Run
<1> QED BY <1>1, <1>2, <1>3, <1>4, <1>5 DEF Next

LEMMA OldStep == ASSUME IInv, [Next]_vars PROVE OldInv'
<1> USE NobodyAssumption
    DEF IInv, TypeOK, OldInv, Packed, LockInv, TryInv, WordInv, HoldsLock, MayHoldLock,
        Carrying, RetainWork, RetainLabel, Goto, Finish, LoadExclusive, Lock, object, program
<1>1. CASE UNCHANGED vars
  BY <1>1 DEF vars
<1>2. ASSUME NEW t \in Thread, Begin(t) PROVE OldInv'
  <2>1. ASSUME NEW r \in Ref, Alloc(t, r) PROVE OldInv'
    <3>1. \A u \in Thread : pc[u] \in {"idle", "unlock", "weak_lock"}
      BY <2>1 DEF Alloc, LifeInv
    <3> QED BY <2>1, <3>1 DEF Alloc
  <2>2. ASSUME NEW r \in Ref, NEW u \in Thread \ {t}, Pass(t, u, r) PROVE OldInv'
    BY <2>2 DEF Pass
  <2>3. ASSUME NEW r \in Ref, Retain(t, r) \/ Release(t, r) \/ LoadWeak(t, r) PROVE OldInv'
    BY <2>3 DEF Retain, Reserve, Vacant, Release, LoadWeak
  <2>4. CASE ChangeIsa(t) \/ StoreWeak(t) \/ StoreWeakNil(t)
    BY <2>4 DEF ChangeIsa, StoreWeak, StoreWeakNil
  <2> QED BY <1>2, <2>1, <2>2, <2>3, <2>4 DEF Begin
<1>3. ASSUME NEW t \in Thread, StoreExclusiveFails(t) PROVE OldInv'
  BY <1>3 DEF StoreExclusiveFails, Retry
<1>4. ASSUME NEW t \in Thread, Store(t) PROVE OldInv'
  <2>1. CASE RetainStore(t)
    <3>1. pc'[t] = "retain_move" => Packed' /\ "has_sidetable_rc" \in isa'.bits
      BY <2>1 DEF RetainStore
    <3> QED BY <2>1, <3>1, StoreKeeps
  <2>2. CASE ReleaseStore(t) \/ ReleasePut(t) \/ ReleasePut2(t)
    <3>1. pc'[t] # "retain_move"
      BY <2>2 DEF ReleaseStore, ReleasePut, ReleasePut2, StoreBorrowed
    <3> QED BY <2>2, <3>1, StoreKeeps
  <2>3. CASE ReleaseDealloc(t)
    BY <2>3, DeallocStore
  <2>4. CASE ChangeStore(t)
    <3>1. sidelock = t /\ memory = "object" /\ Packed
      BY <2>4 DEF ChangeStore, LifeInv
    <3>2. ~Packed'
      BY <2>4 DEF ChangeStore, RawIsa
    <3> QED BY <2>4, <3>1, <3>2 DEF ChangeStore
  <2>5. CASE MarkStore(t)
    BY <2>5 DEF MarkStore
  <2> QED BY <1>4, <2>1, <2>2, <2>3, <2>4, <2>5 DEF Store
<1>5. ASSUME NEW t \in Thread, Run(t) PROVE OldInv'
  <2>1. CASE RetainLoad(t)
    BY <2>1 DEF RetainLoad
  <2>8. CASE ReleaseLoad(t)
    <3>1. /\ old' = [old EXCEPT ![t] = isa] /\ pc' = [pc EXCEPT ![t] = pc'[t]]
          /\ isa' = isa /\ side' = side
          /\ \A u \in Thread \ {t} : mode'[u] = mode[u] /\ (sidelock' = u <=> sidelock = u)
      BY <2>8 DEF ReleaseLoad
    <3>2. CASE pc'[t] = "release_side"
      BY <2>8, <3>1, <3>2 DEF ReleaseLoad
    <3>3. CASE pc'[t] = "release_store"
      <4>1. Packed /\ isa.extra_rc > 0
        BY <2>8, <3>3 DEF ReleaseLoad, IsaWord
      <4> QED BY <3>1, <3>3, <4>1
    <3>4. CASE pc'[t] = "release_dealloc"
      <4>1. Packed /\ isa.extra_rc = 0 /\ "has_sidetable_rc" \notin isa.bits
        BY <2>8, <3>4 DEF ReleaseLoad, IsaWord
      <4>2. "deallocating" \notin isa.bits
        BY <2>8, <4>1, DeallocatingIsCounted DEF ReleaseLoad
      <4> QED BY <3>1, <3>4, <4>1, <4>2
    <3>5. CASE pc'[t] = "release_borrow"
      <4>1. /\ Packed /\ isa.extra_rc = 0 /\ "has_sidetable_rc" \in isa.bits
            /\ sidelock = t
        BY <2>8, <3>5 DEF ReleaseLoad, IsaWord
      <4>2. "deallocating" \in isa.bits => side.rc > 0
        BY <2>8, <4>1, DeallocatingIsCounted DEF ReleaseLoad
      <4> QED BY <3>1, <3>5, <4>1, <4>2
    <3>6. CASE pc'[t] \in {"release_lock", "release_load"}
      BY <3>1, <3>6
    <3> QED BY <2>8, <3>2, <3>3, <3>4, <3>5, <3>6 DEF ReleaseLoad
  <2>9. CASE ReleaseReload(t) \/ ChangeLoad(t)
    BY <2>9 DEF ReleaseReload, ChangeLoad
  <2>2. CASE RetainLock(t) \/ ReleaseLock(t) \/ ChangeLock(t) \/ LoadWeakLock(t)
             \/ StoreWeakLock(t)
    BY <2>2 DEF RetainLock, ReleaseLock, ChangeLock, LoadWeakLock, StoreWeakLock
  <2>3. CASE RetainMove(t) \/ ReleasePutBack(t) \/ ChangeMove(t) \/ MarkLoad(t)
             \/ ReleaseBorrow(t)
    BY <2>3 DEF RetainMove, ReleasePutBack, ChangeMove, MarkLoad, ReleaseBorrow
  <2>4. CASE RetainSide(t)
    BY <2>4 DEF RetainSide, Take
  <2>5. CASE ReleaseSide(t)
    BY <2>5, LastReleaseSide DEF ReleaseSide, GiveUp
  <2>6. CASE MarkDone(t) \/ RootDealloc(t) \/ ClearDeallocating(t) \/ Unlock(t)
    BY <2>6 DEF MarkDone, RootDealloc, ClearDeallocating, Unlock
  <2>7. CASE Free(t)
    BY <2>7 DEF Free
  <2> QED BY <1>5, <2>1, <2>2, <2>3, <2>4, <2>5, <2>6, <2>7, <2>8, <2>9 DEF Run
<1> QED BY <1>1, <1>2, <1>3, <1>4, <1>5 DEF Next

LEMMA MarkStep == ASSUME IInv, [Next]_vars PROVE MarkInv'
<1> USE NobodyAssumption
    DEF IInv, TypeOK, MarkInv, Deallocating, LifeInv, LockInv, WordInv, OldInv, RefInv,
        HoldsLock, MayHoldLock, Carrying, MarkWork, Packed, Uses, Owned, Goto, Finish,
        LoadExclusive, Lock, object, program
<1>1. CASE UNCHANGED vars
  BY <1>1 DEF vars
<1>2. ASSUME NEW t \in Thread, Begin(t) PROVE MarkInv'
  <2>1. ASSUME NEW r \in Ref, Alloc(t, r) PROVE MarkInv'
    <3>1. isa'.bits \subseteq {"nonpointer"} /\ side = NoEntry /\ disposer = Nobody
      BY <2>1 DEF Alloc, PackedIsa, RawIsa
    <3>2. sidelock # Nobody => pc[sidelock] # "change_move"
      BY <2>1 DEF Alloc
    <3> QED BY <2>1, <3>1, <3>2 DEF Alloc, NoEntry
  <2>2. ASSUME NEW r \in Ref, NEW u \in Thread \ {t}, Pass(t, u, r) PROVE MarkInv'
    BY <2>2 DEF Pass
  <2>3. ASSUME NEW r \in Ref, Retain(t, r) \/ Release(t, r) \/ LoadWeak(t, r) PROVE MarkInv'
    BY <2>3 DEF Retain, Reserve, Vacant, Release, LoadWeak
  <2>4. CASE ChangeIsa(t) \/ StoreWeak(t) \/ StoreWeakNil(t)
    BY <2>4 DEF ChangeIsa, StoreWeak, StoreWeakNil
  <2> QED BY <1>2, <2>1, <2>2, <2>3, <2>4 DEF Begin
<1>3. ASSUME NEW t \in Thread, StoreExclusiveFails(t) PROVE MarkInv'
  BY <1>3 DEF StoreExclusiveFails, Retry
<1>4. ASSUME NEW t \in Thread, Store(t) PROVE MarkInv'
  <2>1. CASE RetainStore(t) \/ ReleaseStore(t) \/ ReleasePut(t) \/ ReleasePut2(t)
    BY <2>1, StoreKeeps
  <2>3. CASE ReleaseDealloc(t)
    BY <2>3, DeallocStore
  <2>4. CASE ChangeStore(t)
    <3>1. sidelock = t /\ memory = "object" /\ Packed /\ isa = old[t]
      BY <2>4 DEF ChangeStore
    <3>2. sidelock' = t /\ pc'[t] = "change_move" /\ "deallocating" \notin isa'.bits
      BY <2>4, <3>1 DEF ChangeStore, RawIsa
    <3>3. Deallocating' <=> "deallocating" \in isa.bits
      BY <2>4, <3>1, <3>2 DEF ChangeStore
    <3>4. Deallocating <=> "deallocating" \in isa.bits
      BY <2>4, <3>1 DEF ChangeStore
    <3>5. disposer' # Nobody /\ pc'[disposer'] # "free" <=> disposer # Nobody /\ pc[disposer] # "free"
      BY <2>4 DEF ChangeStore
    <3> QED BY <2>4, <3>3, <3>4, <3>5 DEF ChangeStore
  <2>5. CASE MarkStore(t)
    BY <2>5 DEF MarkStore
  <2> QED BY <1>4, <2>1, <2>3, <2>4, <2>5 DEF Store
<1>5. ASSUME NEW t \in Thread, Run(t) PROVE MarkInv'
  <2>1. CASE RetainLoad(t) \/ ReleaseLoad(t) \/ ReleaseReload(t) \/ ChangeLoad(t)
    BY <2>1 DEF RetainLoad, ReleaseLoad, ReleaseReload, ChangeLoad
  <2>2. CASE RetainLock(t) \/ ReleaseLock(t) \/ ChangeLock(t) \/ LoadWeakLock(t)
             \/ StoreWeakLock(t)
    BY <2>2 DEF RetainLock, ReleaseLock, ChangeLock, LoadWeakLock, StoreWeakLock
  <2>3. CASE RetainMove(t) \/ ReleasePutBack(t) \/ ReleaseBorrow(t) \/ RetainSide(t)
    BY <2>3, SideKeeps
  <2>4. CASE ChangeMove(t)
    BY <2>4 DEF ChangeMove, moveExtraRC, SideEntry
  <2>8. CASE MarkLoad(t)
    BY <2>8 DEF MarkLoad, SideEntry
  <2>5. CASE ReleaseSide(t)
    BY <2>5, LastReleaseSide DEF ReleaseSide, GiveUp, subExtraRC, SideEntry
  <2>6. CASE MarkDone(t) \/ Unlock(t)
    BY <2>6 DEF MarkDone, Unlock
  <2>9. CASE RootDealloc(t)
    BY <2>9 DEF RootDealloc
  <2>10. CASE ClearDeallocating(t)
    BY <2>10 DEF ClearDeallocating
  <2>7. CASE Free(t)
    BY <2>7 DEF Free
  <2> QED BY <1>5, <2>1, <2>2, <2>3, <2>4, <2>5, <2>6, <2>7, <2>8, <2>9, <2>10 DEF Run
<1> QED BY <1>1, <1>2, <1>3, <1>4, <1>5 DEF Next

\* No step that leaves the owners alone changes the number of references.
LEMMA SameOwners ==
  ASSUME owner' = owner PROVE Cardinality(Owned') = Cardinality(Owned)
BY DEF Owned

LEMMA ConservationStep == ASSUME IInv, [Next]_vars PROVE Conservation'
<1> USE NobodyAssumption, RangeFacts, OwnedFinite, CountTypes
    DEF IInv, TypeOK, Conservation, InTransit, Carrying, LifeInv, LockInv, HoldsLock, OldInv, RefInv,
        ReleaseWork, RetainLabel, Packed, Goto, Finish, LoadExclusive, Lock, object, program
<1>1. CASE UNCHANGED vars
  BY <1>1 DEF vars, Owned
<1>2. ASSUME NEW t \in Thread, Begin(t) PROVE Conservation'
  <2>1. ASSUME NEW r \in Ref, Alloc(t, r) PROVE Conservation'
    <3>1. Cardinality(Owned') = 1
      <4>1. Cardinality(Owned) = 0
        BY <2>1, FS_EmptySet DEF Alloc
      <4>2. owner[r] = Nobody /\ owner' = [owner EXCEPT ![r] = t]
        BY <2>1 DEF Alloc, Vacant
      <4>3. Cardinality(Owned') = Cardinality(Owned) + 1
        BY <4>2, OwnedTake
      <4> QED BY <4>1, <4>3
    <3>2. isa'.extra_rc = 0 /\ side'.rc = 0 /\ disposer' = Nobody
      BY <2>1 DEF Alloc, PackedIsa, RawIsa, WordInv, NoEntry
    <3>3. InTransit' = 0
      BY <2>1 DEF Alloc
    <3> QED BY <3>1, <3>2, <3>3
  <2>2. ASSUME NEW r \in Ref, NEW u \in Thread \ {t}, Pass(t, u, r) PROVE Conservation'
    <3>1. Owned' = Owned
      BY <2>2 DEF Pass, Owned
    <3> QED BY <2>2, <3>1 DEF Pass
  <2>3. ASSUME NEW r \in Ref, Retain(t, r) \/ Release(t, r) \/ LoadWeak(t, r)
        PROVE  Conservation'
    <3>1. InTransit' = InTransit
      BY <2>3 DEF Retain, Release, LoadWeak
    <3> QED BY <2>3, <3>1, SameOwners DEF Retain, Release, LoadWeak
  <2>4. CASE ChangeIsa(t) \/ StoreWeak(t) \/ StoreWeakNil(t)
    <3>1. InTransit' = InTransit
      BY <2>4 DEF ChangeIsa, StoreWeak, StoreWeakNil
    <3> QED BY <2>4, <3>1, SameOwners DEF ChangeIsa, StoreWeak, StoreWeakNil
  <2> QED BY <1>2, <2>1, <2>2, <2>3, <2>4 DEF Begin
<1>3. ASSUME NEW t \in Thread, StoreExclusiveFails(t) PROVE Conservation'
  BY <1>3 DEF StoreExclusiveFails, Retry, Owned
<1>4. ASSUME NEW t \in Thread, Store(t) PROVE Conservation'
  <2>1. CASE RetainStore(t)
    <3>1. Cardinality(Owned') = Cardinality(Owned) + 1
      <4>1. arg[t] \in Ref /\ owner[arg[t]] = Nobody
        BY <2>1, RetainCommits DEF RetainStore
      <4> QED BY <2>1, <4>1, OwnedTake DEF RetainStore, Take
    <3>2. isa'.extra_rc + InTransit' = isa.extra_rc + InTransit + 1
      BY <2>1 DEF RetainStore, RetainOverflows, IsaWord
    <3>3. UNCHANGED <<side, memory, disposer>> /\ memory = "object"
      BY <2>1 DEF RetainStore
    <3>4. isa'.extra_rc \in Int /\ InTransit' \in Int
      BY <2>1 DEF RetainStore, IsaWord
    <3>5. TypeOK /\ Conservation
      OBVIOUS
    <3> HIDE DEF IInv, OldInv, RefInv, LifeInv, LockInv, InTransit
    <3> QED BY <3>1, <3>2, <3>3, <3>4, <3>5
  <2>2. CASE ReleaseStore(t) \/ ReleasePut(t) \/ ReleasePut2(t)
    <3>1. Cardinality(Owned') = Cardinality(Owned) - 1
      BY <2>2, OwnedGiveUp DEF ReleaseStore, ReleasePut, ReleasePut2, StoreBorrowed, GiveUp
    <3>2. isa'.extra_rc + InTransit' = isa.extra_rc + InTransit - 1
      <4>1. CASE ReleaseStore(t)
        <5>1. isa'.extra_rc = isa.extra_rc - 1
          BY <4>1 DEF ReleaseStore, IsaWord
        <5>2. InTransit' = InTransit
          BY <4>1 DEF ReleaseStore
        <5> QED BY <5>1, <5>2
      <4>2. CASE ReleasePut(t)
        <5>1. isa'.extra_rc = RC_HALF - 1 /\ isa.extra_rc = 0
          BY <4>2 DEF ReleasePut, StoreBorrowed, IsaWord
        <5>2. InTransit' = 0 /\ InTransit = RC_HALF
          BY <4>2 DEF ReleasePut, StoreBorrowed
        <5> QED BY <5>1, <5>2
      <4>3. CASE ReleasePut2(t)
        <5>1. isa'.extra_rc = isa.extra_rc + RC_HALF - 1
          BY <4>3 DEF ReleasePut2, StoreBorrowed, IsaWord
        <5>2. InTransit' = 0 /\ InTransit = RC_HALF
          BY <4>3 DEF ReleasePut2, StoreBorrowed
        <5> QED BY <5>1, <5>2
      <4> QED BY <2>2, <4>1, <4>2, <4>3
    <3>3. UNCHANGED <<side, memory, disposer>> /\ memory = "object"
      BY <2>2 DEF ReleaseStore, ReleasePut, ReleasePut2, StoreBorrowed
    <3>4. isa'.extra_rc \in Int /\ InTransit' \in Int
      BY <2>2 DEF ReleaseStore, ReleasePut, ReleasePut2, StoreBorrowed, IsaWord
    <3> QED BY <3>1, <3>2, <3>3, <3>4
  <2>3. CASE ReleaseDealloc(t)
    <3>1. Cardinality(Owned') = 0
      <4>1. Owned = {arg[t]} /\ arg[t] \in Ref /\ owner[arg[t]] = t
        BY <2>3, DeallocStore
      <4>2. Owned' = {}
        BY <2>3, <4>1, DeallocStore, OwnedGiveUp
      <4> QED BY <4>2, FS_EmptySet
    <3>2. isa'.extra_rc = 0 /\ side'.rc = 0 /\ disposer' # Nobody /\ InTransit' = 0
      BY <2>3, DeallocStore
    <3> QED BY <3>1, <3>2
  <2>4. CASE ChangeStore(t)
    <3>1. isa'.extra_rc = 0 /\ InTransit' = isa.extra_rc /\ InTransit = 0
      BY <2>4 DEF ChangeStore, RawIsa
    <3> QED BY <2>4, <3>1, SameOwners DEF ChangeStore
  <2>5. CASE MarkStore(t)
    <3>1. isa'.extra_rc = isa.extra_rc /\ InTransit' = InTransit
      BY <2>5 DEF MarkStore, IsaWord
    <3> QED BY <2>5, <3>1, SameOwners DEF MarkStore
  <2> QED BY <1>4, <2>1, <2>2, <2>3, <2>4, <2>5 DEF Store
<1>5. ASSUME NEW t \in Thread, Run(t) PROVE Conservation'
  <2>1. CASE RetainLoad(t) \/ ReleaseLoad(t) \/ ReleaseReload(t) \/ ChangeLoad(t)
    <3>1. InTransit' = InTransit
      BY <2>1 DEF RetainLoad, ReleaseLoad, ReleaseReload, ChangeLoad
    <3>2. UNCHANGED <<object, owner>>
      BY <2>1 DEF RetainLoad, ReleaseLoad, ReleaseReload, ChangeLoad
    <3> QED BY <3>1, <3>2, SameOwners
  <2>2. CASE RetainLock(t) \/ ReleaseLock(t) \/ ChangeLock(t) \/ LoadWeakLock(t)
             \/ StoreWeakLock(t)
    <3>1. InTransit' = InTransit
      BY <2>2 DEF RetainLock, ReleaseLock, ChangeLock, LoadWeakLock, StoreWeakLock
    <3>2. UNCHANGED <<isa, side, memory, disposer, owner>>
      BY <2>2 DEF RetainLock, ReleaseLock, ChangeLock, LoadWeakLock, StoreWeakLock
    <3> QED BY <3>1, <3>2, SameOwners
  <2>3. CASE RetainMove(t) \/ ReleasePutBack(t)
    <3>1. side'.rc = side.rc + RC_HALF /\ InTransit = RC_HALF /\ InTransit' = 0
      BY <2>3 DEF RetainMove, ReleasePutBack, addExtraRC
    <3>2. UNCHANGED <<isa, memory, disposer, owner>>
      BY <2>3 DEF RetainMove, ReleasePutBack
    <3> QED BY <3>1, <3>2, SameOwners
  <2>4. CASE ReleaseBorrow(t)
    <3>1. InTransit = 0 /\ side'.rc \in Int /\ side'.rc + InTransit' = side.rc
      BY <2>4 DEF ReleaseBorrow, subExtraRC, SideEntry
    <3>2. UNCHANGED <<isa, memory, disposer, owner>> /\ InTransit' \in Int
      BY <2>4 DEF ReleaseBorrow
    <3> QED BY <3>1, <3>2, SameOwners
  <2>5. CASE RetainSide(t)
    <3>1. CASE "tryRetain" \in mode[t] /\ "deallocating" \in side.bits
      BY <2>5, <3>1 DEF RetainSide, Owned
    <3>2. CASE ~("tryRetain" \in mode[t] /\ "deallocating" \in side.bits)
      <4>1. Cardinality(Owned') = Cardinality(Owned) + 1
        BY <2>5, <3>2, OwnedTake, RetainCommits DEF RetainSide, Take
      <4> QED BY <2>5, <3>2, <4>1 DEF RetainSide, addExtraRC, IsaWord, SideEntry
    <3> QED BY <3>1, <3>2
  <2>6. CASE ReleaseSide(t)
    <3>1. Cardinality(Owned') = Cardinality(Owned) - 1
      BY <2>6, OwnedGiveUp, LastReleaseSide DEF ReleaseSide, GiveUp
    <3>2. InTransit = 0 /\ InTransit' = 0 /\ isa'.extra_rc = isa.extra_rc
      BY <2>6 DEF ReleaseSide
    <3> QED BY <2>6, <3>1, <3>2, LastReleaseSide DEF ReleaseSide, subExtraRC, IsaWord, SideEntry
  <2>7. CASE ChangeMove(t)
    BY <2>7 DEF ChangeMove, moveExtraRC, IsaWord, SideEntry, Owned
  <2>8. CASE MarkLoad(t) \/ MarkDone(t) \/ RootDealloc(t) \/ Unlock(t)
    <3>1. side'.rc = side.rc /\ InTransit' = InTransit
      BY <2>8 DEF MarkLoad, MarkDone, RootDealloc, Unlock, SideEntry
    <3>2. UNCHANGED <<isa, memory, disposer, owner>>
      BY <2>8 DEF MarkLoad, MarkDone, RootDealloc, Unlock
    <3> QED BY <3>1, <3>2, SameOwners
  <2>9. CASE ClearDeallocating(t)
    BY <2>9, FS_EmptySet DEF ClearDeallocating, Owned, NoEntry, IsaWord, SideEntry
  <2>10. CASE Free(t)
    BY <2>10 DEF Free
  <2> QED BY <1>5, <2>1, <2>2, <2>3, <2>4, <2>5, <2>6, <2>7, <2>8, <2>9, <2>10 DEF Run
<1> QED BY <1>1, <1>2, <1>3, <1>4, <1>5 DEF Next

\* The inductive invariant holds before the first allocation.
LEMMA InitIInv == Init => IInv
<1> SUFFICES ASSUME Init PROVE IInv
  OBVIOUS
<1> USE NobodyAssumption, RangeFacts DEF Init
<1>1. TypeOK
  BY DEF TypeOK, IsaWord, SideEntry, PackedIsa, NoEntry, Label
<1>2. LockInv /\ RefInv /\ Distinct /\ TryInv
  BY DEF LockInv, RefInv, Distinct, TryInv, HoldsLock, Carrying, RetainLabel, RetainWork,
         ReleaseWork, ChangeWork, MarkWork
<1>3. LifeInv /\ WeakInv /\ MarkInv
  BY DEF LifeInv, WeakInv, MarkInv, Owned
<1>4. WordInv /\ OldInv
  BY DEF WordInv, OldInv, Packed, PackedIsa, Carrying
<1>5. Conservation
  BY DEF Conservation
<1> QED BY <1>1, <1>2, <1>3, <1>4, <1>5 DEF IInv

\* Every reachable state satisfies the inductive invariant, for any number of threads
\* and references and any range of isa.extra_rc.
THEOREM SpecIInv == Spec => []IInv
<1>1. IInv /\ [Next]_vars => IInv'
  <2> SUFFICES ASSUME IInv, [Next]_vars PROVE IInv'
    OBVIOUS
  <2>1. TypeOK' /\ LockInv' /\ RefInv' /\ Distinct' /\ TryInv'
    BY TypeStep, LockStep, RefStep, DistinctStep, TryStep DEF IInv
  <2>2. LifeInv' /\ WeakInv' /\ WordInv' /\ OldInv' /\ MarkInv' /\ Conservation'
    BY LifeStep, WeakStep, WordStep, OldStep, MarkStep, ConservationStep
  <2> QED BY <2>1, <2>2 DEF IInv
<1> QED BY <1>1, InitIInv, PTL DEF Spec

\* The variables keep their types; extra_rc never leaves its field (isa.h).
THEOREM SpecTypeOK == Spec => []TypeOK
<1>1. IInv => TypeOK
  BY DEF IInv
<1> QED BY <1>1, SpecIInv, PTL

\* No interleaving of rootRetain, rootRelease, changeIsa and the weak functions loses
\* a count or counts a reference twice.
THEOREM SpecConservation == Spec => []Conservation
<1>1. IInv => Conservation
  BY DEF IInv
<1> QED BY <1>1, SpecIInv, PTL

\* The block is given back (rootDealloc, object_dispose) only when no reference, no
\* weak variable and no call under way leads to it.
THEOREM SpecNoUseAfterFree == Spec => []NoUseAfterFree
<1>1. IInv => NoUseAfterFree
  BY DEF IInv, TypeOK, NoUseAfterFree, LifeInv, WeakInv, Touches
<1> QED BY <1>1, SpecIInv, PTL

\* A freed object has no side table entry (clearDeallocating_slow,
\* sidetable_clearDeallocating, assert(!sidetable_present())).
THEOREM SpecSideTableClean == Spec => []SideTableClean
<1>1. IInv => SideTableClean
  BY DEF IInv, SideTableClean, WordInv
<1> QED BY <1>1, SpecIInv, PTL

\* The ASSERTs of the sidetable_ functions hold whenever they are evaluated.
THEOREM SpecAssertsHold == Spec => []AssertsHold
BY AssertsHoldLemma, SpecIInv, PTL

\* rootRelease reaches overrelease_error in no program that releases only what it owns.
THEOREM SpecNoOverrelease == Spec => []NoOverrelease
BY NotOverreleased, SpecIInv, PTL

\* While a count is left, the reference being released is not the only one.
LEMMA NotLast ==
  ASSUME IInv, NEW t \in Thread, disposer = Nobody,
         arg[t] \in Ref, owner[arg[t]] = t, memory = "object",
         isa.extra_rc + side.rc + InTransit > 0
  PROVE  \E r \in Owned : r # arg[t]
<1>0. TypeOK
  BY DEF IInv
<1>1. Cardinality(Owned) = isa.extra_rc + side.rc + InTransit + 1
  BY DEF IInv, Conservation
<1>2. arg[t] \in Owned
  BY NobodyAssumption DEF Owned
<1>3. Cardinality(Owned \ {arg[t]}) = isa.extra_rc + side.rc + InTransit
  <2>1. Cardinality(Owned \ {arg[t]}) = Cardinality(Owned) - 1
    BY <1>2, OwnedFinite, FS_RemoveElement
  <2> QED BY <1>0, <1>1, <2>1, CountTypes
<1>4. Owned \ {arg[t]} # {}
  <2>1. Cardinality(Owned \ {arg[t]}) # 0
    BY <1>0, <1>3, CountTypes
  <2>2. Cardinality({}) = 0
    BY FS_EmptySet
  <2> QED BY <2>1, <2>2, Zenon
<1> QED BY <1>4

\* The decrement rootRelease makes on a borrowed count is not the last one.
THEOREM SpecBorrowIsNotLast == Spec => []BorrowIsNotLast
<1>1. IInv => BorrowIsNotLast
  <2> SUFFICES ASSUME IInv, NEW t \in Thread,
                      pc[t] \in {"release_put", "release_put2"}, disposer = Nobody
               PROVE  \E r \in Owned : r # arg[t]
    BY DEF BorrowIsNotLast
  <2>1. TypeOK /\ sidelock = t
    BY DEF IInv, LockInv, HoldsLock, Carrying
  <2>2. InTransit = RC_HALF
    BY <2>1, NobodyAssumption DEF InTransit, Carrying
  <2>3. isa.extra_rc + side.rc + InTransit > 0
    BY <2>1, <2>2, CountTypes, RangeFacts
  <2>4. arg[t] \in Ref /\ owner[arg[t]] = t /\ memory = "object"
    BY DEF IInv, RefInv, ReleaseWork, LifeInv
  <2> QED BY <2>3, <2>4, NotLast
<1> QED BY <1>1, SpecIInv, PTL

\* The deallocating bit is set exactly while -dealloc runs, wherever changeIsa put it.
THEOREM SpecMarkedWhileDeallocating == Spec => []MarkedWhileDeallocating
<1>1. IInv => MarkedWhileDeallocating
  BY DEF IInv, MarkedWhileDeallocating, MarkInv
<1> QED BY <1>1, SpecIInv, PTL

\* -dealloc starts with the release of the last strong reference, and with no other.
THEOREM SpecLastReleaseDeallocates == Spec => LastReleaseDeallocates
<1> DEFINE Last == memory = "object" /\ disposer = Nobody
                     => (disposer' # Nobody <=> Owned' = {})
             LiveIsOwned == memory = "object" /\ disposer = Nobody => Owned # {}
<1>0. IInv => LiveIsOwned
  <2> SUFFICES ASSUME IInv, memory = "object", disposer = Nobody PROVE Owned # {}
    OBVIOUS
  <2>1. Cardinality(Owned) >= 1
    BY CountTypes DEF IInv, Conservation
  <2> QED BY <2>1, FS_EmptySet
<1>1. IInv /\ LiveIsOwned' /\ [Next]_vars => [Last]_vars
  <2> SUFFICES ASSUME IInv, LiveIsOwned', Next, memory = "object", disposer = Nobody
               PROVE  disposer' # Nobody <=> Owned' = {}
    OBVIOUS
  <2>1. PICK t \in Thread : Begin(t) \/ Store(t) \/ Run(t) \/ StoreExclusiveFails(t)
    BY DEF Next
  <2>2. CASE ReleaseDealloc(t)
    <3>1. disposer' = t /\ Owned = {arg[t]} /\ arg[t] \in Ref /\ owner[arg[t]] = t
          /\ owner' = [owner EXCEPT ![arg[t]] = Nobody] /\ TypeOK
      BY <2>2, DeallocStore DEF IInv
    <3>2. Owned' = {}
      BY <3>1, OwnedGiveUp
    <3> QED BY <3>1, <3>2, NobodyAssumption
  <2>3. CASE ReleaseSide(t) /\ disposer' # Nobody
    <3>1. Owned = {arg[t]} /\ arg[t] \in Ref /\ owner[arg[t]] = t /\ TypeOK
      BY <2>3, LastReleaseSide DEF ReleaseSide, IInv
    <3>2. Owned' = {}
      BY <2>3, <3>1, OwnedGiveUp DEF ReleaseSide, GiveUp
    <3> QED BY <2>3, <3>2
  <2>4. CASE ~ReleaseDealloc(t) /\ ~(ReleaseSide(t) /\ disposer' # Nobody)
    <3> USE DEF object
    <3>1. disposer' = Nobody
      BY <2>1, <2>4 DEF Begin, Alloc, Pass, Retain, Release, LoadWeak, ChangeIsa, StoreWeak,
           StoreWeakNil, Store, RetainStore, ReleaseStore, ReleasePut, ReleasePut2, StoreBorrowed,
           ChangeStore, MarkStore, Run, RetainLoad, RetainLock, RetainMove, RetainSide,
           ReleaseLoad, ReleaseLock, ReleaseBorrow, ReleaseReload, ReleasePutBack, ChangeLoad,
           ChangeLock, ChangeMove, LoadWeakLock, StoreWeakLock, MarkLoad, MarkDone, RootDealloc,
           ClearDeallocating, Free, Unlock, StoreExclusiveFails
    <3>2. memory' = "object"
      <4>1. CASE Free(t)
        BY <4>1, NobodyAssumption DEF Free, IInv, LifeInv
      <4>2. CASE ~Free(t)
        BY <2>1, <4>2 DEF Begin, Alloc, Pass, Retain, Release, LoadWeak, ChangeIsa, StoreWeak,
           StoreWeakNil, Store, RetainStore, ReleaseStore, ReleasePut, ReleasePut2, StoreBorrowed,
           ReleaseDealloc, ChangeStore, MarkStore, Run, RetainLoad, RetainLock, RetainMove,
           RetainSide, ReleaseLoad, ReleaseLock, ReleaseBorrow, ReleaseReload, ReleasePutBack,
           ReleaseSide, ChangeLoad, ChangeLock, ChangeMove, LoadWeakLock, StoreWeakLock, MarkLoad,
           MarkDone, RootDealloc, ClearDeallocating, Unlock, StoreExclusiveFails
      <4> QED BY <4>1, <4>2
    <3> QED BY <3>1, <3>2
  <2> QED BY <2>1, <2>2, <2>3, <2>4
<1> QED BY <1>0, <1>1, SpecIInv, PTL DEF Spec, LastReleaseDeallocates

\* No step clears has_sidetable_rc of a packed isa.
THEOREM SpecHasSidetableRcSticks == Spec => HasSidetableRcSticks
<1> DEFINE Sticks == memory = "object" /\ "has_sidetable_rc" \in isa.bits /\ Packed'
                       => "has_sidetable_rc" \in isa'.bits
<1>1. IInv /\ [Next]_vars => [Sticks]_vars
  <2> SUFFICES ASSUME IInv, Next, memory = "object", "has_sidetable_rc" \in isa.bits, Packed'
               PROVE  "has_sidetable_rc" \in isa'.bits
    OBVIOUS
  <2> USE DEF object
  <2>1. PICK t \in Thread : Begin(t) \/ Store(t) \/ Run(t) \/ StoreExclusiveFails(t)
    BY DEF Next
  <2>2. CASE isa' = isa
    BY <2>2
  <2>3. CASE isa' # isa
    <3>1. Begin(t) => FALSE
      BY <2>3 DEF Begin, Alloc, Pass, Retain, Release, LoadWeak, ChangeIsa, StoreWeak,
                  StoreWeakNil
    <3>2. Run(t) \/ StoreExclusiveFails(t) => FALSE
      BY <2>3 DEF Run, RetainLoad, RetainLock, RetainMove, RetainSide, ReleaseLoad, ReleaseLock,
           ReleaseBorrow, ReleaseReload, ReleasePutBack, ReleaseSide, ChangeLoad, ChangeLock,
           ChangeMove, LoadWeakLock, StoreWeakLock, MarkLoad, MarkDone, RootDealloc,
           ClearDeallocating, Free, Unlock, StoreExclusiveFails
    <3>3. Store(t)
      BY <2>1, <3>1, <3>2
    <3>4. CASE RetainStore(t) \/ ReleaseStore(t) \/ ReleasePut(t) \/ ReleasePut2(t)
      BY <3>4, StoreKeeps DEF IInv
    <3>5. CASE ReleaseDealloc(t) \/ MarkStore(t)
      BY <3>5 DEF ReleaseDealloc, MarkStore, IInv, TypeOK, IsaWord
    <3>6. CASE ChangeStore(t)
      BY <3>6 DEF ChangeStore, Packed, RawIsa
    <3> QED BY <3>3, <3>4, <3>5, <3>6 DEF Store
  <2> QED BY <2>2, <2>3
<1> QED BY <1>1, SpecIInv, PTL DEF Spec, HasSidetableRcSticks

\* A release that finds a count elsewhere is not the last one for StrongRef either.
LEMMA ReleaseRefines ==
  ASSUME IInv, NEW t \in Thread, arg[t] \in Ref, owner[arg[t]] = t, memory = "object",
         isa.extra_rc + side.rc + InTransit > 0,
         GiveUp(t), UNCHANGED <<memory, disposer, location>>
  PROVE  Promise!Release(t, arg[t])
<1>1. disposer = Nobody => Owned # {arg[t]}
  BY NotLast
<1>2. Promise!Owned = Owned
  BY DEF Promise!Owned, Owned
<1> QED BY <1>1, <1>2 DEF Promise!Release, GiveUp

\* RefCount implements StrongRef: every step is a step of StrongRef or changes nothing
\* it sees. RetainStore and RetainSide are its Retain and LoadWeak, the stores of
\* rootRelease and ReleaseSide its Release, MarkDone its StoreWeak.
THEOREM SpecImplements == Spec => Implements
<1>1. Init => Promise!Init
  BY DEF Init, Promise!Init
<1>2. IInv /\ [Next]_vars => [Promise!Next]_(Promise!vars)
  <2> SUFFICES ASSUME IInv, Next PROVE Promise!Next \/ UNCHANGED Promise!vars
    BY DEF vars, Promise!vars
  <2> USE NobodyAssumption DEF object, program
  <2> DEFINE Stutter == UNCHANGED <<owner, memory, disposer, location>>
  <2>0. Stutter => UNCHANGED Promise!vars
    BY DEF Promise!vars
  <2>1. ASSUME NEW t \in Thread, StoreExclusiveFails(t) PROVE Stutter
    BY <2>1 DEF StoreExclusiveFails
  <2>2. ASSUME NEW t \in Thread, Begin(t) PROVE Stutter \/ Promise!Next
    <3>1. ASSUME NEW r \in Ref, Alloc(t, r) PROVE Promise!Alloc(t, r)
      BY <3>1 DEF Alloc, Promise!Alloc, IInv, LifeInv
    <3>2. ASSUME NEW r \in Ref, NEW u \in Thread, Pass(t, u, r) PROVE Promise!Pass(t, u, r)
      BY <3>2 DEF Pass, Promise!Pass
    <3>3. StoreWeakNil(t) => Promise!ClearWeak
      BY DEF StoreWeakNil, Promise!ClearWeak
    <3>4. ASSUME NEW r \in Ref, Retain(t, r) \/ Release(t, r) \/ LoadWeak(t, r) PROVE Stutter
      BY <3>4 DEF Retain, Release, LoadWeak
    <3>5. ChangeIsa(t) \/ StoreWeak(t) => Stutter
      BY DEF ChangeIsa, StoreWeak
    <3> QED BY <2>2, <3>1, <3>2, <3>3, <3>4, <3>5 DEF Begin, Promise!Next
  <2>3. ASSUME NEW t \in Thread, RetainStore(t) \/ RetainSide(t) PROVE Stutter \/ Promise!Next
    <3>1. CASE UNCHANGED owner
      BY <2>3, <3>1 DEF RetainStore, RetainSide
    <3>2. CASE owner' # owner
      <4>1. /\ pc[t] \in {"retain_store", "retain_side"}
            /\ arg[t] \in Ref /\ owner[arg[t]] = Nobody /\ memory = "object"
            /\ "tryRetain" \in mode[t] => disposer = Nobody
        BY <2>3, <3>2, RetainCommits DEF RetainStore, RetainSide
      <4>2. Take(t) /\ UNCHANGED <<memory, disposer, location>>
        BY <2>3, <3>2 DEF RetainStore, RetainSide
      <4>3. CASE "tryRetain" \in mode[t]
        <5>1. location = "object"
          BY <4>1, <4>3 DEF IInv, TryInv, RetainWork, RetainLabel
        <5>2. Promise!LoadWeak(t, arg[t])
          BY <4>1, <4>2, <4>3, <5>1 DEF Promise!LoadWeak, Take
        <5> QED BY <4>1, <5>2 DEF Promise!Next
      <4>4. CASE "tryRetain" \notin mode[t]
        <5>1. Uses(t)
          BY <4>1, <4>4 DEF IInv, RefInv, RetainWork, RetainLabel
        <5>2. Promise!Retain(t, arg[t])
          BY <4>1, <4>2, <5>1 DEF Promise!Retain, Promise!Uses, Uses, Take
        <5> QED BY <4>1, <5>2 DEF Promise!Next
      <4> QED BY <4>3, <4>4
    <3> QED BY <3>1, <3>2
  <2>4. ASSUME NEW t \in Thread, ReleaseStore(t) \/ ReleasePut(t) \/ ReleasePut2(t)
        PROVE  Promise!Next
    <3>1. arg[t] \in Ref /\ owner[arg[t]] = t /\ memory = "object" /\ TypeOK
      BY <2>4 DEF ReleaseStore, ReleasePut, ReleasePut2, StoreBorrowed, IInv, RefInv, ReleaseWork, LifeInv
    <3>2. isa.extra_rc > 0 \/ InTransit = RC_HALF
      BY <2>4 DEF ReleaseStore, ReleasePut, ReleasePut2, StoreBorrowed, IInv, OldInv, LockInv, HoldsLock,
                  InTransit, Carrying
    <3>3. isa.extra_rc + side.rc + InTransit > 0
      BY <3>1, <3>2, CountTypes, RangeFacts
    <3>4. GiveUp(t) /\ UNCHANGED <<memory, disposer, location>>
      BY <2>4 DEF ReleaseStore, ReleasePut, ReleasePut2, StoreBorrowed
    <3> QED BY <3>1, <3>3, <3>4, ReleaseRefines DEF Promise!Next
  <2>5. ASSUME NEW t \in Thread, ReleaseDealloc(t) PROVE Promise!Next
    <3>1. /\ Owned = {arg[t]} /\ arg[t] \in Ref /\ owner[arg[t]] = t
          /\ memory = "object" /\ disposer = Nobody /\ "deallocating" \notin isa.bits
      BY <2>5, DeallocStore
    <3>2. Promise!Owned = Owned
      BY DEF Promise!Owned, Owned
    <3>3. Promise!Release(t, arg[t])
      BY <2>5, <3>1, <3>2, DeallocStore DEF Promise!Release
    <3> QED BY <3>1, <3>3 DEF Promise!Next
  <2>6. ASSUME NEW t \in Thread, ReleaseSide(t) PROVE Promise!Next
    <3>1. /\ arg[t] \in Ref /\ owner[arg[t]] = t /\ memory = "object" /\ TypeOK
          /\ isa.extra_rc = 0 /\ InTransit = 0
          /\ "deallocating" \in side.bits => side.rc > 0
          /\ "deallocating" \notin side.bits /\ side.rc = 0 => disposer = Nobody /\ Owned = {arg[t]}
      BY <2>6, LastReleaseSide DEF ReleaseSide, IInv
    <3>2. CASE "deallocating" \notin side.bits /\ side.rc = 0
      <4>1. Promise!Owned = Owned
        BY DEF Promise!Owned, Owned
      <4>2. Promise!Release(t, arg[t])
        BY <2>6, <3>1, <3>2, <4>1 DEF ReleaseSide, GiveUp, Promise!Release
      <4> QED BY <3>1, <4>2 DEF Promise!Next
    <3>3. CASE ~("deallocating" \notin side.bits /\ side.rc = 0)
      <4>1. isa.extra_rc + side.rc + InTransit > 0
        BY <3>1, <3>3, CountTypes
      <4>2. GiveUp(t) /\ UNCHANGED <<memory, disposer, location>>
        BY <2>6, <3>3 DEF ReleaseSide
      <4> QED BY <3>1, <4>1, <4>2, ReleaseRefines DEF Promise!Next
    <3> QED BY <3>2, <3>3
  <2>7. ASSUME NEW t \in Thread, ChangeStore(t) \/ MarkStore(t) PROVE Stutter
    BY <2>7 DEF ChangeStore, MarkStore
  <2>8. ASSUME NEW t \in Thread, StoreWeakLock(t) \/ ClearDeallocating(t)
        PROVE  Stutter \/ Promise!Next
    BY <2>8 DEF StoreWeakLock, ClearDeallocating, Promise!Next, Promise!ClearWeak
  <2>9. ASSUME NEW t \in Thread, MarkDone(t) PROVE Promise!Next
    <3>1. Uses(t) /\ memory = "object" /\ disposer = Nobody
      BY <2>9 DEF MarkDone, IInv, RefInv, MarkWork, LifeInv
    <3>2. Promise!StoreWeak(t)
      BY <2>9, <3>1 DEF MarkDone, Promise!StoreWeak, Promise!Uses, Uses
    <3> QED BY <3>2 DEF Promise!Next
  <2>10. ASSUME NEW t \in Thread, Free(t) PROVE Promise!Next
    <3>1. /\ disposer = t /\ Owned = {} /\ memory = "object" /\ location = "nil"
      BY <2>10 DEF Free, IInv, LifeInv, WeakInv
    <3>2. Promise!Owned = {}
      BY <3>1 DEF Promise!Owned, Owned
    <3>3. Promise!Free(t)
      BY <2>10, <3>1, <3>2 DEF Free, Promise!Free
    <3> QED BY <3>3 DEF Promise!Next
  <2>11. ASSUME NEW t \in Thread,
                \/ RetainLoad(t) \/ RetainLock(t) \/ RetainMove(t)
                \/ ReleaseLoad(t) \/ ReleaseLock(t) \/ ReleaseBorrow(t) \/ ReleaseReload(t)
                \/ ReleasePutBack(t)
                \/ ChangeLoad(t) \/ ChangeLock(t) \/ ChangeMove(t) \/ LoadWeakLock(t)
                \/ MarkLoad(t) \/ RootDealloc(t) \/ Unlock(t)
         PROVE  Stutter
    BY <2>11 DEF RetainLoad, RetainLock, RetainMove, ReleaseLoad, ReleaseLock, ReleaseBorrow,
         ReleaseReload, ReleasePutBack, ChangeLoad, ChangeLock, ChangeMove, LoadWeakLock,
         MarkLoad, RootDealloc, Unlock
  <2> QED BY <2>0, <2>1, <2>2, <2>3, <2>4, <2>5, <2>6, <2>7, <2>8, <2>9, <2>10, <2>11
          DEF Next, Store, Run
<1> QED BY <1>1, <1>2, SpecIInv, PTL DEF Spec, Implements, Promise!Spec
================================================================================
