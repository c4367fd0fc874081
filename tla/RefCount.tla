-------------------------------- MODULE RefCount --------------------------------
(***************************************************************************)
(* Reference counting of one heap block by the Objective-C runtime:        *)
(* objc-object.h (the isa word) and NSObject.mm (the side table).          *)
(*                                                                         *)
(* The isa word is read by LoadExclusive and written by StoreExclusive,    *)
(* each an action of its own.  StoreExclusive succeeds only on an          *)
(* unchanged word (the compare-and-swap of x86_64) and may fail on an      *)
(* unchanged one too (the reservation of arm64).  The side table entry is  *)
(* read and written under the spinlock of its stripe, sidelock.  A call    *)
(* that runs entirely under the lock it takes itself is one action.        *)
(*                                                                         *)
(* The block is allocated again after it is freed, at the same address, so *)
(* what a dead object leaves in the side table is seen by the next one.    *)
(*                                                                         *)
(* A count that reaches SIDE_TABLE_RC_PINNED (2^61 references) is left     *)
(* out: side.rc is an unbounded natural.                                   *)
(***************************************************************************)
EXTENDS Integers, FiniteSets

CONSTANTS Thread,   \* the threads of the process
          Ref,      \* the places that can hold a strong reference
          Nobody,   \* no thread
          RC_HALF   \* half the range of isa.extra_rc, isa.h

ASSUME NobodyAssumption == Nobody \notin Thread
ASSUME RefAssumption == IsFiniteSet(Ref)
ASSUME RC_HALF_Assumption == RC_HALF \in Nat \ {0}

RC_MAX == 2 * RC_HALF - 1       \* the largest extra_rc

VARIABLES
  isa,       \* the isa word: whether it is packed, and the packed bits
  side,      \* the entry of the object in SideTable.refcnts
  sidelock,  \* the thread that holds SideTable.slock, or Nobody
  location,  \* the value of the weak variable: "object", with an entry in the
             \* weak table, or "nil"
  memory,    \* what the block holds: "object", or "free"
  disposer,  \* the thread that runs -dealloc on the object, or Nobody
  owner,     \* owner[r]: the thread whose strong reference r is, or Nobody
  pc,        \* per thread: the next step
  old,       \* per thread: oldisa
  arg,       \* per thread: the strong reference retained or released
  mode       \* per thread: "tryRetain", "slow" for handleOverflow/Underflow

object  == <<isa, side, location, memory, disposer>>
program == <<owner, arg, mode>>
vars    == <<isa, side, sidelock, location, memory, disposer,
             owner, pc, old, arg, mode>>

\* The one-bit fields of the isa word that are set, and the count.
IsaWord ==
  [bits : SUBSET {"nonpointer", "deallocating", "weakly_referenced",
                  "has_sidetable_rc"},
   extra_rc : 0 .. RC_MAX]

\* The flags of a RefcountMap value, "present" when there is one, and the count.
SideEntry ==
  [bits : SUBSET {"present", "deallocating", "weakly_referenced"}, rc : Nat]

PackedIsa == [bits |-> {"nonpointer"}, extra_rc |-> 0]
RawIsa    == [bits |-> {}, extra_rc |-> 0]
NoEntry   == [bits |-> {}, rc |-> 0]

Packed == "nonpointer" \in isa.bits

Label == {"idle", "unlock",
          "retain_load", "retain_lock", "retain_store", "retain_move",
          "retain_side",
          "release_load", "release_lock", "release_store", "release_borrow",
          "release_put", "release_reload", "release_put2", "release_putback",
          "release_dealloc", "release_side",
          "change_load", "change_lock", "change_store", "change_move",
          "mark_lock", "mark_load", "mark_store", "mark_done",
          "weak_lock", "clear", "free"}

Goto(t, l) == pc' = [pc EXCEPT ![t] = l]

\* Mutant: a call that ends early forgets the side table lock.
FinishKeepsLock(t) == Goto(t, "idle")

\* The end of a call that may still hold the side table lock.
Finish(t) == Goto(t, IF sidelock = t THEN "unlock" ELSE "idle")

LoadExclusive(t) == old' = [old EXCEPT ![t] = isa]

Lock(t) == sidelock = Nobody /\ sidelock' = t

Uses(t) == disposer = t \/ \E r \in Ref : owner[r] = t

\* Where each StoreExclusive goes when it fails.
Retry == [retain_store    |-> "retain_load",
          release_store   |-> "release_load",
          release_put     |-> "release_reload",
          release_put2    |-> "release_putback",
          release_dealloc |-> "release_load",
          change_store    |-> "change_load",
          mark_store      |-> "mark_load"]

\* The object that is to be deallocated is deallocating already: rootRelease ends in
\* overrelease_error, and makes no store.
Overreleased(t) == pc[t] = "release_dealloc" /\ "deallocating" \in old[t].bits

StoreExclusiveFails(t) ==
  /\ pc[t] \in DOMAIN Retry /\ ~Overreleased(t)
  /\ Goto(t, Retry[pc[t]])
  /\ UNCHANGED <<object, sidelock, program, old>>

--------------------------------------------------------------------------------
(* sidetable_addExtraRC_nolock, _subExtraRC_nolock, _moveExtraRC_nolock *)

addExtraRC(delta) ==
  side' = [bits |-> side.bits \cup {"present"}, rc |-> side.rc + delta]

subExtraRC(delta) ==
  side' = [side EXCEPT !.rc = @ - delta]

\* Mutant: the count moved replaces the one that is there.
moveExtraRCOver(word) ==
  side' = [bits |-> side.bits \cup {"present"} \cup
                    (word.bits \cap {"deallocating", "weakly_referenced"}),
           rc |-> word.extra_rc]

\* Mutant: the deallocating bit stays behind.
moveExtraRCUnmarked(word) ==
  side' = [bits |-> side.bits \cup {"present"} \cup (word.bits \cap {"weakly_referenced"}),
           rc |-> side.rc + word.extra_rc]

moveExtraRC(word) ==
  side' = [bits |-> side.bits \cup {"present"} \cup
                    (word.bits \cap {"deallocating", "weakly_referenced"}),
           rc |-> side.rc + word.extra_rc]

\* No call under way returns its reference in r.
RetainLabel == {"weak_lock",
                "retain_load", "retain_lock", "retain_store", "retain_side"}
Vacant(r) ==
  owner[r] = Nobody /\ \A t \in Thread : pc[t] \in RetainLabel => arg[t] # r

--------------------------------------------------------------------------------
(* initIsa of a new object, owned by its allocator: +1 *)

Alloc(t, r) ==
  /\ memory = "free" /\ pc[t] = "idle" /\ Vacant(r)
  /\ memory' = "object"
  /\ isa' \in {PackedIsa, RawIsa}
  /\ owner' = [owner EXCEPT ![r] = t]
  /\ UNCHANGED <<side, sidelock, location, disposer, pc, old, arg, mode>>

\* A strong reference changes hands without touching the count.
Pass(t, u, r) ==
  /\ pc[t] = "idle" /\ owner[r] = t
  /\ owner' = [owner EXCEPT ![r] = u]
  /\ UNCHANGED <<object, sidelock, pc, old, arg, mode>>

--------------------------------------------------------------------------------
(* rootRetain(tryRetain, handleOverflow) *)

\* r will hold the reference that the call returns.
Reserve(t, r) ==
  /\ Vacant(r)
  /\ arg' = [arg EXCEPT ![t] = r]

Retain(t, r) ==
  /\ pc[t] = "idle" /\ memory = "object" /\ Uses(t)
  /\ Reserve(t, r)
  /\ mode' = [mode EXCEPT ![t] = {}]
  /\ Goto(t, "retain_load")
  /\ UNCHANGED <<object, sidelock, owner, old>>

Take(t) == owner' = [owner EXCEPT ![arg[t]] = t]

\* Mutant: the carry out of extra_rc is noticed one retain late.
RetainOverflowsLate(t) == old[t].extra_rc > RC_MAX

RetainOverflows(t) == old[t].extra_rc = RC_MAX

RetainLoad(t) ==
  /\ pc[t] = "retain_load"
  /\ LoadExclusive(t)
  /\ IF ~Packed THEN
       /\ Goto(t, "retain_side")
       /\ sidelock' = IF sidelock = t /\ "tryRetain" \notin mode[t] THEN Nobody ELSE sidelock
       /\ UNCHANGED mode
     ELSE IF "tryRetain" \in mode[t] /\ "deallocating" \in isa.bits THEN
       Finish(t) /\ UNCHANGED <<sidelock, mode>>
     ELSE IF isa.extra_rc = RC_MAX /\ "slow" \notin mode[t] THEN
       mode' = [mode EXCEPT ![t] = @ \cup {"slow"}] /\ UNCHANGED <<pc, sidelock>>
     ELSE
       /\ Goto(t, IF isa.extra_rc = RC_MAX /\ sidelock # t
                  THEN "retain_lock" ELSE "retain_store")
       /\ UNCHANGED <<sidelock, mode>>
  /\ UNCHANGED <<object, owner, arg>>

RetainLock(t) ==
  /\ pc[t] = "retain_lock"
  /\ Lock(t)
  /\ Goto(t, "retain_store")
  /\ UNCHANGED <<object, program, old>>

RetainStore(t) ==
  /\ pc[t] = "retain_store" /\ isa = old[t]
  /\ Take(t)
  /\ IF RetainOverflows(t) THEN
       /\ isa' = [bits |-> isa.bits \cup {"has_sidetable_rc"}, extra_rc |-> RC_HALF]
       /\ Goto(t, "retain_move")
     ELSE
       /\ isa' = [isa EXCEPT !.extra_rc = @ + 1]
       /\ Finish(t)
  /\ UNCHANGED <<side, sidelock, location, memory, disposer, old, arg, mode>>

\* Mutant: the half not kept inline is lost.
RetainMoveNone(t) ==
  /\ pc[t] = "retain_move"
  /\ addExtraRC(0)
  /\ Goto(t, "unlock")
  /\ UNCHANGED <<isa, sidelock, location, memory, disposer, program, old>>

RetainMove(t) ==
  /\ pc[t] = "retain_move"
  /\ addExtraRC(RC_HALF)
  /\ Goto(t, "unlock")
  /\ UNCHANGED <<isa, sidelock, location, memory, disposer, program, old>>

\* sidetable_retain takes the lock; the caller of sidetable_tryRetain has it.
RetainSide(t) ==
  /\ pc[t] = "retain_side"
  /\ IF "tryRetain" \in mode[t] THEN sidelock = t ELSE sidelock = Nobody
  /\ IF "tryRetain" \in mode[t] /\ "deallocating" \in side.bits
     THEN UNCHANGED <<side, owner>>
     ELSE addExtraRC(1) /\ Take(t)
  /\ Finish(t)
  /\ UNCHANGED <<isa, sidelock, location, memory, disposer, old, arg, mode>>

--------------------------------------------------------------------------------
(* rootRelease(performDealloc = TRUE, handleUnderflow) *)

Release(t, r) ==
  /\ pc[t] = "idle" /\ owner[r] = t
  /\ arg' = [arg EXCEPT ![t] = r]
  /\ mode' = [mode EXCEPT ![t] = {}]
  /\ Goto(t, "release_load")
  /\ UNCHANGED <<object, sidelock, owner, old>>

GiveUp(t) == owner' = [owner EXCEPT ![arg[t]] = Nobody]

ReleaseLoad(t) ==
  /\ pc[t] = "release_load"
  /\ LoadExclusive(t)
  /\ IF ~Packed THEN
       /\ Goto(t, "release_side")
       /\ sidelock' = IF sidelock = t THEN Nobody ELSE sidelock
       /\ UNCHANGED mode
     ELSE IF isa.extra_rc > 0 THEN
       Goto(t, "release_store") /\ UNCHANGED <<sidelock, mode>>
     ELSE IF "has_sidetable_rc" \notin isa.bits THEN
       Goto(t, "release_dealloc") /\ UNCHANGED <<sidelock, mode>>
     ELSE IF "slow" \notin mode[t] THEN
       mode' = [mode EXCEPT ![t] = @ \cup {"slow"}] /\ UNCHANGED <<pc, sidelock>>
     ELSE
       /\ Goto(t, IF sidelock = t THEN "release_borrow" ELSE "release_lock")
       /\ UNCHANGED <<sidelock, mode>>
  /\ UNCHANGED <<object, owner, arg>>

\* Mutant: no retry once the lock is taken.
ReleaseLockOnward(t) ==
  /\ pc[t] = "release_lock"
  /\ Lock(t)
  /\ Goto(t, "release_borrow")
  /\ UNCHANGED <<object, program, old>>

ReleaseLock(t) ==
  /\ pc[t] = "release_lock"
  /\ Lock(t)
  /\ Goto(t, "release_load")
  /\ UNCHANGED <<object, program, old>>

ReleaseStore(t) ==
  /\ pc[t] = "release_store" /\ isa = old[t]
  /\ isa' = [isa EXCEPT !.extra_rc = @ - 1]
  /\ GiveUp(t)
  /\ Finish(t)
  /\ UNCHANGED <<side, sidelock, location, memory, disposer, old, arg, mode>>

\* Mutant: whether anything was borrowed is not looked at.
ReleaseBorrowNothing(t) ==
  /\ pc[t] = "release_borrow"
  /\ side' = [side EXCEPT !.rc = IF @ = 0 THEN 0 ELSE @ - RC_HALF]
  /\ Goto(t, "release_put")
  /\ UNCHANGED <<isa, sidelock, location, memory, disposer, program, old>>

ReleaseBorrow(t) ==
  /\ pc[t] = "release_borrow"
  /\ IF side.rc = 0
     THEN Goto(t, "release_dealloc") /\ UNCHANGED side
     ELSE subExtraRC(RC_HALF) /\ Goto(t, "release_put")
  /\ UNCHANGED <<isa, sidelock, location, memory, disposer, program, old>>

\* The borrowed count, less the reference given up, is in the isa word.
StoreBorrowed(t, word) ==
  /\ isa = old[t]
  /\ isa' = word
  /\ GiveUp(t)
  /\ Goto(t, "unlock")
  /\ UNCHANGED <<side, sidelock, location, memory, disposer, old, arg, mode>>

\* Mutant: has_sidetable_rc is reset with the last count borrowed.
ReleasePutResets(t) ==
  /\ pc[t] = "release_put"
  /\ StoreBorrowed(t, [bits |-> IF side.rc = 0 THEN isa.bits \ {"has_sidetable_rc"} ELSE isa.bits,
                       extra_rc |-> RC_HALF - 1])

\* Redo the decrement on the borrowed count.
ReleasePut(t) ==
  pc[t] = "release_put" /\ StoreBorrowed(t, [isa EXCEPT !.extra_rc = RC_HALF - 1])

\* The store failed: add the borrowed count to what the others left.
ReleaseReload(t) ==
  /\ pc[t] = "release_reload"
  /\ LoadExclusive(t)
  /\ Goto(t, IF Packed /\ isa.extra_rc + RC_HALF - 1 <= RC_MAX
             THEN "release_put2" ELSE "release_putback")
  /\ UNCHANGED <<object, sidelock, program>>

ReleasePut2(t) ==
  pc[t] = "release_put2" /\ StoreBorrowed(t, [isa EXCEPT !.extra_rc = @ + RC_HALF - 1])

ReleasePutBack(t) ==
  /\ pc[t] = "release_putback"
  /\ addExtraRC(RC_HALF)
  /\ Goto(t, "release_load")
  /\ UNCHANGED <<isa, sidelock, location, memory, disposer, program, old>>

\* Over-released, the reference the caller believed in is gone without a count.
ReleaseDealloc(t) ==
  /\ pc[t] = "release_dealloc"
  /\ IF Overreleased(t) THEN
       UNCHANGED <<isa, disposer>>
     ELSE
       /\ isa = old[t]
       /\ isa' = [isa EXCEPT !.bits = @ \cup {"deallocating"}]
       /\ disposer' = t
  /\ GiveUp(t)
  /\ Finish(t)
  /\ UNCHANGED <<side, sidelock, location, memory, old, arg, mode>>

\* sidetable_release
ReleaseSide(t) ==
  /\ pc[t] = "release_side" /\ sidelock = Nobody
  /\ IF "deallocating" \notin side.bits /\ side.rc = 0
     THEN /\ side' = [side EXCEPT !.bits = @ \cup {"present", "deallocating"}]
          /\ disposer' = t
     ELSE /\ subExtraRC(1)
          /\ UNCHANGED disposer
  /\ GiveUp(t)
  /\ Goto(t, "idle")
  /\ UNCHANGED <<isa, sidelock, location, memory, old, arg, mode>>

--------------------------------------------------------------------------------
(* changeIsa to a class whose instances need a raw isa *)

ChangeIsa(t) ==
  /\ pc[t] = "idle" /\ memory = "object" /\ Uses(t)
  /\ Goto(t, "change_load")
  /\ UNCHANGED <<object, sidelock, program, old>>

ChangeLoad(t) ==
  /\ pc[t] = "change_load"
  /\ LoadExclusive(t)
  /\ IF ~Packed THEN Finish(t)
     ELSE Goto(t, IF sidelock = t THEN "change_store" ELSE "change_lock")
  /\ UNCHANGED <<object, sidelock, program>>

ChangeLock(t) ==
  /\ pc[t] = "change_lock"
  /\ Lock(t)
  /\ Goto(t, "change_store")
  /\ UNCHANGED <<object, program, old>>

ChangeStore(t) ==
  /\ pc[t] = "change_store" /\ isa = old[t]
  /\ isa' = RawIsa
  /\ Goto(t, "change_move")
  /\ UNCHANGED <<side, sidelock, location, memory, disposer, program, old>>

ChangeMove(t) ==
  /\ pc[t] = "change_move"
  /\ moveExtraRC(old[t])
  /\ Goto(t, "unlock")
  /\ UNCHANGED <<isa, sidelock, location, memory, disposer, program, old>>

--------------------------------------------------------------------------------
(* objc_loadWeakRetained: the variable is read without the lock and read    *)
(* again under it                                                           *)

LoadWeak(t, r) ==
  /\ pc[t] = "idle" /\ location = "object"
  /\ Reserve(t, r)
  /\ mode' = [mode EXCEPT ![t] = {"tryRetain"}]
  /\ Goto(t, "weak_lock")
  /\ UNCHANGED <<object, sidelock, owner, old>>

\* Mutant: the variable is not read again under the lock.
LoadWeakLockStale(t) ==
  /\ pc[t] = "weak_lock" /\ sidelock = Nobody
  /\ sidelock' = t /\ Goto(t, "retain_load")
  /\ UNCHANGED <<object, program, old>>

LoadWeakLock(t) ==
  /\ pc[t] = "weak_lock" /\ sidelock = Nobody
  /\ IF location = "object"
     THEN sidelock' = t /\ Goto(t, "retain_load")
     ELSE Goto(t, "idle") /\ UNCHANGED sidelock
  /\ UNCHANGED <<object, program, old>>

--------------------------------------------------------------------------------
(* storeWeak(&location, object) and setWeaklyReferenced_nolock *)

\* Mutant: a raw isa is never seen deallocating.
rootIsDeallocatingInline == Packed /\ "deallocating" \in isa.bits

rootIsDeallocating ==
  IF Packed THEN "deallocating" \in isa.bits ELSE "deallocating" \in side.bits

StoreWeak(t) ==
  /\ pc[t] = "idle" /\ memory = "object" /\ Uses(t)
  /\ Goto(t, "mark_lock")
  /\ UNCHANGED <<object, sidelock, program, old>>

\* objc_storeWeakOrNil stores nil for a deallocating object.
StoreWeakLock(t) ==
  /\ pc[t] = "mark_lock" /\ sidelock = Nobody
  /\ IF rootIsDeallocating
     THEN location' = "nil" /\ Goto(t, "idle") /\ UNCHANGED sidelock
     ELSE sidelock' = t /\ Goto(t, "mark_load") /\ UNCHANGED location
  /\ UNCHANGED <<isa, side, memory, disposer, program, old>>

MarkLoad(t) ==
  /\ pc[t] = "mark_load"
  /\ IF ~Packed THEN
       /\ side' = [side EXCEPT !.bits = @ \cup {"present", "weakly_referenced"}]
       /\ Goto(t, "mark_done") /\ UNCHANGED old
     ELSE
       /\ Goto(t, IF "weakly_referenced" \in isa.bits THEN "mark_done" ELSE "mark_store")
       /\ LoadExclusive(t)
       /\ UNCHANGED side
  /\ UNCHANGED <<isa, sidelock, location, memory, disposer, program>>

MarkStore(t) ==
  /\ pc[t] = "mark_store" /\ isa = old[t]
  /\ isa' = [isa EXCEPT !.bits = @ \cup {"weakly_referenced"}]
  /\ Goto(t, "mark_done")
  /\ UNCHANGED <<side, sidelock, location, memory, disposer, program, old>>

MarkDone(t) ==
  /\ pc[t] = "mark_done"
  /\ location' = "object"
  /\ Goto(t, "unlock")
  /\ UNCHANGED <<isa, side, sidelock, memory, disposer, program, old>>

\* storeWeak(&location, nil)
StoreWeakNil(t) ==
  /\ pc[t] = "idle" /\ sidelock = Nobody /\ location = "object"
  /\ location' = "nil"
  /\ UNCHANGED <<isa, side, sidelock, memory, disposer, pc, program, old>>

--------------------------------------------------------------------------------
(* -dealloc ends in rootDealloc; the references made during it are gone *)

\* Mutant: the fast path does not look at has_sidetable_rc.
RootDeallocFast(t) ==
  /\ pc[t] = "idle" /\ disposer = t
  /\ \A r \in Ref : owner[r] = Nobody
  /\ Goto(t, IF Packed /\ "weakly_referenced" \notin isa.bits THEN "free" ELSE "clear")
  /\ UNCHANGED <<object, sidelock, program, old>>

RootDealloc(t) ==
  /\ pc[t] = "idle" /\ disposer = t
  /\ \A r \in Ref : owner[r] = Nobody
  /\ Goto(t, IF /\ Packed
                /\ "weakly_referenced" \notin isa.bits
                /\ "has_sidetable_rc" \notin isa.bits
             THEN "free" ELSE "clear")
  /\ UNCHANGED <<object, sidelock, program, old>>

\* object_dispose: clearDeallocating_slow, or sidetable_clearDeallocating
ClearDeallocating(t) ==
  /\ pc[t] = "clear" /\ sidelock = Nobody
  /\ IF Packed THEN
       /\ location' = IF "weakly_referenced" \in isa.bits THEN "nil" ELSE location
       /\ side' = IF "has_sidetable_rc" \in isa.bits THEN NoEntry ELSE side
     ELSE
       /\ location' = IF "weakly_referenced" \in side.bits THEN "nil" ELSE location
       /\ side' = NoEntry
  /\ Goto(t, "free")
  /\ UNCHANGED <<isa, sidelock, memory, disposer, program, old>>

Free(t) ==
  /\ pc[t] = "free"
  /\ memory' = "free"
  /\ disposer' = Nobody
  /\ Goto(t, "idle")
  /\ UNCHANGED <<isa, side, sidelock, location, program, old>>

Unlock(t) ==
  /\ pc[t] = "unlock"
  /\ sidelock' = Nobody
  /\ Goto(t, "idle")
  /\ UNCHANGED <<object, program, old>>

--------------------------------------------------------------------------------
Init ==
  /\ isa = PackedIsa /\ side = NoEntry /\ sidelock = Nobody
  /\ location = "nil" /\ memory = "free" /\ disposer = Nobody
  /\ owner = [r \in Ref |-> Nobody]
  /\ pc = [t \in Thread |-> "idle"]
  /\ old = [t \in Thread |-> PackedIsa]
  /\ arg = [t \in Thread |-> Nobody]
  /\ mode = [t \in Thread |-> {}]

\* The calls a program makes.
Begin(t) ==
  \/ \E r \in Ref :
       \/ Alloc(t, r)
       \/ \E u \in Thread \ {t} : Pass(t, u, r)
       \/ Retain(t, r) \/ Release(t, r) \/ LoadWeak(t, r)
  \/ ChangeIsa(t) \/ StoreWeak(t) \/ StoreWeakNil(t)

Store(t) ==
  \/ RetainStore(t) \/ ReleaseStore(t) \/ ReleasePut(t) \/ ReleasePut2(t)
  \/ ReleaseDealloc(t) \/ ChangeStore(t) \/ MarkStore(t)

\* What the runtime does next in the call thread t is in.
Run(t) ==
  \/ RetainLoad(t) \/ RetainLock(t) \/ RetainMove(t) \/ RetainSide(t)
  \/ ReleaseLoad(t) \/ ReleaseLock(t) \/ ReleaseBorrow(t) \/ ReleaseReload(t)
  \/ ReleasePutBack(t) \/ ReleaseSide(t)
  \/ ChangeLoad(t) \/ ChangeLock(t) \/ ChangeMove(t)
  \/ LoadWeakLock(t)
  \/ StoreWeakLock(t) \/ MarkLoad(t) \/ MarkDone(t)
  \/ RootDealloc(t) \/ ClearDeallocating(t) \/ Free(t)
  \/ Unlock(t)

Next == \E t \in Thread : Begin(t) \/ Store(t) \/ Run(t) \/ StoreExclusiveFails(t)

Spec == Init /\ [][Next]_vars

\* A thread inside a call keeps running; a StoreExclusive that is tried again and
\* again on an unchanged word does not fail for ever.
Fairness ==
  \A t \in Thread :
    /\ WF_vars(Run(t) \/ (StoreExclusiveFails(t) /\ isa # old[t]))
    /\ SF_vars(Store(t))

--------------------------------------------------------------------------------
(* Properties *)

\* Every variable has its type: extra_rc stays within its bits (rootRetain), and the
\* side table count is never negative (sidetable_subExtraRC_nolock, sidetable_release).
TypeOK ==
  /\ isa \in IsaWord
  /\ side \in SideEntry
  /\ sidelock \in Thread \cup {Nobody}
  /\ location \in {"nil", "object"} /\ memory \in {"free", "object"}
  /\ disposer \in Thread \cup {Nobody}
  /\ owner \in [Ref -> Thread \cup {Nobody}]
  /\ pc \in [Thread -> Label]
  /\ old \in [Thread -> IsaWord]
  /\ arg \in [Thread -> Ref \cup {Nobody}]
  /\ mode \in [Thread -> SUBSET {"tryRetain", "slow"}]

Owned == {r \in Ref : owner[r] # Nobody}

\* The count in neither place: the holder of the side table lock carries it
\* from one to the other.
Carrying == {"retain_move", "release_put", "release_reload", "release_put2",
             "release_putback"}
InTransit ==
  IF sidelock = Nobody THEN 0
  ELSE IF pc[sidelock] \in Carrying THEN RC_HALF
  ELSE IF pc[sidelock] = "change_move" THEN old[sidelock].extra_rc
  ELSE 0

\* The deallocating bit, wherever it is: in the isa word, in the side table, or
\* in the hands of changeIsa.
Deallocating ==
  \/ "deallocating" \in isa.bits \/ "deallocating" \in side.bits
  \/ sidelock # Nobody /\ pc[sidelock] = "change_move"
                        /\ "deallocating" \in old[sidelock].bits

\* Every strong reference is counted exactly once, in the isa word, in the side
\* table or in the hands of the thread moving counts between them; the last one
\* has no count until the object is deallocating.
Conservation ==
  memory = "object" => isa.extra_rc + side.rc + InTransit + (IF disposer = Nobody THEN 1 ELSE 0)
              = Cardinality(Owned)

\* A thread about to read or write the object's memory.
Touches(t) ==
  pc[t] \in Label \ {"idle", "unlock", "weak_lock", "retain_move"}

\* The block is given back only when no strong reference, no weak variable and
\* no call under way can reach it (rootDealloc, objc_loadWeakRetained).
NoUseAfterFree ==
  memory = "free" => Owned = {} /\ location = "nil" /\ \A t \in Thread : ~Touches(t)

\* assert(!sidetable_present()): an object leaves nothing to the next one at
\* its address.
SideTableClean ==
  memory = "free" => side = NoEntry

\* The ASSERTs on isa.nonpointer in the sidetable_ functions, and
\* ASSERT(oldRefcnt > newRefcnt) in sidetable_subExtraRC_nolock.
AssertsHold ==
  \A t \in Thread :
    /\ pc[t] \in {"retain_move", "release_borrow", "release_putback"}
         => Packed /\ side.bits \subseteq {"present"}
    /\ pc[t] = "release_borrow" => side.rc = 0 \/ side.rc >= RC_HALF
    /\ pc[t] \in {"retain_side", "release_side", "change_move"}
         => ~Packed
    /\ pc[t] = "release_side" /\ sidelock = Nobody /\ "deallocating" \in side.bits
         => side.rc > 0
    /\ pc[t] = "change_move"
         => side.bits \subseteq {"present"}

\* objc-object.h:675-678: a decrement made on a borrowed count is never the
\* deallocating one, somebody else still has a reference.
BorrowIsNotLast ==
  \A t \in Thread :
    pc[t] \in {"release_put", "release_put2"} /\ isa = old[t] /\ disposer = Nobody
      => \E r \in Owned : r # arg[t]

\* Nobody over-releases: rootRelease never reaches overrelease_error.
NoOverrelease == \A t \in Thread : ~Overreleased(t)

\* rootRelease: -dealloc starts with the release of the last strong reference, and
\* with no other.
LastReleaseDeallocates ==
  [][memory = "object" /\ disposer = Nobody
       => (disposer' # Nobody <=> Owned' = {})]_vars

\* objc-object.h:657: has_sidetable_rc remains set while the isa is packed,
\* even if the side table count is zero.
HasSidetableRcSticks ==
  [][memory = "object" /\ "has_sidetable_rc" \in isa.bits /\ Packed'
       => "has_sidetable_rc" \in isa'.bits]_vars

\* While -dealloc runs, and only then, the object is marked, so that neither
\* objc_loadWeakRetained nor storeWeak hands it out; changeIsa keeps the mark.
MarkedWhileDeallocating ==
  memory = "object" /\ (disposer # Nobody => pc[disposer] # "free")
    => (Deallocating <=> disposer # Nobody)

\* Every call returns: the retry loops of rootRetain, rootRelease, changeIsa and
\* setWeaklyReferenced_nolock end, and the side table lock is always given back.
EveryCallReturns ==
  \A t \in Thread : pc[t] # "idle" ~> pc[t] = "idle"

\* A deallocating object is freed, unless -dealloc itself keeps a reference.
DeallocCompletes ==
  disposer # Nobody ~> memory = "free" \/ Owned # {}

Promise == INSTANCE StrongRef WITH
  phase <- IF memory = "free" THEN "free"
           ELSE IF disposer = Nobody THEN "live" ELSE "deallocating"

\* Every operation takes effect at one instant, as StrongRef promises.
Implements == Promise!Spec

================================================================================
