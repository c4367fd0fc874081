------------------------------ MODULE RefCountInv ------------------------------
(***************************************************************************)
(* The inductive invariant of RefCount: what each thread knows of the isa  *)
(* word, of the side table and of its lock at every point of its calls.    *)
(***************************************************************************)
EXTENDS RefCount

HoldsLock == {"unlock", "retain_move", "release_borrow", "change_store",
              "change_move", "mark_load", "mark_store", "mark_done"} \cup Carrying

\* A retry loop may come round with the lock.
MayHoldLock == HoldsLock \cup
  {"retain_load", "retain_store", "retain_side", "release_load",
   "release_store", "release_dealloc", "change_load"}

LockInv ==
  \A t \in Thread :
    /\ pc[t] \in HoldsLock => sidelock = t
    /\ sidelock = t => pc[t] \in MayHoldLock
    /\ pc[t] = "retain_side" /\ sidelock = t => "tryRetain" \in mode[t]

RetainWork  == RetainLabel \ {"weak_lock"}
ReleaseWork == {"release_load", "release_lock", "release_store",
                "release_borrow", "release_put", "release_reload",
                "release_put2", "release_putback", "release_dealloc",
                "release_side"}
ChangeWork  == {"change_load", "change_lock", "change_store", "change_move"}
MarkWork    == {"mark_lock", "mark_load", "mark_store", "mark_done"}

\* The strong reference of each call under way, and why it may use the object.
RefInv ==
  \A t \in Thread :
    /\ pc[t] \in RetainLabel => arg[t] \in Ref /\ owner[arg[t]] = Nobody
    /\ pc[t] \in ReleaseWork \cup {"retain_move"}
         => arg[t] \in Ref /\ owner[arg[t]] = t
    /\ pc[t] \in RetainWork /\ "tryRetain" \notin mode[t] => Uses(t)
    /\ pc[t] \in ChangeWork \cup MarkWork => Uses(t)

Distinct ==
  \A t, u \in Thread :
    pc[t] \in RetainLabel /\ pc[u] \in RetainLabel /\ t # u => arg[t] # arg[u]

\* A load of the weak variable that has found it set, under the lock.
TryInv ==
  \A t \in Thread :
    /\ pc[t] = "weak_lock" => "tryRetain" \in mode[t]
    /\ pc[t] \in RetainWork /\ "tryRetain" \in mode[t] => sidelock = t /\ location = "object"

\* A thread inside the object keeps it from being freed.
LifeInv ==
  /\ \A t \in Thread : pc[t] \notin {"idle", "unlock", "weak_lock"} => memory = "object"
  /\ \A t \in Thread :
       pc[t] \in {"clear", "free"} => disposer = t /\ Owned = {}
  /\ disposer # Nobody => memory = "object"
  /\ memory = "free" => Owned = {}
  /\ \A t \in Thread :
       pc[t] \in {"mark_load", "mark_store", "mark_done"} => disposer = Nobody

WeakBit ==
  \/ "weakly_referenced" \in isa.bits \/ "weakly_referenced" \in side.bits
  \/ sidelock # Nobody /\ pc[sidelock] = "change_move"
                       /\ "weakly_referenced" \in old[sidelock].bits

WeakInv ==
  /\ location = "object" => memory = "object" /\ WeakBit
  /\ \A t \in Thread : pc[t] = "mark_done" => WeakBit
  /\ \A t \in Thread : pc[t] = "free" => location = "nil"

\* The side table of a packed object counts in halves of the isa's range.
Halves(n) == \E k \in 0 .. n : n = k * RC_HALF

\* What the isa word and the side table entry say together.
WordInv ==
  /\ ~Packed => isa = RawIsa
  /\ memory = "object" /\ Packed => side.bits \subseteq {"present"}
  /\ memory = "object" /\ Packed /\ "has_sidetable_rc" \notin isa.bits
       => side = NoEntry
  /\ memory = "object" /\ Packed => Halves(side.rc)
  /\ memory = "free" => side = NoEntry
  /\ \A t \in Thread : pc[t] = "free" => side = NoEntry

\* What a thread has read and may still rely on.
OldInv ==
  \A t \in Thread :
    /\ pc[t] \in {"retain_move", "release_borrow"} \cup Carrying
         => Packed /\ "has_sidetable_rc" \in isa.bits
    /\ pc[t] \in {"retain_side", "release_side"} => ~Packed
    /\ pc[t] = "retain_store"
         => /\ "nonpointer" \in old[t].bits
            /\ old[t].extra_rc = RC_MAX => sidelock = t
            /\ "tryRetain" \in mode[t] => "deallocating" \notin old[t].bits
    /\ pc[t] = "retain_lock" => "tryRetain" \notin mode[t] /\ "nonpointer" \in old[t].bits
    /\ pc[t] = "release_store" => "nonpointer" \in old[t].bits /\ old[t].extra_rc > 0
    /\ pc[t] \in {"release_borrow", "release_put"}
         => "nonpointer" \in old[t].bits /\ old[t].extra_rc = 0 /\ "has_sidetable_rc" \in old[t].bits
    /\ pc[t] = "release_borrow" /\ "deallocating" \in old[t].bits => side.rc > 0
    /\ pc[t] = "release_put2"
         => "nonpointer" \in old[t].bits /\ old[t].extra_rc + RC_HALF - 1 <= RC_MAX
    /\ pc[t] = "release_dealloc"
         => /\ "nonpointer" \in old[t].bits /\ old[t].extra_rc = 0
            /\ "has_sidetable_rc" \in old[t].bits => sidelock = t /\ side.rc = 0
            /\ "deallocating" \notin old[t].bits
    /\ pc[t] \in {"change_lock", "change_store", "mark_store"}
         => "nonpointer" \in old[t].bits
    /\ pc[t] = "change_move"
         => /\ ~Packed /\ "nonpointer" \in old[t].bits
            /\ side.bits \subseteq {"present"}

MarkInv ==
  /\ memory = "object" /\ Deallocating => disposer # Nobody
  /\ disposer # Nobody /\ pc[disposer] # "free" => Deallocating

IInv ==
  /\ TypeOK /\ LockInv /\ RefInv /\ Distinct /\ TryInv /\ LifeInv
  /\ WeakInv /\ WordInv /\ OldInv /\ MarkInv /\ Conservation
================================================================================
