------------------------------- MODULE StrongRef -------------------------------
(***************************************************************************)
(* What the reference counting of one heap block promises to the program:  *)
(* every operation takes effect at one instant, the release of the last    *)
(* strong reference starts deallocation in the thread that made it, and    *)
(* the block is given back only when nothing, strong or weak, points to    *)
(* the object any more.  No counter appears here: the strong references    *)
(* themselves are the state.                                               *)
(***************************************************************************)
EXTENDS Naturals

CONSTANTS Thread,  \* the threads of the process
          Ref,     \* the places that can hold a strong reference
          Nobody   \* the owner of a place that holds none

VARIABLES owner,     \* owner[r]: the thread whose strong reference r is
          phase,     \* "free", "live" or "deallocating"
          disposer,  \* the thread that runs -dealloc, or Nobody
          location   \* the value of the weak variable: "object" or "nil"

vars == <<owner, phase, disposer, location>>

Owned == {r \in Ref : owner[r] # Nobody}

\* A thread may send messages to the object when it owns a reference to it or
\* is the one deallocating it.
Uses(t) == disposer = t \/ \E r \in Ref : owner[r] = t

Init ==
  /\ owner = [r \in Ref |-> Nobody]
  /\ phase = "free"
  /\ disposer = Nobody
  /\ location = "nil"

Alloc(t, r) ==
  /\ phase = "free"
  /\ phase' = "live"
  /\ owner' = [owner EXCEPT ![r] = t]
  /\ UNCHANGED <<disposer, location>>

Retain(t, r) ==
  /\ phase # "free" /\ Uses(t)
  /\ owner[r] = Nobody
  /\ owner' = [owner EXCEPT ![r] = t]
  /\ UNCHANGED <<phase, disposer, location>>

\* Loading the weak variable gives a strong reference to a live object only.
LoadWeak(t, r) ==
  /\ phase = "live" /\ location = "object"
  /\ owner[r] = Nobody
  /\ owner' = [owner EXCEPT ![r] = t]
  /\ UNCHANGED <<phase, disposer, location>>

Release(t, r) ==
  /\ owner[r] = t
  /\ owner' = [owner EXCEPT ![r] = Nobody]
  /\ IF phase = "live" /\ Owned = {r}
     THEN phase' = "deallocating" /\ disposer' = t
     ELSE UNCHANGED <<phase, disposer>>
  /\ UNCHANGED location

Pass(t, u, r) ==
  /\ owner[r] = t
  /\ owner' = [owner EXCEPT ![r] = u]
  /\ UNCHANGED <<phase, disposer, location>>

StoreWeak(t) ==
  /\ phase = "live" /\ Uses(t)
  /\ location' = "object"
  /\ UNCHANGED <<owner, phase, disposer>>

ClearWeak ==
  /\ location' = "nil"
  /\ UNCHANGED <<owner, phase, disposer>>

Free(t) ==
  /\ phase = "deallocating" /\ disposer = t
  /\ Owned = {} /\ location = "nil"
  /\ phase' = "free"
  /\ disposer' = Nobody
  /\ UNCHANGED <<owner, location>>

Next ==
  \/ \E t \in Thread, r \in Ref :
       \/ Alloc(t, r) \/ Retain(t, r) \/ LoadWeak(t, r) \/ Release(t, r)
       \/ \E u \in Thread : Pass(t, u, r)
  \/ \E t \in Thread : StoreWeak(t) \/ Free(t)
  \/ ClearWeak

Spec == Init /\ [][Next]_vars
================================================================================
