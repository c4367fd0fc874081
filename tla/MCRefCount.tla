------------------------------- MODULE MCRefCount -------------------------------
(***************************************************************************)
(* RefCount for TLC.  Two states that View maps to the same value differ   *)
(* in the names of the strong references, which no action or property      *)
(* tells apart, or in locals that no thread will read again.               *)
(***************************************************************************)
EXTENDS RefCountInv, TLC

Symmetry == Permutations(Thread)

View ==
  <<object, sidelock, pc,
    [t \in Thread |-> Cardinality({r \in Ref : owner[r] = t})],
    [t \in Thread |->
       IF pc[t] \in DOMAIN Retry \cup {"change_lock", "change_move", "retain_lock"}
       THEN old[t] ELSE PackedIsa],
    [t \in Thread |->
       IF pc[t] \in {"idle", "unlock"} THEN {} ELSE mode[t]]>>
================================================================================
