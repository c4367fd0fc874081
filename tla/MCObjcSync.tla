------------------------------- MODULE MCObjcSync -------------------------------
(***************************************************************************)
(* ObjcSync for TLC: with AnyOrder a program may take the locks in any     *)
(* order, and so may deadlock; with OneOrder it takes o1, o2, o3 in turn.  *)
(* View leaves out the locals of a thread that it will not read again.     *)
(***************************************************************************)
EXTENDS ObjcSync, TLC

CONSTANTS o1, o2, o3

AnyOrder == Object \X Object
OneOrder ==
  AnyOrder \cap {<<o1, o1>>, <<o2, o2>>, <<o3, o3>>, <<o1, o2>>, <<o1, o3>>, <<o2, o3>>}

Symmetry == Permutations(Thread) \cup Permutations(Object)

View ==
  <<list, spinlock, caches, pc, inside,
    [t \in Thread |-> IF pc[t] = "idle" THEN "none" ELSE <<call[t], object[t]>>],
    [t \in Thread |-> IF pc[t] = "walk" THEN <<p[t], unused[t]>> ELSE <<>>],
    [t \in Thread |-> IF pc[t] \in {"lock", "trylock", "unlock"} THEN data[t] ELSE NULL]>>
================================================================================
