------------------------------ MODULE MCMethodCache ------------------------------
(***************************************************************************)
(* A class and its subclass; the selectors collide in a cache of four      *)
(* buckets.  Two messages have been sent to the class, so that a third     *)
(* makes its cache grow.                                                   *)
(***************************************************************************)
EXTENDS MethodCache, TLC

CONSTANTS Super, Sub

MCSuperclass == [c \in Class |-> IF c = Sub THEN Super ELSE nil]
MCBlock == 1..5

MCBuckets ==
  [sel |-> [i \in 0..3 |-> CASE i = 2 -> 10 [] i = 3 -> 1 [] i = 0 -> 7 [] i = 1 -> 0],
   imp |-> [i \in 0..3 |-> IF i \in {0, 2} THEN [sel |-> IF i = 0 THEN 7 ELSE 10, version |-> 1]
                           ELSE NoImp]]

MCInit ==
  /\ heap = [b \in Block \cup {Empty} |->
               IF b = Empty THEN emptyBuckets ELSE IF b = 1 THEN MCBuckets ELSE Freed]
  /\ buckets = [c \in Class |-> IF c = Super THEN 1 ELSE Empty]
  /\ mask = [c \in Class |-> IF c = Super THEN 3 ELSE 0]
  /\ occupied = [c \in Class |-> IF c = Super THEN 2 ELSE 0]
  /\ garbage = {} /\ garbage_size = 0
  /\ runtimeLock = nil
  /\ methods = [c \in Class |-> [s \in SEL |-> IF c = Super THEN 1 ELSE 0]]
  /\ newest = [c \in Class |-> [s \in SEL |-> 1]]
  /\ thread = [t \in Thread |-> Idle]
  /\ shouldUseRestartableRanges \in RestartableRanges
  /\ sends = 0 /\ changes = 0

MCSpec == MCInit /\ [][Next]_vars

Symmetry == Permutations(Thread)
================================================================================
