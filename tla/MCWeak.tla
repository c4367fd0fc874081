--------------------------------- MODULE MCWeak ---------------------------------
(* Two objects in two side tables; nil shares the table of the first. *)
EXTENDS Weak

CONSTANTS o1, o2, t1, v1

MCTableOf == [x \in Object \cup {nil} |-> IF x = o2 THEN 2 ELSE 1]

\* Each thread owns one object, and the class of the first is initialized; the first
\* variable holds one of them.
MCInit ==
  /\ Init
  /\ strong = [t \in Thread |-> [o \in Object |-> IF (o = o1) = (t = t1) THEN 1 ELSE 0]]
  /\ class[o1] = "initialized" /\ location[v1] # nil

MCSpec == MCInit /\ [][Next]_vars /\ \A t \in Thread : WF_vars(Step(t))
================================================================================
