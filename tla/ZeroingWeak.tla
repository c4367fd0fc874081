------------------------------- MODULE ZeroingWeak -------------------------------
(***************************************************************************)
(* What __weak promises its users (the comments of NSObject.mm:358-450 and *)
(* 503-572): a weak variable holds nil or an object that somebody still    *)
(* owns, and the last release of the object makes all of them nil, at one  *)
(* instant.                                                                *)
(***************************************************************************)
EXTENDS Naturals

CONSTANTS Thread, Object, Variable, nil, raw

VARIABLES
  value,   \* per variable: nil, an object, or raw when it is not a weak variable
  strong,  \* per thread and object: the references the thread owns
  freed    \* the objects whose memory is free

vars == <<value, strong, freed>>

Owned(s, o) == \E t \in Thread : s[t][o] > 0

Init ==
  /\ value \in [Variable -> Object \cup {nil, raw}]
  /\ strong \in [Thread -> [Object -> 0..1]]
  /\ freed = {}
  /\ \A v \in Variable : value[v] \in Object => Owned(strong, value[v])

\* Assign, initialize or destroy a variable.
Store(v, x) ==
  /\ x \in Object => Owned(strong, x)
  /\ value' = [value EXCEPT ![v] = x]
  /\ UNCHANGED <<strong, freed>>

Load(t, v) ==
  /\ value[v] \in Object
  /\ strong' = [strong EXCEPT ![t][value[v]] = @ + 1]
  /\ UNCHANGED <<value, freed>>

Release(t, o) ==
  /\ strong[t][o] > 0
  /\ strong' = [strong EXCEPT ![t][o] = @ - 1]
  /\ value' = [v \in Variable |-> IF value[v] = o /\ ~Owned(strong', o)
                                   THEN nil ELSE value[v]]
  /\ UNCHANGED freed

Free(o) ==
  /\ ~Owned(strong, o) /\ o \notin freed
  /\ freed' = freed \cup {o}
  /\ UNCHANGED <<value, strong>>

Alloc(t, o) ==
  /\ o \in freed
  /\ freed' = freed \ {o}
  /\ strong' = [strong EXCEPT ![t][o] = 1]
  /\ UNCHANGED value

Next ==
  \/ \E v \in Variable, x \in Object \cup {nil, raw} : Store(v, x)
  \/ \E t \in Thread, v \in Variable : Load(t, v)
  \/ \E t \in Thread, o \in Object : Release(t, o) \/ Alloc(t, o)
  \/ \E o \in Object : Free(o)

Spec == Init /\ [][Next]_vars
================================================================================
