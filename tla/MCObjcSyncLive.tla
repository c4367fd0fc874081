----------------------------- MODULE MCObjcSyncLive -----------------------------
(***************************************************************************)
(* ObjcSync under fairness, for programs that enter a bounded number of    *)
(* times, in one order, and leave what they entered.  os_unfair_lock is    *)
(* not fair: with no bound one thread could wait for ever while the others *)
(* pass the lock between them.                                             *)
(***************************************************************************)
EXTENDS MCObjcSync

CONSTANT MaxCalls  \* the calls of objc_sync_enter the program makes

VARIABLE calls     \* those it has left

LiveInit == Init /\ object = [t \in Thread |-> o1] /\ calls = MaxCalls

LiveNext ==
  \E t \in Thread :
    \/ /\ calls > 0 /\ calls' = calls - 1
       /\ \E o \in Object : Enter(t, o)
    \/ /\ UNCHANGED calls
       /\ (\E o \in Object : Exit(t, o)) \/ ThreadExit(t) \/ Run(t)

\* The runtime's own steps are taken, and a thread leaves the objects it is in.
Fairness ==
  \A t \in Thread : WF_vars(Run(t)) /\ WF_vars(\E o \in Object : Exit(t, o))

LiveSpec == LiveInit /\ [][LiveNext]_<<vars, calls>> /\ Fairness
================================================================================
