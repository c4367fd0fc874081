----------------------------- MODULE MCRefCountLive -----------------------------
(***************************************************************************)
(* RefCount under fairness, for a program that makes a bounded number of   *)
(* calls, in any thread.  With no bound another thread could change the *)
(* isa word between each load and store of a thread for ever, and nothing  *)
(* in the code would stop it.                                              *)
(***************************************************************************)
EXTENDS RefCount

CONSTANT MaxCalls  \* the calls the program makes

VARIABLE calls     \* the calls it has left

LiveInit == Init /\ calls = MaxCalls

LiveNext ==
  \E t \in Thread :
    \/ /\ calls > 0 /\ Begin(t)
       /\ calls' = calls - 1
    \/ /\ Store(t) \/ Run(t) \/ StoreExclusiveFails(t)
       /\ UNCHANGED calls

LiveSpec == LiveInit /\ [][LiveNext]_<<vars, calls>> /\ Fairness
================================================================================
